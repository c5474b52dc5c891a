------------------------- MODULE CancellationProofs -------------------------
(***************************************************************************)
(* What survives cancellation, for every set of namespaces, tasks, locks   *)
(* and runtimes, whatever operations are cancelled and at whatever await.  *)
(*                                                                         *)
(* The invariants of LifecycleSafetyProofs are stated so that they admit   *)
(* requests that were cancelled; they are kept by the steps of Lifecycle,  *)
(* so what is left is to show that a cancellation keeps them.  It does one *)
(* of two things: the request leaves, or its caller gives up an actor and  *)
(* goes on waiting for it to end.  The count of calls is then not exact    *)
(* any more, but never too low.                                            *)
(***************************************************************************)
EXTENDS CancellationProperties, LifecycleSafetyProofs

-----------------------------------------------------------------------------
(* A waiter taken out of the middle of a queue. *)

LEMMA RemovedAt ==
  ASSUME NEW q \in Seq(Task), NEW i \in 1 .. Len(q)
  PROVE  /\ RemoveAt(q, i) \in Seq(Task)
         /\ Len(RemoveAt(q, i)) = Len(q) - 1
         /\ \A j \in 1 .. Len(q) - 1 : RemoveAt(q, i)[j] = IF j < i THEN q[j] ELSE q[j + 1]
  <1> DEFINE a == SubSeq(q, 1, i - 1)
             b == SubSeq(q, i + 1, Len(q))
  <1>1. Len(q) \in Nat /\ \A j \in 1 .. Len(q) : q[j] \in Task
    BY LenProperties, ElementOfSeq
  <1>2. /\ a \in Seq(Task) /\ Len(a) = i - 1
        /\ \A j \in 1 .. i - 1 : a[j] = q[j]
    <2>1. \A j \in 1 .. i - 1 : q[j] \in Task
      BY <1>1
    <2>2. 1 \in Int /\ i - 1 \in Int
      BY <1>1
    <2>3. /\ a \in Seq(Task)
          /\ Len(a) = IF 1 <= i - 1 THEN i - 1 - 1 + 1 ELSE 0
          /\ \A j \in 1 .. i - 1 - 1 + 1 : a[j] = q[1 + j - 1]
      BY <2>1, <2>2, SubSeqProperties
    <2> HIDE DEF a
    <2> QED BY <1>1, <2>3
  <1>3. /\ b \in Seq(Task) /\ Len(b) = Len(q) - i
        /\ \A j \in 1 .. Len(q) - i : b[j] = q[i + j]
    <2>1. \A j \in i + 1 .. Len(q) : q[j] \in Task
      BY <1>1
    <2>2. i + 1 \in Int /\ Len(q) \in Int
      BY <1>1
    <2>3. /\ b \in Seq(Task)
          /\ Len(b) = IF i + 1 <= Len(q) THEN Len(q) - (i + 1) + 1 ELSE 0
          /\ \A j \in 1 .. Len(q) - (i + 1) + 1 : b[j] = q[i + 1 + j - 1]
      BY <2>1, <2>2, SubSeqProperties
    <2> HIDE DEF b
    <2> QED BY <1>1, <2>3
  <1>4. RemoveAt(q, i) = a \o b
    BY DEF RemoveAt
  <1> HIDE DEF a, b
  <1>5. /\ a \o b \in Seq(Task)
        /\ Len(a \o b) = Len(a) + Len(b)
        /\ \A j \in 1 .. Len(a) + Len(b) :
             (a \o b)[j] = IF j <= Len(a) THEN a[j] ELSE b[j - Len(a)]
    BY <1>2, <1>3, ConcatProperties
  <1>6. Len(a) + Len(b) = Len(q) - 1
    BY <1>1, <1>2, <1>3
  <1>7. ASSUME NEW j \in 1 .. Len(q) - 1
        PROVE  (a \o b)[j] = IF j < i THEN q[j] ELSE q[j + 1]
    <2>1. CASE j < i
      BY <1>1, <1>2, <1>5, <1>6, <2>1
    <2>2. CASE ~(j < i)
      <3>1. j - Len(a) \in 1 .. Len(q) - i /\ i + (j - Len(a)) = j + 1 /\ ~(j <= Len(a))
        BY <1>1, <1>2, <2>2
      <3> QED BY <1>3, <1>5, <1>6, <2>2, <3>1
    <2> QED BY <2>1, <2>2
  <1> QED BY <1>4, <1>5, <1>6, <1>7

LEMMA RemovedQueue ==
  ASSUME NEW q \in Seq(Task), Distinct(q), NEW t \in Task
  PROVE  /\ RemoveFirst(q, t) \in Seq(Task)
         /\ Distinct(RemoveFirst(q, t))
         /\ Members(RemoveFirst(q, t)) = Members(q) \ {t}
         /\ q # <<>> /\ Head(q) # t =>
              RemoveFirst(q, t) # <<>> /\ Head(RemoveFirst(q, t)) = Head(q)
  <1> DEFINE b == RemoveFirst(q, t)
  <1>1. CASE ~\E i \in 1 .. Len(q) : q[i] = t
    <2>1. b = q
      BY <1>1 DEF RemoveFirst
    <2>2. t \notin Members(q)
      BY <1>1 DEF Members
    <2> QED BY <2>1, <2>2
  <1>2. CASE \E i \in 1 .. Len(q) : q[i] = t
    <2>1. PICK i \in 1 .. Len(q) : q[i] = t
      BY <1>2
    <2>2. Len(q) \in Nat
      BY LenProperties
    <2>3. SelectInSeq(q, LAMBDA v : v = t) = i
      <3>1. {j \in 1 .. Len(q) : q[j] = t} = {i}
        BY <2>1 DEF Distinct
      <3>2. Min({i}) = i
        BY <2>1, <2>2 DEF Min
      <3> QED BY <3>1, <3>2 DEF SelectInSeq
    <2>4. b = RemoveAt(q, i)
      BY <1>2, <2>3 DEF RemoveFirst
    <2>5. /\ b \in Seq(Task) /\ Len(b) = Len(q) - 1
          /\ \A j \in 1 .. Len(q) - 1 : b[j] = IF j < i THEN q[j] ELSE q[j + 1]
      BY <2>4, RemovedAt
    <2> HIDE DEF b
    <2>6. Distinct(b)
      BY <2>1, <2>2, <2>5 DEF Distinct
    <2>7. Members(b) = Members(q) \ {t}
      <3>1. ASSUME NEW j \in 1 .. Len(b) PROVE b[j] \in Members(q) \ {t}
        <4>1. j \in 1 .. Len(q) - 1
          BY <2>5
        <4>2. PICK m \in 1 .. Len(q) : b[j] = q[m] /\ m # i
          <5>1. CASE j < i
            BY <2>2, <2>5, <4>1, <5>1
          <5>2. CASE ~(j < i)
            <6>1. j + 1 \in 1 .. Len(q) /\ j + 1 # i
              BY <2>1, <2>2, <4>1, <5>2
            <6> QED BY <2>5, <4>1, <5>2, <6>1
          <5> QED BY <5>1, <5>2
        <4>3. q[m] # t
          BY <2>1, <4>2 DEF Distinct
        <4> QED BY <4>2, <4>3 DEF Members
      <3>2. ASSUME NEW j \in 1 .. Len(q), q[j] # t PROVE q[j] \in Members(b)
        <4>1. CASE j < i
          <5>1. j \in 1 .. Len(q) - 1
            BY <2>1, <2>2, <4>1
          <5>2. j \in 1 .. Len(b) /\ b[j] = q[j]
            BY <2>5, <4>1, <5>1
          <5> QED BY <5>2 DEF Members
        <4>2. CASE ~(j < i)
          <5>1. j - 1 \in 1 .. Len(q) - 1 /\ ~(j - 1 < i) /\ j - 1 + 1 = j
            BY <2>1, <2>2, <3>2, <4>2
          <5>2. j - 1 \in 1 .. Len(b) /\ b[j - 1] = q[j]
            BY <2>5, <5>1
          <5> QED BY <5>2 DEF Members
        <4> QED BY <4>1, <4>2
      <3> QED BY <3>1, <3>2 DEF Members
    <2>8. ASSUME q # <<>>, Head(q) # t PROVE b # <<>> /\ Head(b) = Head(q)
      <3>1. Head(q) = q[1]
        BY <2>8
      <3>2. 1 < i /\ 1 \in 1 .. Len(b) /\ b[1] = q[1]
        BY <2>1, <2>2, <2>5, <2>8, <3>1
      <3>3. b # <<>>
        BY <2>5, <3>2, EmptyQueue
      <3> QED BY <2>5, <3>1, <3>2, <3>3
    <2> QED BY <2>5, <2>6, <2>7, <2>8 DEF b
  <1> QED BY <1>1, <1>2

-----------------------------------------------------------------------------
(* The ways a cancellation moves runtimes, lines and counts. *)

InCall(k) == k.op = "call" /\ k.pc \notin {"idle", "entering"}

(* The request leaves: it was in a line and is not, or was in none; a call  *)
(* is counted out, unless the lock for that is held.                        *)
Departs(t) ==
  /\ Turn(t, Departed)
  /\ task[t].pc = "closing" => runtime[task[t].rt] = Down
  /\ \/ lockq' = Withdrawn(t) /\ ~HasLock(t)
     \/ HasLock(t) /\ Release(t)
     \/ lockq' = lockq /\ ~AtLock(task[t])
  /\ \/ inFlight' = inFlight
     \/ /\ InCall(task[t]) /\ task[t].ns \in Namespace
        /\ inFlight' = [inFlight EXCEPT ![task[t].ns] = IF @ = 0 THEN 0 ELSE @ - 1]
  /\ UNCHANGED <<fileVars, lockOf, mounted, runtime, boot>>

(* The caller cancels its actor and goes on waiting for it to end.          *)
GivesUp(t, k) ==
  /\ task[t].pc \in {"calling", "probing", "closing"}
  /\ Turn(t, k) /\ Signalled(k, task[t], "cancelled") /\ k.new = task[t].new
  /\ Aborts(task[t].rt)
  /\ UNCHANGED <<fileVars, lockVars, mounted, inFlight, boot>>

(* Nothing of a request that has left is in any queue any more.             *)
ForgetsTask(t) ==
  /\ task[t].pc = "gone" /\ Unqueued(t)
  /\ Turn(t, Idle)
  /\ UNCHANGED <<fileVars, lockVars, transportVars, boot>>

(* The actor drops the command of a request that has left.                  *)
DropsCommand(r) ==
  /\ runtime[r].state \in {"up", "closing"} /\ runtime[r].queue # <<>>
  /\ runtime' = [runtime EXCEPT ![r].queue = Tail(@)]
  /\ UNCHANGED <<fileVars, lockVars, mounted, inFlight, boot, task>>

CancelInv ==
  /\ IInv /\ PlaceInv /\ QueueInv /\ OwnInv /\ LinesInv
  /\ NeverUndercounted
  /\ SafeUnload

LEMMA GoneIs == Gone = Departed /\ Departed.pc = "gone" /\ Departed.op = None
  BY DEF Gone, Departed, Idle

LEMMA CountedOutIs ==
  ASSUME NEW n, CountedOut(n)
  PROVE  \/ inFlight' = inFlight
         \/ inFlight' = [inFlight EXCEPT ![n] = IF @ = 0 THEN 0 ELSE @ - 1]
  BY DEF CountedOut

(* Every cancellation is one of these.                                      *)
LEMMA DepartShape ==
  ASSUME IInv, PlaceInv, LinesInv, NEW t \in Task,
         CancelWaiting(t) \/ CancelInside(t) \/ CancelCall(t) \/ Cancelled(t)
  PROVE  Departs(t)
  <1>0. task[t] \in Coroutine /\ TaskOK(task[t]) /\ PlaceOK(task[t])
    BY DEF IInv, TaskInv, PlaceInv
  <1>n. ASSUME task[t].pc \notin {"idle", "gone"} PROVE task[t].ns \in Namespace
    BY <1>0, <1>n DEF TaskOK
  <1>h. ASSUME InSection(task[t]) PROVE HasLock(t)
    BY <1>h DEF LinesInv
  <1>1. CASE CancelWaiting(t)
    <2>1. Turn(t, Departed) /\ task[t].pc # "closing"
      BY <1>1, GoneIs DEF CancelWaiting, Left, Turn
    <2> QED BY <1>1, <2>1 DEF CancelWaiting, Departs, transportVars
  <1>2. CASE CancelInside(t)
    <2>1. Turn(t, Departed) /\ task[t].pc \in {"opening", "probing"}
      BY <1>2, GoneIs DEF CancelInside, Left, Turn
    <2>2. HasLock(t)
      BY <1>h, <2>1 DEF InSection
    <2> QED BY <1>2, <2>1, <2>2 DEF CancelInside, Departs, transportVars
  <1>3. CASE CancelCall(t)
    <2>1. Turn(t, Departed) /\ task[t].pc = "calling"
      BY <1>3, GoneIs DEF CancelCall, Left, Turn
    <2>2. InCall(task[t]) /\ task[t].ns \in Namespace /\ ~AtLock(task[t])
      BY <1>0, <1>n, <2>1 DEF TaskOK, InCall, AtLock
    <2>3. \/ inFlight' = inFlight
          \/ inFlight' = [inFlight EXCEPT ![task[t].ns] = IF @ = 0 THEN 0 ELSE @ - 1]
      BY <1>3, CountedOutIs DEF CancelCall
    <2> QED BY <1>3, <2>1, <2>2, <2>3 DEF CancelCall, Departs, lockVars
  <1>4. CASE Cancelled(t)
    <2>1. /\ Turn(t, Departed) /\ runtime[task[t].rt] = Down
          /\ task[t].pc \in {"calling", "probing", "closing"}
          /\ UNCHANGED <<fileVars, lockOf, mounted, runtime, boot>>
      BY <1>0, <1>4, GoneIs DEF Cancelled, Left, Turn, PlaceOK
    <2>2. CASE task[t].op = "call"
      <3>1. /\ InCall(task[t]) /\ task[t].ns \in Namespace /\ ~AtLock(task[t])
        BY <1>0, <1>n, <2>1, <2>2 DEF TaskOK, PlaceOK, InCall, AtLock
      <3>2. lockq' = lockq /\ CountedOut(task[t].ns)
        BY <1>4, <2>2 DEF Cancelled
      <3>3. \/ inFlight' = inFlight
            \/ inFlight' = [inFlight EXCEPT ![task[t].ns] = IF @ = 0 THEN 0 ELSE @ - 1]
        BY <3>2, CountedOutIs
      <3> QED BY <2>1, <3>1, <3>2, <3>3 DEF Departs
    <2>3. CASE task[t].op # "call"
      <3>1. HasLock(t)
        BY <1>0, <1>h, <2>1, <2>3 DEF InSection, TaskOK
      <3>2. Release(t) /\ inFlight' = inFlight
        BY <1>4, <2>3 DEF Cancelled
      <3> QED BY <2>1, <3>1, <3>2 DEF Departs
    <2> QED BY <2>2, <2>3
  <1> QED BY <1>1, <1>2, <1>3, <1>4

LEMMA GiveUpShape ==
  ASSUME IInv, NEW t \in Task, CancelClosing(t)
  PROVE  \E k \in Coroutine : GivesUp(t, k)
  <1> DEFINE k == [task[t] EXCEPT !.sig = "cancelled"]
  <1>0. task[t] \in Coroutine
    BY DEF IInv, TaskInv
  <1>1. k \in Coroutine /\ Signalled(k, task[t], "cancelled") /\ k.new = task[t].new
    <2>1. k \in Coroutine /\ Signalled(k, task[t], "cancelled")
      BY <1>0, SetField
    <2>2. k.new = task[t].new
      BY <1>0 DEF Coroutine
    <2> QED BY <2>1, <2>2
  <1>2. Turn(t, k) /\ task[t].pc \in {"calling", "probing", "closing"} /\ Aborts(task[t].rt)
        /\ UNCHANGED <<fileVars, lockVars, mounted, inFlight, boot>>
    BY DEF CancelClosing, Turn, Aborts
  <1> HIDE DEF k
  <1> QED BY <1>1, <1>2 DEF GivesUp

LEMMA ForgetShape ==
  ASSUME IInv, NEW t \in Task, Forgotten(t)
  PROVE  ForgetsTask(t)
  <1>1. ASSUME NEW r \in Runtime PROVE t \notin Members(runtime[r].queue)
    <2>1. DOMAIN runtime[r].queue = 1 .. Len(runtime[r].queue)
      BY QueueType, LenProperties
    <2> QED BY <2>1 DEF Forgotten, Members
  <1> QED BY <1>1 DEF Forgotten, ForgetsTask, Unqueued, Turn

LEMMA CancelShapes ==
  ASSUME CancelInv, CancellableNext
  PROVE  \/ Next
         \/ \E t \in Task : Departs(t) \/ ForgetsTask(t) \/ \E k \in Coroutine : GivesUp(t, k)
         \/ \E r \in Runtime : DropsCommand(r)
  <1>1. ASSUME NEW t \in Task, Cancel(t) \/ Cancelled(t) \/ Forgotten(t)
        PROVE  Departs(t) \/ ForgetsTask(t) \/ \E k \in Coroutine : GivesUp(t, k)
    BY <1>1, DepartShape, GiveUpShape, ForgetShape DEF Cancel, CancelInv
  <1>2. ASSUME NEW r \in Runtime, ServeAbandoned(r) PROVE DropsCommand(r)
    BY <1>2 DEF ServeAbandoned, DropsCommand
  <1> QED BY <1>1, <1>2 DEF CancellableNext

-----------------------------------------------------------------------------
(* Types and places. *)

LEMMA DepartedOK == Departed \in Coroutine /\ TaskOK(Departed) /\ PlaceOK(Departed)
  <1>1. /\ Departed \in Coroutine /\ Departed.pc = "gone" /\ Departed.sig = "cancelled"
        /\ Departed.rec = None /\ Departed.op = None
    BY DEF Departed, Idle, Coroutine
  <1>2. TaskOK(Departed)
    BY <1>1 DEF TaskOK
  <1>3. PlaceOK(Departed)
    BY <1>1, NoneIsNothing DEF PlaceOK, Operation
  <1> QED BY <1>1, <1>2, <1>3

LEMMA WithdrawnLines ==
  ASSUME IInv, LinesInv, NEW t \in Task, lockq' = Withdrawn(t)
  PROVE  \A l \in Lock :
           /\ lockq'[l] \in Seq(Task)
           /\ Distinct(lockq'[l])
           /\ Members(lockq'[l]) = Members(lockq[l]) \ {t}
           /\ \A u \in Task : u # t /\ Holds(u, l) => lockq'[l] # <<>> /\ Head(lockq'[l]) = u
  <1>1. ASSUME NEW l \in Lock
        PROVE  /\ lockq'[l] \in Seq(Task) /\ Distinct(lockq'[l])
               /\ Members(lockq'[l]) = Members(lockq[l]) \ {t}
               /\ lockq[l] # <<>> /\ Head(lockq[l]) # t =>
                    lockq'[l] # <<>> /\ Head(lockq'[l]) = Head(lockq[l])
    <2>1. lockq[l] \in Seq(Task) /\ Distinct(lockq[l]) /\ lockq'[l] = RemoveFirst(lockq[l], t)
      BY DEF IInv, LockInv, LinesInv, Line, Withdrawn
    <2> QED BY <2>1, RemovedQueue
  <1> QED BY <1>1 DEF Holds

LEMMA DepartTypes ==
  ASSUME IInv, PlaceInv, LinesInv, NEW t \in Task, Departs(t)
  PROVE  IInv' /\ PlaceInv'
  <1>1. TaskInv'
    BY DepartedOK, TaskKeeps DEF IInv, Departs, Turn
  <1>2. LockInv'
    <2>1. lockq' \in [Lock -> Seq(Task)]
      <3>1. CASE lockq' = Withdrawn(t)
        BY <3>1, WithdrawnLines DEF Withdrawn
      <3>2. CASE Release(t)
        BY <3>2, ReleaseKeeps DEF IInv
      <3> QED BY <3>1, <3>2 DEF Departs, IInv, LockInv
    <2> QED BY <2>1 DEF Departs, IInv, LockInv
  <1>3. FileInv' /\ TransportInv' /\ boot' \in SUBSET Namespace
    BY DEF Departs, IInv, FileInv, fileVars, TransportInv
  <1>4. PlaceInv'
    BY DepartedOK, TurnIs DEF Departs, PlaceInv, PlaceOK
  <1> QED BY <1>1, <1>2, <1>3, <1>4 DEF IInv

LEMMA GiveUpTypes ==
  ASSUME IInv, PlaceInv, NEW t \in Task, NEW k \in Coroutine, GivesUp(t, k)
  PROVE  IInv' /\ PlaceInv'
  <1>0. TaskOK(task[t]) /\ PlaceOK(task[t]) /\ task[t].rt \in Runtime
    BY DEF IInv, TaskInv, PlaceInv, TaskOK, GivesUp
  <1>1. TaskOK(k)
    BY <1>0 DEF GivesUp, Signalled, SameRequest, TaskOK, CarriesSound
  <1>2. TaskInv'
    BY <1>1, TaskKeeps DEF IInv, GivesUp, Turn
  <1>3. runtime' \in [Runtime -> RuntimeState]
    <2> DEFINE r == task[t].rt
               aborted == [runtime[r] EXCEPT !.state = IF @ = "down" THEN @ ELSE "aborting"]
    <2>1. runtime \in [Runtime -> RuntimeState] /\ r \in Runtime
      BY <1>0 DEF IInv, TransportInv
    <2>2. aborted \in RuntimeState
      BY <2>1 DEF RuntimeState
    <2>3. runtime' = [runtime EXCEPT ![r] = aborted]
      BY DEF GivesUp, Aborts
    <2> QED BY <2>1, <2>2, <2>3
  <1>4. FileInv' /\ LockInv' /\ TransportInv' /\ boot' \in SUBSET Namespace
    BY <1>3 DEF GivesUp, IInv, FileInv, fileVars, LockInv, lockVars, TransportInv
  <1>5. PlaceOK(k)
    BY <1>0, NoneIsNothing DEF GivesUp, Signalled, SameRequest, PlaceOK
  <1>6. PlaceInv'
    BY <1>5, TurnIs DEF GivesUp, PlaceInv, PlaceOK
  <1> QED BY <1>2, <1>4, <1>6 DEF IInv

LEMMA ForgetTypes ==
  ASSUME IInv, PlaceInv, NEW t \in Task, ForgetsTask(t)
  PROVE  IInv' /\ PlaceInv'
  <1>1. TaskInv'
    BY IdleOK, TaskKeeps DEF IInv, ForgetsTask, Turn
  <1>2. FileInv' /\ LockInv' /\ TransportInv' /\ boot' \in SUBSET Namespace
    BY DEF ForgetsTask, IInv, FileInv, fileVars, LockInv, lockVars, TransportInv, transportVars
  <1>3. PlaceInv'
    BY IdlePlaced, TurnIs DEF ForgetsTask, PlaceInv, PlaceOK
  <1> QED BY <1>1, <1>2, <1>3 DEF IInv

LEMMA DropTypes ==
  ASSUME IInv, PlaceInv, NEW r \in Runtime, DropsCommand(r)
  PROVE  IInv' /\ PlaceInv'
  <1>1. /\ runtime[r] \in RuntimeState /\ Tail(runtime[r].queue) \in Seq(Task)
        /\ runtime \in [Runtime -> RuntimeState]
    BY QueueType, TailQueue DEF DropsCommand, IInv, TransportInv
  <1>2. [runtime[r] EXCEPT !.queue = Tail(@)] \in RuntimeState
    BY <1>1 DEF RuntimeState
  <1>3. runtime' = [runtime EXCEPT ![r] = [runtime[r] EXCEPT !.queue = Tail(@)]]
    BY DEF DropsCommand
  <1>4. runtime' \in [Runtime -> RuntimeState]
    BY <1>1, <1>2, <1>3
  <1> QED BY <1>4 DEF DropsCommand, IInv, FileInv, fileVars, LockInv, lockVars, TransportInv,
          TaskInv, PlaceInv, PlaceOK

-----------------------------------------------------------------------------
(* Command queues and the owners of runtimes. *)

(* A request that leaves may leave its command behind.                      *)
LEMMA QueueTasks ==
  ASSUME IInv, QueueInv, UNCHANGED runtime,
         \A u \in Task : \/ task'[u] = task[u]
                         \/ task'[u].pc = "gone"
                         \/ Unqueued(u)
  PROVE  QueueInv'
  <1>1. ASSUME NEW r \in Runtime, NEW u \in Members(runtime[r].queue)
        PROVE  QueuedAt(task'[u], r, runtime[r].tools)
    <2>1. u \in Task
      BY <1>1, QueueType, MembersAreTasks
    <2> QED BY <1>1, <2>1 DEF QueueInv, QueuedAt, Unqueued
  <1> QED BY <1>1 DEF QueueInv

LEMMA DepartOwns ==
  ASSUME IInv, QueueInv, OwnInv, NEW t \in Task, Departs(t)
  PROVE  QueueInv' /\ OwnInv'
  <1>1. Turn(t, Departed) /\ Departed.pc = "gone" /\ UNCHANGED <<mounted, runtime>>
    BY GoneIs DEF Departs
  <1>2. QueueInv'
    BY <1>1, TurnIs, QueueTasks
  <1>3. OwnInv'
    BY <1>1, OwnQuiet DEF Departs
  <1> QED BY <1>2, <1>3

LEMMA GiveUpOwns ==
  ASSUME IInv, QueueInv, OwnInv, NEW t \in Task, NEW k \in Coroutine, GivesUp(t, k)
  PROVE  QueueInv' /\ OwnInv'
  <1>0. /\ Turn(t, k) /\ Signalled(k, task[t], "cancelled") /\ task[t].rt \in Runtime
        /\ Aborts(task[t].rt) /\ mounted' = mounted
    BY DEF GivesUp, IInv, TaskInv, TaskOK
  <1>1. \A r \in Runtime : runtime'[r].queue = runtime[r].queue /\ runtime'[r].tools = runtime[r].tools
    BY <1>0 DEF Aborts, IInv, TransportInv, RuntimeState
  <1>2. \A u \in Task : \/ task'[u] = task[u]
                        \/ Signalled(task'[u], task[u], "cancelled")
    BY <1>0, TurnIs
  <1>3. \A r \in Runtime : Members(runtime[r].queue) \subseteq Task
    BY QueueType, MembersAreTasks
  <1>4. QueueInv'
    BY <1>1, <1>2, <1>3 DEF QueueInv, QueuedAt, Signalled, SameRequest
  <1>5. OwnInv'
    BY <1>0, OwnAborts DEF GivesUp, Signalled, SameRequest
  <1> QED BY <1>4, <1>5

LEMMA ForgetOwns ==
  ASSUME IInv, QueueInv, OwnInv, NEW t \in Task, ForgetsTask(t)
  PROVE  QueueInv' /\ OwnInv'
  <1>1. /\ Turn(t, Idle) /\ Idle.pc = "idle" /\ task[t].pc = "gone" /\ Unqueued(t)
        /\ UNCHANGED <<mounted, runtime>>
    BY DEF ForgetsTask, Idle, transportVars
  <1>2. QueueInv'
    BY <1>1, TurnIs, QueueTasks
  <1>3. OwnInv'
    BY <1>1, OwnQuiet
  <1> QED BY <1>2, <1>3

LEMMA DropOwns ==
  ASSUME IInv, QueueInv, OwnInv, NEW r \in Runtime, DropsCommand(r)
  PROVE  QueueInv' /\ OwnInv'
  <1>1. /\ \A x \in Runtime : x # r => runtime'[x] = runtime[x]
        /\ runtime'[r].queue = Tail(runtime[r].queue)
        /\ runtime'[r].tools = runtime[r].tools
        /\ runtime'[r].state = runtime[r].state
    BY DEF DropsCommand, IInv, TransportInv, RuntimeState
  <1>2. /\ task' = task /\ mounted' = mounted
        /\ runtime[r].state \in {"up", "closing"} /\ runtime[r].queue # <<>>
    BY DEF DropsCommand
  <1>3. Distinct(Tail(runtime[r].queue))
        /\ Members(Tail(runtime[r].queue)) \subseteq Members(runtime[r].queue)
    BY <1>2, QueueType, TailQueue DEF QueueInv
  <1>4. QueueInv'
    <2>1. ASSUME NEW x \in Runtime
          PROVE  /\ Distinct(runtime'[x].queue)
                 /\ \A u \in Members(runtime'[x].queue) : QueuedAt(task'[u], x, runtime'[x].tools)
      <3>1. CASE x # r
        BY <1>1, <1>2, <3>1 DEF QueueInv
      <3>2. CASE x = r
        BY <1>1, <1>2, <1>3, <3>2 DEF QueueInv
      <3> QED BY <3>1, <3>2
    <2> QED BY <2>1 DEF QueueInv
  <1>5. OwnInv'
    BY <1>1, <1>2, OwnActor
  <1> QED BY <1>4, <1>5

-----------------------------------------------------------------------------
(* Lines. *)

LEMMA DepartLines ==
  ASSUME IInv, LinesInv, NEW t \in Task, Departs(t)
  PROVE  LinesInv' /\ (InOwnLine => InOwnLine')
  <1>0. /\ Departed \in Coroutine /\ Turn(t, Departed) /\ lockOf' = lockOf
        /\ ~AtLock(Departed) /\ ~InSection(Departed)
    BY DepartedOK, GoneIs DEF Departs, AtLock, InSection
  <1>t. task'[t] = Departed /\ \A u \in Task : u # t => task'[u] = task[u]
    BY <1>0, TurnIs
  <1>q. \A l \in Lock : Members(lockq[l]) \subseteq Task
    BY MembersAreTasks DEF IInv, LockInv
  <1>k. ASSUME \A l \in Lock : \A u : u \in Members(lockq'[l]) => u \in Members(lockq[l]) /\ u # t
        PROVE  InOwnLine => InOwnLine'
    BY <1>0, <1>k, <1>q, <1>t DEF InOwnLine
  <1>1. CASE lockq' = Withdrawn(t)
    <2>1. \A l \in Lock :
            /\ Distinct(lockq'[l])
            /\ Members(lockq'[l]) = Members(lockq[l]) \ {t}
            /\ \A u \in Task : u # t /\ Holds(u, l) => lockq'[l] # <<>> /\ Head(lockq'[l]) = u
      BY <1>1, WithdrawnLines
    <2>2. \A l \in Lock : \A u : u \in Members(lockq'[l]) => u \in Members(lockq[l]) /\ u # t
      BY <2>1
    <2>3. \A l \in Lock : \A u : u \in Members(lockq'[l]) => AtLock(task'[u])
      BY <1>q, <1>t, <2>2 DEF LinesInv, Line
    <2>4. \A l, m \in Lock : \A u : u \in Members(lockq'[l]) /\ u \in Members(lockq'[m]) => l = m
      BY <2>2 DEF LinesInv
    <2>5. ASSUME NEW u \in Task, InSection(task'[u]) PROVE HasLock(u)'
      <3>1. u # t /\ HasLock(u)
        BY <1>0, <1>t, <2>5 DEF LinesInv
      <3>2. PICK l \in Lock : Holds(u, l)
        BY <3>1 DEF HasLock
      <3>3. lockq'[l] # <<>> /\ Head(lockq'[l]) = u
        BY <2>1, <3>1, <3>2
      <3> QED BY <3>3 DEF HasLock, Holds
    <2>6. LinesInv'
      BY <2>1, <2>3, <2>4, <2>5, LinesFollow
    <2> QED BY <1>k, <2>2, <2>6
  <1>2. CASE HasLock(t) /\ Release(t)
    <2>1. LineMove(t, Departed)
      BY <1>0, <1>2 DEF LineMove, Leaves
    <2>2. LinesInv'
      BY <1>0, <2>1, LinesTurn
    <2>3. PICK l \in Lock : Holds(t, l)
      BY <1>2 DEF HasLock
    <2>4. /\ \A m \in Lock : m # l => lockq'[m] = lockq[m] /\ t \notin Members(lockq[m])
          /\ Members(lockq'[l]) = Members(lockq[l]) \ {t}
      BY <1>2, <2>3, LeftLine
    <2>5. \A m \in Lock : \A u : u \in Members(lockq'[m]) => u \in Members(lockq[m]) /\ u # t
      BY <2>4
    <2> QED BY <1>k, <2>2, <2>5
  <1>3. CASE lockq' = lockq /\ ~AtLock(task[t])
    <2>1. LineMove(t, Departed)
      BY <1>0, <1>3 DEF LineMove, Stays, lockVars
    <2>2. LinesInv'
      BY <1>0, <2>1, LinesTurn
    <2>3. \A m \in Lock : \A u : u \in Members(lockq'[m]) => u \in Members(lockq[m]) /\ u # t
      BY <1>3 DEF LinesInv, Line
    <2> QED BY <1>k, <2>2, <2>3
  <1> QED BY <1>1, <1>2, <1>3 DEF Departs

LEMMA RestLines ==
  ASSUME IInv, LinesInv,
         \/ \E t \in Task : ForgetsTask(t) \/ \E k \in Coroutine : GivesUp(t, k)
         \/ \E r \in Runtime : DropsCommand(r)
  PROVE  LinesInv' /\ (InOwnLine => InOwnLine')
  <1>1. ASSUME NEW t \in Task, ForgetsTask(t) PROVE LinesInv' /\ (InOwnLine => InOwnLine')
    <2>0. Idle \in Coroutine /\ Idle.pc = "idle"
      BY IdleState DEF Idle
    <2>1. /\ Turn(t, Idle) /\ ~AtLock(task[t]) /\ ~AtLock(Idle) /\ ~InSection(Idle)
          /\ UNCHANGED lockVars
      BY <1>1, <2>0 DEF ForgetsTask, AtLock, InSection
    <2>2. LineMove(t, Idle)
      BY <2>1 DEF LineMove, Stays
    <2>3. LinesInv'
      BY <2>0, <2>1, <2>2, LinesTurn
    <2>4. \A l \in Lock : Members(lockq[l]) \subseteq Task /\ t \notin Members(lockq[l])
      BY <2>1, MembersAreTasks DEF IInv, LockInv, LinesInv, Line
    <2>5. lockq' = lockq /\ lockOf' = lockOf /\ \A u \in Task : u # t => task'[u] = task[u]
      BY <2>1, TurnIs DEF lockVars
    <2>6. InOwnLine => InOwnLine'
      BY <2>4, <2>5 DEF InOwnLine
    <2> QED BY <2>3, <2>6
  <1>2. ASSUME NEW t \in Task, NEW k \in Coroutine, GivesUp(t, k)
        PROVE  LinesInv' /\ (InOwnLine => InOwnLine')
    BY <1>2, TurnIs, LinesKept DEF GivesUp, Signalled, SameRequest
  <1>3. ASSUME NEW r \in Runtime, DropsCommand(r)
        PROVE  LinesInv' /\ (InOwnLine => InOwnLine')
    BY <1>3, LinesKept DEF DropsCommand
  <1> QED BY <1>1, <1>2, <1>3

-----------------------------------------------------------------------------
(* Counts, and the unloads they guard. *)

LEMMA EnoughGuards ==
  ASSUME IInv, NeverUndercounted
  PROVE  Guarded
  <1>1. ASSUME NEW n \in Namespace, inFlight[n] = 0 PROVE Counted(n) = {}
    <2>1. 0 >= Cardinality(Counted(n))
      BY <1>1 DEF NeverUndercounted, Counted
    <2>2. Cardinality(Counted(n)) = 0
      BY <2>1, CountedFinite
    <2> QED BY <2>2, CountedFinite, FS_EmptySet
  <1> QED BY <1>1 DEF Guarded

(* A count that follows the calls stays high enough.                        *)
LEMMA EnoughStep ==
  ASSUME IInv, NeverUndercounted, \A n \in Namespace : CountsFollow(n)
  PROVE  NeverUndercounted'
  <1>1. ASSUME NEW n \in Namespace PROVE inFlight'[n] >= Cardinality(Counted(n)')
    <2>1. /\ inFlight[n] >= Cardinality(Counted(n)) /\ inFlight[n] \in Nat
          /\ Cardinality(Counted(n)) \in Nat
      BY CountedFinite DEF NeverUndercounted, Counted, IInv, TransportInv
    <2>2. CASE Counted(n)' = Counted(n) /\ inFlight'[n] = inFlight[n]
      BY <2>1, <2>2
    <2>3. ASSUME NEW t \in Task \ Counted(n), Counted(n)' = Counted(n) \cup {t},
                 inFlight'[n] = inFlight[n] + 1
          PROVE  inFlight'[n] >= Cardinality(Counted(n)')
      <3>1. Cardinality(Counted(n)') = Cardinality(Counted(n)) + 1
        BY <2>3, CountedFinite, FS_AddElement
      <3> QED BY <2>1, <2>3, <3>1
    <2>4. ASSUME NEW t \in Counted(n), Counted(n)' = Counted(n) \ {t},
                 inFlight'[n] = IF inFlight[n] = 0 THEN 0 ELSE inFlight[n] - 1
          PROVE  inFlight'[n] >= Cardinality(Counted(n)')
      <3>1. Cardinality(Counted(n)') = Cardinality(Counted(n)) - 1
        BY <2>4, CountedFinite, FS_RemoveElement
      <3>2. Cardinality(Counted(n)) # 0
        BY CountedFinite, FS_EmptySet
      <3> QED BY <2>1, <2>4, <3>1, <3>2
    <2>5. CASE Counted(n)' = {} /\ inFlight'[n] = 0
      <3>1. Cardinality(Counted(n)') = 0
        BY <2>5, FS_EmptySet
      <3> QED BY <2>5, <3>1
    <2> QED BY <2>2, <2>3, <2>4, <2>5 DEF CountsFollow
  <1> QED BY <1>1 DEF NeverUndercounted, Counted

(* Where fewer calls are in flight and nobody counts, it stays so too.      *)
LEMMA EnoughLeft ==
  ASSUME NeverUndercounted, UNCHANGED inFlight, IInv,
         \A n \in Namespace : Counted(n)' \subseteq Counted(n)
  PROVE  NeverUndercounted'
  <1>1. ASSUME NEW n \in Namespace PROVE inFlight'[n] >= Cardinality(Counted(n)')
    <2>1. IsFiniteSet(Counted(n)) /\ Cardinality(Counted(n)) \in Nat
      BY CountedFinite
    <2>2. Cardinality(Counted(n)') <= Cardinality(Counted(n)) /\ Cardinality(Counted(n)') \in Nat
      BY <2>1, FS_Subset, FS_CardinalityType
    <2>3. inFlight[n] >= Cardinality(Counted(n)) /\ inFlight[n] \in Nat
      BY DEF NeverUndercounted, Counted, IInv, TransportInv
    <2> QED BY <2>1, <2>2, <2>3
  <1> QED BY <1>1 DEF NeverUndercounted, Counted

LEMMA DepartCounts ==
  ASSUME IInv, NeverUndercounted, NEW t \in Task, Departs(t)
  PROVE  NeverUndercounted'
  <1>t. /\ task'[t] = Departed /\ Departed.op = None
        /\ \A u \in Task : u # t => task'[u] = task[u]
    BY TurnIs, GoneIs DEF Departs
  <1>1. CASE inFlight' = inFlight
    <2>1. \A n \in Namespace : Counted(n)' \subseteq Counted(n)
      BY <1>t, NoneIsNothing DEF Counted, Operation
    <2> QED BY <1>1, <2>1, EnoughLeft
  <1>2. CASE /\ InCall(task[t]) /\ task[t].ns \in Namespace
             /\ inFlight' = [inFlight EXCEPT ![task[t].ns] = IF @ = 0 THEN 0 ELSE @ - 1]
    <2>f. inFlight \in [Namespace -> Nat]
      BY DEF IInv, TransportInv
    <2>1. ASSUME NEW n \in Namespace PROVE CountsFollow(n)
      <3>1. CASE n = task[t].ns
        <4>1. t \in Counted(n) /\ t \notin Counted(n)'
          BY <1>t, <1>2, <3>1, NoneIsNothing DEF InCall, Counted, Operation
        <4>2. \A u \in Task : u # t => (u \in Counted(n)' <=> u \in Counted(n))
          BY <1>t DEF Counted
        <4>3. Counted(n) \subseteq Task /\ Counted(n)' \subseteq Task
          BY DEF Counted
        <4>4. Counted(n)' = Counted(n) \ {t}
          BY <4>1, <4>2, <4>3
        <4>5. inFlight'[n] = IF inFlight[n] = 0 THEN 0 ELSE inFlight[n] - 1
          BY <1>2, <2>f, <3>1
        <4> QED BY <4>1, <4>4, <4>5 DEF CountsFollow
      <3>2. CASE n # task[t].ns
        <4>1. Counted(n)' = Counted(n)
          BY <1>t, <3>2, NoneIsNothing DEF Counted, Operation
        <4>2. inFlight'[n] = inFlight[n]
          BY <1>2, <2>f, <3>2
        <4> QED BY <4>1, <4>2 DEF CountsFollow
      <3> QED BY <3>1, <3>2
    <2> QED BY <2>1, EnoughStep
  <1> QED BY <1>1, <1>2 DEF Departs

LEMMA RestCounts ==
  ASSUME IInv, NeverUndercounted,
         \/ \E t \in Task : ForgetsTask(t) \/ \E k \in Coroutine : GivesUp(t, k)
         \/ \E r \in Runtime : DropsCommand(r)
  PROVE  NeverUndercounted'
  <1>1. ASSUME NEW t \in Task, ForgetsTask(t) PROVE NeverUndercounted'
    <2>1. /\ task'[t] = Idle /\ Idle.pc = "idle" /\ inFlight' = inFlight
          /\ \A u \in Task : u # t => task'[u] = task[u]
      BY <1>1, TurnIs DEF ForgetsTask, Idle, transportVars
    <2>2. \A n \in Namespace : Counted(n)' \subseteq Counted(n)
      BY <2>1 DEF Counted
    <2> QED BY <2>1, <2>2, EnoughLeft
  <1>2. ASSUME NEW t \in Task, NEW k \in Coroutine, GivesUp(t, k) PROVE NeverUndercounted'
    <2>1. inFlight' = inFlight /\ \A u \in Task : /\ task'[u].pc = task[u].pc
                                                   /\ task'[u].op = task[u].op
                                                   /\ task'[u].ns = task[u].ns
      BY <1>2, TurnIs DEF GivesUp, Signalled, SameRequest
    <2>2. \A n \in Namespace : Counted(n)' \subseteq Counted(n)
      BY <2>1 DEF Counted
    <2> QED BY <2>1, <2>2, EnoughLeft
  <1>3. ASSUME NEW r \in Runtime, DropsCommand(r) PROVE NeverUndercounted'
    BY <1>3 DEF DropsCommand, NeverUndercounted
  <1> QED BY <1>1, <1>2, <1>3

LEMMA CancelUnloads ==
  ASSUME IInv, SafeUnload,
         \/ \E t \in Task : Departs(t) \/ ForgetsTask(t) \/ \E k \in Coroutine : GivesUp(t, k)
         \/ \E r \in Runtime : DropsCommand(r)
  PROVE  SafeUnload'
  <1>1. ASSUME NEW t \in Task, NEW k, Turn(t, k), k.pc \in {"idle", "gone"} PROVE SafeUnload'
    BY <1>1, TurnIs DEF SafeUnload
  <1>2. ASSUME NEW t \in Task, NEW k \in Coroutine, GivesUp(t, k) PROVE SafeUnload'
    <2>1. \A u \in Task : /\ task'[u].pc = task[u].pc /\ task'[u].op = task[u].op
                          /\ task'[u].force = task[u].force /\ task'[u].rt = task[u].rt
      BY <1>2, TurnIs DEF GivesUp, Signalled, SameRequest
    <2> QED BY <2>1 DEF SafeUnload
  <1>3. ASSUME NEW r \in Runtime, DropsCommand(r) PROVE SafeUnload'
    BY <1>3 DEF DropsCommand, SafeUnload
  <1>4. ASSUME NEW t \in Task, Departs(t) PROVE SafeUnload'
    BY <1>1, <1>4, GoneIs DEF Departs
  <1>5. ASSUME NEW t \in Task, ForgetsTask(t) PROVE SafeUnload'
    <2>1. Idle.pc = "idle"
      BY DEF Idle
    <2> QED BY <1>1, <1>5, <2>1 DEF ForgetsTask
  <1> QED BY <1>2, <1>3, <1>4, <1>5

-----------------------------------------------------------------------------
(* The inductive invariant, and what it says of cancelled requests. *)

LEMMA CancelInit == Init => CancelInv
  <1> SUFFICES ASSUME Init PROVE CancelInv
    OBVIOUS
  <1>1. RuntimesInv
    BY RuntimesInit
  <1>2. LinesInv
    BY SectionInit DEF SectionInv
  <1>3. NeverUndercounted
    <2>1. ASSUME NEW n \in Namespace PROVE inFlight[n] >= Cardinality(Counted(n))
      <3>1. inFlight[n] = Cardinality(Counted(n)) /\ inFlight[n] \in Nat
        BY <1>1 DEF RuntimesInv, InFlightExact, Counted, IInv, TransportInv
      <3> QED BY <3>1
    <2> QED BY <2>1 DEF NeverUndercounted, Counted
  <1> QED BY <1>1, <1>2, <1>3 DEF RuntimesInv, CancelInv

LEMMA CancelStep ==
  ASSUME CancelInv, CancellableNext
  PROVE  /\ CancelInv'
         /\ "unregister" \notin Op /\ InOwnLine => InOwnLine'
  <1> USE DEF CancelInv
  <1>1. CASE Next
    <2>1. IInv'
      BY <1>1, StepKeeps
    <2>2. PlaceInv' /\ QueueInv' /\ OwnInv'
      BY <1>1, PlaceStep, QueueStep, OwnStep
    <2>3. LinesInv' /\ ("unregister" \notin Op /\ InOwnLine => InOwnLine')
      BY <1>1, LinesStep
    <2>4. NeverUndercounted'
      BY <1>1, CountMoves, EnoughStep
    <2>5. SafeUnload'
      BY <1>1, EnoughGuards, UnloadStep
    <2> QED BY <2>1, <2>2, <2>3, <2>4, <2>5
  <1>2. ASSUME NEW t \in Task, Departs(t)
        PROVE  CancelInv' /\ (InOwnLine => InOwnLine')
    BY <1>2, DepartTypes, DepartOwns, DepartLines, DepartCounts, CancelUnloads
  <1>3. ASSUME NEW t \in Task, ForgetsTask(t)
        PROVE  CancelInv' /\ (InOwnLine => InOwnLine')
    BY <1>3, ForgetTypes, ForgetOwns, RestLines, RestCounts, CancelUnloads
  <1>4. ASSUME NEW t \in Task, NEW k \in Coroutine, GivesUp(t, k)
        PROVE  CancelInv' /\ (InOwnLine => InOwnLine')
    BY <1>4, GiveUpTypes, GiveUpOwns, RestLines, RestCounts, CancelUnloads
  <1>5. ASSUME NEW r \in Runtime, DropsCommand(r)
        PROVE  CancelInv' /\ (InOwnLine => InOwnLine')
    BY <1>5, DropTypes, DropOwns, RestLines, RestCounts, CancelUnloads
  <1> QED BY <1>1, <1>2, <1>3, <1>4, <1>5, CancelShapes

(* The types, places, queues, owners, lines and counts that a cancellation   *)
(* at any await of any request leaves behind fit each other, beside every    *)
(* step of the service and of the actors.                                    *)
THEOREM CancelInvariant == CancellableSpec => []CancelInv
  <1>1. ASSUME CancelInv, UNCHANGED vars PROVE CancelInv'
    BY <1>1 DEF vars, fileVars, lockVars, transportVars, CancelInv, IInv, FileInv, LockInv,
       TransportInv, TaskInv, PlaceInv, PlaceOK, QueueInv, OwnInv, MountedApart,
       ClosingUnmounted, UsedAtHome, DownIsDown, AllOwned, Owned, RaisedDown, LinesInv, Line,
       HasLock, Holds, NeverUndercounted, SafeUnload
  <1>2. CancelInv /\ [CancellableNext]_vars => CancelInv'
    BY <1>1, CancelStep
  <1> QED BY <1>2, CancelInit, PTL DEF CancellableSpec

(* A cancelled call may leave the counter that guards deactivation too high, *)
(* never too low: no call in progress is left unprotected.                   *)
THEOREM CountsAreEnough == CancellableSpec => []NeverUndercounted
  <1>1. CancelInv => NeverUndercounted
    BY DEF CancelInv
  <1> QED BY <1>1, CancelInvariant, PTL

(* Whoever is cancelled lets go of the lock he holds or waits for, and his   *)
(* runtime is mounted or has ended: once no request is under way every lock  *)
(* is free and no actor is lost.                                             *)
THEOREM NothingStaysHeld == CancellableSpec => []NothingHeld
  <1>1. ASSUME CancelInv PROVE NothingHeld
    <2> SUFFICES ASSUME \A t \in Task : task[t].pc \in {"idle", "gone"}
                 PROVE  /\ \A l \in Lock : lockq[l] = <<>>
                        /\ \A r \in Runtime : runtime[r] # Down => \E n \in Namespace : mounted[n] = r
      BY DEF NothingHeld
    <2>1. ASSUME NEW l \in Lock, lockq[l] # <<>> PROVE FALSE
      <3>1. Head(lockq[l]) \in Members(lockq[l]) /\ Head(lockq[l]) \in Task
        BY <1>1, <2>1, TailQueue DEF CancelInv, IInv, LockInv
      <3>2. AtLock(task[Head(lockq[l])])
        BY <1>1, <3>1 DEF CancelInv, LinesInv, Line
      <3> QED BY <3>1, <3>2 DEF AtLock
    <2>2. ASSUME NEW r \in Runtime, runtime[r] # Down PROVE \E n \in Namespace : mounted[n] = r
      BY <1>1, <2>2 DEF CancelInv, OwnInv, AllOwned, Owned
    <2> QED BY <2>1, <2>2
  <1>2. CancelInv => NothingHeld
    BY <1>1
  <1> QED BY <1>2, CancelInvariant, PTL

(* Cancelled requests do not make deactivate_toolsets without force, or      *)
(* unregister_toolsets, close a runtime that a call still waits on.          *)
THEOREM CancelledUnloadsAreSafe == CancellableSpec => []SafeUnload
  <1>1. CancelInv => SafeUnload
    BY DEF CancelInv
  <1> QED BY <1>1, CancelInvariant, PTL

(* A request cancelled while its runtime ends loses no downstream process.   *)
THEOREM NoRuntimeAbandoned == CancellableSpec => []RuntimesOwned
  <1>1. CancelInv => RuntimesOwned
    BY DEF CancelInv, OwnInv, AllOwned, Owned, RuntimesOwned
  <1> QED BY <1>1, CancelInvariant, PTL

(* Whatever a cancelled request has written, the state file loads again.     *)
THEOREM CancelledStoreLoads == CancellableSpec => []StoreLoadable
  <1>1. CancelInv => StoreLoadable
    BY DEF CancelInv, IInv, FileInv, TaskInv, TaskOK, StoreLoadable, Sound
  <1> QED BY <1>1, CancelInvariant, PTL

(* As long as nobody calls unregister_toolsets, two requests are never       *)
(* inside the locked section of one namespace, however many are cancelled    *)
(* inside it or while they wait.                                             *)
THEOREM CancelledSectionsExclude ==
  ASSUME "unregister" \notin Op
  PROVE  CancellableSpec => []MutualExclusion
  <1>1. Init => InOwnLine
    BY SectionInit DEF SectionInv
  <1>2. ASSUME CancelInv, InOwnLine, [CancellableNext]_vars PROVE InOwnLine'
    <2>1. CASE UNCHANGED vars
      BY <1>2, <2>1 DEF vars, lockVars, InOwnLine
    <2>2. CASE CancellableNext
      BY <1>2, <2>2, CancelStep
    <2> QED BY <1>2, <2>1, <2>2
  <1>3. CancelInv /\ InOwnLine /\ [CancellableNext]_vars => InOwnLine'
    BY <1>2
  <1>4. CancelInv /\ InOwnLine => MutualExclusion
    BY Exclusion DEF CancelInv, SectionInv
  <1> QED BY <1>1, <1>3, <1>4, CancelInvariant, PTL DEF CancellableSpec
=============================================================================
