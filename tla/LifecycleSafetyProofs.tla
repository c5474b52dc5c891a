----------------------- MODULE LifecycleSafetyProofs ------------------------
(***************************************************************************)
(* The safety of Lifecycle beyond its types, for every set of namespaces,  *)
(* tasks, locks and runtimes: who owns a runtime and who waits at it,      *)
(* which calls are counted, and who is inside a locked section.  What the  *)
(* stored records may say is in LifecycleRecordsProofs.                    *)
(*                                                                         *)
(* The actions of Lifecycle move runtimes and locks in a dozen ways only.  *)
(* A first lemma (StepShapes) names the way each action is an instance of; *)
(* the invariants of locks and runtimes are then proved way by way.        *)
(***************************************************************************)
EXTENDS LifecycleProofs, FiniteSetTheorems

-----------------------------------------------------------------------------
(* Queues of tasks: those of the locks and those of the actors. *)

Members(q) == {q[i] : i \in 1 .. Len(q)}
Distinct(q) == \A i, j \in 1 .. Len(q) : q[i] = q[j] => i = j

LEMMA EmptyQueue == Members(<<>>) = {} /\ Distinct(<<>>) /\ Len(<<>>) = 0
  BY EmptySeq DEF Members, Distinct

LEMMA AppendQueue ==
  ASSUME NEW q \in Seq(Task), NEW t \in Task
  PROVE  /\ Members(Append(q, t)) = Members(q) \cup {t}
         /\ Distinct(q) /\ t \notin Members(q) => Distinct(Append(q, t))
         /\ q # <<>> => Head(Append(q, t)) = Head(q)
         /\ Append(q, t) # <<>>
         /\ Append(q, t) \in Seq(Task)
  <1> DEFINE a == Append(q, t)
  <1>1. /\ a \in Seq(Task) /\ a # <<>> /\ Len(a) = Len(q) + 1 /\ Len(q) \in Nat
        /\ \A i \in 1 .. Len(q) : a[i] = q[i]
        /\ a[Len(q) + 1] = t
    BY AppendProperties, LenProperties
  <1>2. q # <<>> => Head(a) = Head(q)
    BY HeadTailAppend
  <1> HIDE DEF a
  <1>3. Members(a) = Members(q) \cup {t}
    <2>1. ASSUME NEW i \in 1 .. Len(a) PROVE a[i] \in Members(q) \cup {t}
      <3>1. i \in 1 .. Len(q) \/ i = Len(q) + 1
        BY <1>1
      <3> QED BY <1>1, <3>1 DEF Members
    <2>2. ASSUME NEW i \in 1 .. Len(q) PROVE q[i] \in Members(a)
      BY <1>1 DEF Members
    <2>3. t \in Members(a)
      BY <1>1 DEF Members
    <2> QED BY <2>1, <2>2, <2>3 DEF Members
  <1>4. ASSUME Distinct(q), t \notin Members(q) PROVE Distinct(a)
    <2>1. \A i \in 1 .. Len(q) : q[i] # t
      BY <1>4 DEF Members
    <2> QED BY <1>1, <1>4, <2>1 DEF Distinct
  <1> QED BY <1>1, <1>2, <1>3, <1>4 DEF a

LEMMA TailQueue ==
  ASSUME NEW q \in Seq(Task), q # <<>>
  PROVE  /\ Head(q) \in Members(q)
         /\ Head(q) \in Task
         /\ Tail(q) \in Seq(Task)
         /\ Members(Tail(q)) \subseteq Members(q)
         /\ Distinct(q) => Distinct(Tail(q)) /\ Members(Tail(q)) = Members(q) \ {Head(q)}
  <1> DEFINE b == Tail(q)
  <1>1. /\ Head(q) \in Task /\ b \in Seq(Task) /\ Len(b) = Len(q) - 1
        /\ \A i \in 1 .. Len(b) : b[i] = q[i + 1]
        /\ Len(q) \in Nat \ {0}
    BY HeadTailProperties, EmptySeq
  <1>2. Head(q) = q[1]
    OBVIOUS
  <1> HIDE DEF b
  <1>3. Head(q) \in Members(q)
    BY <1>1, <1>2 DEF Members
  <1>4. Members(b) \subseteq Members(q)
    BY <1>1 DEF Members
  <1>5. ASSUME Distinct(q) PROVE Distinct(b) /\ Members(b) = Members(q) \ {Head(q)}
    <2>1. Distinct(b)
      BY <1>1, <1>5 DEF Distinct
    <2>2. Head(q) \notin Members(b)
      BY <1>1, <1>2, <1>5 DEF Members, Distinct
    <2>3. ASSUME NEW i \in 1 .. Len(q), q[i] # Head(q) PROVE q[i] \in Members(b)
      <3>1. i - 1 \in 1 .. Len(b) /\ b[i - 1] = q[i]
        BY <1>1, <1>2, <2>3
      <3> QED BY <3>1 DEF Members
    <2> QED BY <1>4, <2>1, <2>2, <2>3 DEF Members
  <1> QED BY <1>1, <1>3, <1>4, <1>5 DEF b

LEMMA MembersAreTasks == ASSUME NEW q \in Seq(Task) PROVE Members(q) \subseteq Task
  BY ElementOfSeq DEF Members

-----------------------------------------------------------------------------
(* A coroutine's fields fit its place in its request. *)

(* What is left of one that its client cancelled (Gone of Cancellation).    *)
Departed == [Idle EXCEPT !.pc = "gone", !.sig = "cancelled"]

PlaceOK(k) ==
  /\ k.pc = "idle" => k = Idle
  /\ k.pc = "gone" => k = Departed
  /\ k.pc \notin {"idle", "gone"} => k.op \in Op \cup {"boot_restore"}
  /\ k.pc \in {"entering", "opening", "finishing"} => k.rt = None /\ k.sig = None
  /\ k.pc = "opening" => k.op \in SwapOp
  /\ k.pc = "finishing" => k.op = "call"
  /\ k.op = "call" => k.pc \in {"entering", "calling", "closing", "finishing"}
  /\ k.sig = "cancelled" => k.pc \in {"calling", "probing", "closing", "gone"}

PlaceInv == \A t \in Task : PlaceOK(task[t])

LEMMA NoOperation == Idle.op = None /\ Departed.op = None
  BY DEF Idle, Departed

LEMMA IdlePlaced == PlaceOK(Idle)
  BY NoneIsNothing DEF PlaceOK, Idle, Operation

-----------------------------------------------------------------------------
(* The ways runtimes and locks move.  k is what task t becomes. *)

SameRequest(k, j) == k.op = j.op /\ k.ns = j.ns /\ k.tool = j.tool

Begins(t, k) ==
  /\ task[t].pc = "idle"
  /\ k.pc = "entering" /\ k.rt = None /\ k.sig = None /\ k.rec = None
  /\ k.op \in Op \cup {"boot_restore"} /\ k.ns \in Namespace
  /\ Acquire(t, k.ns)
  /\ UNCHANGED transportVars

MayReturn(t) ==
  \/ task[t].pc = "entering" /\ HasLock(t)
  \/ task[t].pc = "opening"
  \/ task[t].pc = "probing" /\ (Answered(t) \/ Broken(t))
  \/ task[t].op # "call" /\ (Closed(t) \/ CloseRaised(t))

Returns(t, k) ==
  /\ MayReturn(t)
  /\ k = Idle
  /\ Release(t)
  /\ task[t].op # "unregister" => UNCHANGED lockOf
  /\ UNCHANGED transportVars

Opens(t, k) ==
  /\ task[t].pc = "entering" /\ HasLock(t) /\ task[t].op \in SwapOp
  /\ SameRequest(k, task[t]) /\ k.pc = "opening"
  /\ k.rt = task[t].rt /\ k.sig = task[t].sig
  /\ UNCHANGED <<lockVars, transportVars>>

Mounts(t, k) ==
  /\ task[t].pc = "opening"
  /\ mounted[task[t].ns] = None
  /\ \E r \in Runtime, i \in Inventory :
       /\ NewRuntime(r)
       /\ mounted' = [mounted EXCEPT ![task[t].ns] = r]
       /\ runtime' = [runtime EXCEPT ![r] = Fresh(i)]
  /\ k = Idle
  /\ Release(t)
  /\ UNCHANGED <<lockOf, inFlight>>

Waits(k, r) == k.pc = "closing" /\ k.rt = r /\ k.sig = CloseSignal(r)

Replaces(t, k) ==
  LET existing == mounted[task[t].ns] IN
  /\ task[t].pc = "opening"
  /\ existing # None
  /\ \E r \in Runtime, i \in Inventory :
       /\ NewRuntime(r)
       /\ mounted' = [mounted EXCEPT ![task[t].ns] = r]
       /\ runtime' = Closing([runtime EXCEPT ![r] = Fresh(i)], existing, t)
  /\ SameRequest(k, task[t]) /\ Waits(k, existing)
  /\ UNCHANGED <<lockVars, inFlight>>

(* The last conjunct of MayUnload; unforced says that calls are respected.  *)
Unmounts(t, k) ==
  LET n == task[t].ns IN
  /\ mounted[n] # None
  /\ \/ /\ task[t].pc = "entering" /\ HasLock(t)
        /\ task[t].op \in {"unregister", "deactivate"}
        /\ (task[t].op = "deactivate" /\ k.force) \/ inFlight[n] = 0
     \/ task[t].pc = "probing" /\ Broken(t) /\ task[t].op = "health"
     \/ task[t].pc = "calling" /\ Broken(t) /\ task[t].op = "call"
  /\ mounted' = [mounted EXCEPT ![n] = None]
  /\ runtime' = Closing(runtime, mounted[n], t)
  /\ SameRequest(k, task[t]) /\ Waits(k, mounted[n])
  /\ UNCHANGED <<lockVars, inFlight>>

Queues(t, k) ==
  LET n == task[t].ns IN
  /\ task[t].pc = "entering" /\ HasLock(t)
  /\ Live(n)
  /\ runtime' = Enqueued(mounted[n], t)
  /\ SameRequest(k, task[t]) /\ k.rt = mounted[n] /\ k.sig = task[t].sig
  /\ \/ /\ task[t].op = "health" /\ k.pc = "probing"
        /\ UNCHANGED <<lockVars, inFlight>>
     \/ /\ task[t].op = "call" /\ k.pc = "calling"
        /\ k.tool \in runtime[mounted[n]].tools
        /\ inFlight' = [inFlight EXCEPT ![n] = @ + 1]
        /\ Release(t) /\ UNCHANGED lockOf
  /\ UNCHANGED mounted

Finishes(t, k) ==
  /\ task[t].op = "call"
  /\ \/ task[t].pc = "calling" /\ (Answered(t) \/ Broken(t))
     \/ Closed(t) \/ CloseRaised(t)
  /\ SameRequest(k, task[t]) /\ k.pc = "finishing" /\ k.rt = None /\ k.sig = None
  /\ Acquire(t, task[t].ns)
  /\ UNCHANGED transportVars

CountsOut(t, k) ==
  /\ task[t].pc = "finishing" /\ HasLock(t)
  /\ inFlight' = [inFlight EXCEPT ![task[t].ns] = IF @ = 0 THEN 0 ELSE @ - 1]
  /\ k = Idle
  /\ Release(t)
  /\ UNCHANGED <<lockOf, mounted, runtime>>

(* Only what a future brought, and what a probe learnt, has changed.        *)
Signalled(k, j, sig) ==
  /\ SameRequest(k, j) /\ k.pc = j.pc /\ k.rt = j.rt /\ k.force = j.force
  /\ k.rec = j.rec /\ k.grant = j.grant /\ k.old = j.old
  /\ j.pc # "probing" => k.new = j.new
  /\ k.sig = sig

Expires(t, k) ==
  /\ task[t].pc \in {"calling", "probing", "closing"}
  /\ task[t].sig = None
  /\ Signalled(k, task[t], "timeout")
  /\ runtime' = [runtime EXCEPT ![task[t].rt].state = IF @ = "down" THEN @ ELSE "aborting"]
  /\ UNCHANGED <<lockVars, mounted, inFlight>>

Answers(r, t, k) ==
  /\ runtime[r].queue # <<>> /\ t = Head(runtime[r].queue)
  /\ runtime[r].state \in {"up", "closing"}
  /\ \/ /\ task[t].pc = "closing"
        /\ Signalled(k, task[t], "ok")
        /\ runtime' = [runtime EXCEPT ![r] = Down]
     \/ /\ task[t].pc \in {"calling", "probing"}
        /\ Signalled(k, task[t], "ok") \/ Signalled(k, task[t], "error")
        /\ runtime' = [runtime EXCEPT ![r].queue = Tail(@)]
  /\ UNCHANGED <<lockVars, mounted, inFlight>>

Ends(r) ==
  /\ runtime[r].state # "down"
  /\ runtime' = [runtime EXCEPT ![r] = Down]
  /\ \A t \in Task :
       \/ task'[t] = task[t]
       \/ /\ t \in Members(runtime[r].queue)
          /\ Signalled(task'[t], task[t], "error")
          /\ task[t].sig = None
  /\ UNCHANGED <<lockVars, mounted, inFlight>>

Turn(t, k) == task' = [task EXCEPT ![t] = k]

Shape(t, k) ==
  \/ Begins(t, k) \/ Returns(t, k) \/ Opens(t, k) \/ Mounts(t, k) \/ Replaces(t, k)
  \/ Unmounts(t, k) \/ Queues(t, k) \/ Finishes(t, k) \/ CountsOut(t, k) \/ Expires(t, k)

(* An effect on the record copies alone, whatever the shape.                *)
LEMMA SetField ==
  ASSUME NEW k \in Coroutine, NEW sig \in {"ok", "error", "timeout", "cancelled"}
  PROVE  /\ [k EXCEPT !.sig = sig] \in Coroutine
         /\ Signalled([k EXCEPT !.sig = sig], k, sig)
         /\ k.pc = "probing" =>
              \A i \in Inventory : /\ [k EXCEPT !.sig = sig, !.new = i] \in Coroutine
                                   /\ Signalled([k EXCEPT !.sig = sig, !.new = i], k, sig)
  <1>1. /\ [k EXCEPT !.sig = sig] \in Coroutine
        /\ Signalled([k EXCEPT !.sig = sig], k, sig)
    BY DEF Coroutine, Signalled, SameRequest
  <1>2. ASSUME k.pc = "probing", NEW i \in Inventory
        PROVE  /\ [k EXCEPT !.sig = sig, !.new = i] \in Coroutine
               /\ Signalled([k EXCEPT !.sig = sig, !.new = i], k, sig)
    <2> DEFINE l == [k EXCEPT !.sig = sig, !.new = i]
    <2>1. l \in Coroutine
      BY DEF Coroutine
    <2>2. /\ l.pc = k.pc /\ l.op = k.op /\ l.ns = k.ns /\ l.tool = k.tool
          /\ l.force = k.force /\ l.rt = k.rt
      BY DEF Coroutine
    <2>3. l.rec = k.rec /\ l.grant = k.grant /\ l.old = k.old /\ l.sig = sig
      BY DEF Coroutine
    <2> HIDE DEF l
    <2>4. Signalled(l, k, sig)
      BY <1>2, <2>2, <2>3 DEF Signalled, SameRequest
    <2> QED BY <2>1, <2>4 DEF l
  <1> QED BY <1>1, <1>2

LEMMA IdleState == Idle \in Coroutine
  BY DEF Idle, Coroutine

LEMMA StartedState ==
  ASSUME NEW o \in Operation \cup {"boot_restore"}, NEW n \in Namespace,
         NEW x \in Tool \cup {None}
  PROVE  /\ Started(o, n, x) \in Coroutine
         /\ Started(o, n, x).pc = "entering" /\ Started(o, n, x).op = o
         /\ Started(o, n, x).ns = n /\ Started(o, n, x).tool = x
         /\ Started(o, n, x).rt = None /\ Started(o, n, x).sig = None
         /\ Started(o, n, x).rec = None
  BY DEF Idle, Started, Coroutine

(* An idle task starts a request, or a restore of startup.                  *)
LEMMA BeginShape ==
  ASSUME IInv, NEW t \in Task, Request(t) \/ BootRestore(t)
  PROVE  \E k \in Coroutine : Turn(t, k) /\ Begins(t, k)
  <1>1. PICK o \in Op \cup {"boot_restore"}, n \in Namespace, x \in Tool \cup {None} :
          /\ task' = [task EXCEPT ![t] = Started(o, n, x)]
          /\ Acquire(t, n)
    <2>1. CASE Request(t)
      BY <2>1 DEF Request
    <2>2. CASE BootRestore(t)
      BY <2>2 DEF BootRestore, IInv
    <2> QED BY <2>1, <2>2
  <1>2. task[t].pc = "idle" /\ UNCHANGED transportVars
    BY DEF Request, BootRestore
  <1>3. Started(o, n, x) \in Coroutine /\ Begins(t, Started(o, n, x))
    BY <1>1, <1>2, StartedState, OpAssumption DEF Begins
  <1> QED BY <1>1, <1>3 DEF Turn

(* close() of a mounted runtime, by a task that then waits for its end.     *)
LEMMA DisconnectShape ==
  ASSUME NEW t \in Task, NEW n, mounted[n] \in Runtime, NEW next \in Coroutine,
         Disconnect(t, n, next)
  PROVE  \E k \in Coroutine :
           /\ Turn(t, k) /\ SameRequest(k, next) /\ Waits(k, mounted[n])
           /\ k.force = next.force /\ k.rec = next.rec
           /\ mounted' = [mounted EXCEPT ![n] = None]
           /\ runtime' = Closing(runtime, mounted[n], t)
  <1> DEFINE k == [next EXCEPT !.pc = "closing", !.rt = mounted[n],
                               !.sig = CloseSignal(mounted[n])]
  <1>1. CloseSignal(mounted[n]) \in {"ok", None}
    BY DEF CloseSignal
  <1>2. /\ k \in Coroutine /\ SameRequest(k, next) /\ Waits(k, mounted[n])
        /\ k.force = next.force /\ k.rec = next.rec
    <2>1. k \in Coroutine
      BY <1>1 DEF Coroutine
    <2>2. SameRequest(k, next) /\ k.force = next.force /\ k.rec = next.rec
      BY DEF Coroutine, SameRequest
    <2>3. Waits(k, mounted[n])
      BY DEF Coroutine, Waits
    <2> QED BY <2>1, <2>2, <2>3
  <1>3. Turn(t, k)
    BY DEF Disconnect, Turn
  <1> QED BY <1>2, <1>3 DEF Disconnect

(* A request under the lock returns, opens, mounts, replaces or unmounts.   *)
LEMMA SectionShape ==
  ASSUME IInv, PlaceInv, NEW t \in Task, Section(t)
  PROVE  \E k \in Coroutine :
           /\ Turn(t, k)
           /\ \/ Returns(t, k) \/ Opens(t, k) \/ Mounts(t, k) \/ Replaces(t, k)
              \/ Unmounts(t, k) \/ Queues(t, k)
  <1> DEFINE n == task[t].ns
  <1> USE DEF n
  <1>0. task[t] \in Coroutine /\ TaskOK(task[t]) /\ PlaceOK(task[t])
    BY DEF IInv, TaskInv, PlaceInv
  <1>n. ASSUME task[t].pc \notin {"idle", "gone"} PROVE n \in Namespace
    BY <1>0, <1>n DEF TaskOK
  <1>r. ASSUME Return(t), MayReturn(t), UNCHANGED transportVars,
               task[t].op = "unregister" \/ UNCHANGED lockOf
        PROVE  \E k \in Coroutine : Turn(t, k) /\ Returns(t, k)
    BY <1>r, IdleState DEF Return, Turn, Returns
  <1>m. ASSUME n \in Namespace, mounted[n] # None PROVE mounted[n] \in Runtime
    BY <1>m DEF IInv, TransportInv
  <1>1. CASE \/ Refuse(t) \/ Register(t) \/ ActivateReuse(t) \/ RestoreSkip(t)
             \/ RestoreReuse(t) \/ HealthMissing(t) \/ ClearStale(t) \/ MarkStale(t)
    <2>1. Return(t) /\ UNCHANGED <<lockOf, transportVars>> /\ task[t].pc = "entering" /\ HasLock(t)
      BY <1>1 DEF Refuse, Register, ActivateReuse, RestoreSkip, RestoreReuse, HealthMissing,
                  ClearStale, MarkStale, Entering, Restoring
    <2> QED BY <2>1, <1>r DEF MayReturn
  <1>2. CASE \/ UnregisterClosed(t) \/ SwapClosed(t) \/ OpenFailed(t) \/ DeactivateClosed(t)
             \/ DisconnectRaised(t) \/ HealthClosed(t) \/ HealthProbed(t)
    <2>1. Return(t) /\ UNCHANGED transportVars /\ (task[t].op = "unregister" \/ UNCHANGED lockOf)
      BY <1>2 DEF UnregisterClosed, SwapClosed, OpenFailed, DeactivateClosed, DisconnectRaised,
                  HealthClosed, HealthProbed, Forget, Install, transportVars
    <2>2. \/ task[t].pc \in {"opening"}
          \/ task[t].op # "call" /\ (Closed(t) \/ CloseRaised(t))
          \/ task[t].pc = "probing" /\ (Answered(t) \/ Broken(t))
      BY <1>2 DEF UnregisterClosed, SwapClosed, OpenFailed, DeactivateClosed, DisconnectRaised,
                  HealthClosed, HealthProbed, Swapping
    <2> QED BY <2>1, <2>2, <1>r DEF MayReturn
  <1>3. CASE Unregister(t)
    <2>1. n \in Namespace /\ task[t].op = "unregister" /\ task[t].pc = "entering" /\ HasLock(t)
      BY <1>3, <1>n DEF Unregister, Entering
    <2>2. CASE Forget(t, n)
      BY <2>1, <2>2, <1>r DEF Forget, MayReturn
    <2>3. CASE /\ MayUnload(n, FALSE)
               /\ mounted[n] # None
               /\ Disconnect(t, n, [task[t] EXCEPT !.force = TRUE])
               /\ UNCHANGED <<fileVars, lockVars, inFlight, boot>>
      <3> DEFINE next == [task[t] EXCEPT !.force = TRUE]
      <3>1. next \in Coroutine /\ SameRequest(next, task[t])
        BY <1>0 DEF Coroutine, SameRequest
      <3> HIDE DEF next
      <3>2. PICK k \in Coroutine :
              /\ Turn(t, k) /\ SameRequest(k, next) /\ Waits(k, mounted[n])
              /\ mounted' = [mounted EXCEPT ![n] = None]
              /\ runtime' = Closing(runtime, mounted[n], t)
        BY <2>1, <2>3, <3>1, <1>m, DisconnectShape DEF next
      <3>3. Unmounts(t, k)
        BY <2>1, <2>3, <3>1, <3>2 DEF Unmounts, SameRequest, MayUnload
      <3> QED BY <3>2, <3>3
    <2> QED BY <1>3, <2>2, <2>3 DEF Unregister
  <1>4. CASE Activate(t) \/ Restore(t) \/ Refresh(t)
    <2>1. /\ n \in Namespace /\ store[n] # None
          /\ task[t].op \in SwapOp /\ task[t].pc = "entering" /\ HasLock(t)
      BY <1>4, <1>n DEF Activate, Restore, Refresh, Restoring, Candidates, Entering, SwapOp
    <2>2. Sound(store[n])
      BY <2>1 DEF IInv, FileInv
    <2>3. PICK rec \in ToolsetRecord, grant \in SUBSET Scope, old \in Inventory \cup {None} :
            Open(t, rec, grant, old)
      <3>1. InState(store[n], "connecting") \in ToolsetRecord
        BY <2>2, InStateSound DEF Sound, TransportState
      <3>2. CASE Activate(t)
        <4>1. PICK s \in store[n].policy.supported_scopes :
                Open(t, InState(store[n], "connecting"), {s}, None)
          BY <3>2 DEF Activate
        <4>2. {s} \in SUBSET Scope
          BY <2>2 DEF Sound, ToolsetRecord, Policy
        <4> QED BY <3>1, <4>1, <4>2
      <3>3. CASE Restore(t)
        <4>1. PICK identity \in BOOLEAN :
                Open(t, InState(store[n], "connecting"),
                     RecoveryScopes(store[n], identity, task[t].op = "restore"), None)
          BY <3>3 DEF Restore
        <4>2. RecoveryScopes(store[n], identity, task[t].op = "restore") \in SUBSET Scope
          BY <2>2, RecoveryBounds DEF Sound
        <4> QED BY <3>1, <4>1, <4>2
      <3>4. CASE Refresh(t)
        <4>1. Open(t, store[n], {}, cached[n])
          BY <3>4 DEF Refresh
        <4>2. cached[n] \in Inventory \cup {None} /\ {} \in SUBSET Scope
          BY <2>1 DEF IInv, FileInv
        <4> QED BY <2>2, <4>1, <4>2 DEF Sound
      <3> QED BY <1>4, <3>2, <3>3, <3>4
    <2> DEFINE k == [task[t] EXCEPT !.pc = "opening", !.rec = rec, !.grant = grant, !.old = old]
    <2>4. /\ k \in Coroutine /\ SameRequest(k, task[t]) /\ k.pc = "opening"
          /\ k.rt = task[t].rt /\ k.sig = task[t].sig
      BY <1>0, <2>3 DEF Coroutine, SameRequest
    <2>5. Turn(t, k) /\ UNCHANGED <<lockVars, transportVars>>
      BY <2>3 DEF Open, Turn
    <2> HIDE DEF k
    <2>6. Opens(t, k)
      BY <2>1, <2>4, <2>5 DEF Opens
    <2> QED BY <2>4, <2>5, <2>6
  <1>5. CASE Opened(t)
    <2>1. n \in Namespace /\ task[t].pc = "opening"
      BY <1>5, <1>n DEF Opened
    <2>2. PICK r \in Runtime, i \in Inventory :
            LET existing == mounted[n]
                started == [runtime EXCEPT ![r] = Fresh(i)]
            IN /\ NewRuntime(r)
               /\ mounted' = [mounted EXCEPT ![n] = r]
               /\ \/ existing = None /\ runtime' = started /\ Install(t, i)
                  \/ /\ existing # None
                     /\ runtime' = Closing(started, existing, t)
                     /\ task' = [task EXCEPT ![t] =
                                   [@ EXCEPT !.pc = "closing", !.new = i, !.rt = existing,
                                             !.sig = CloseSignal(existing)]]
                     /\ UNCHANGED <<fileVars, lockVars, inFlight, boot>>
      BY <1>5 DEF Opened
    <2>3. CASE mounted[n] = None
      <3>1. /\ Turn(t, Idle) /\ Release(t) /\ UNCHANGED <<lockOf, inFlight>>
            /\ runtime' = [runtime EXCEPT ![r] = Fresh(i)]
        BY <2>2, <2>3 DEF Install, Return, Turn
      <3>2. Mounts(t, Idle)
        BY <2>1, <2>2, <2>3, <3>1 DEF Mounts
      <3> QED BY <3>1, <3>2, IdleState
    <2>4. CASE mounted[n] # None
      <3> DEFINE k == [task[t] EXCEPT !.pc = "closing", !.new = i, !.rt = mounted[n],
                                      !.sig = CloseSignal(mounted[n])]
      <3>1. CloseSignal(mounted[n]) \in {"ok", None} /\ mounted[n] \in Runtime
        BY <2>1, <2>4, <1>m DEF CloseSignal
      <3>2. k \in Coroutine /\ SameRequest(k, task[t]) /\ Waits(k, mounted[n])
        <4>1. k \in Coroutine
          BY <1>0, <3>1 DEF Coroutine
        <4>2. SameRequest(k, task[t])
          BY <1>0 DEF Coroutine, SameRequest
        <4>3. Waits(k, mounted[n])
          BY <1>0 DEF Coroutine, Waits
        <4> QED BY <4>1, <4>2, <4>3
      <3>3. Turn(t, k) /\ UNCHANGED <<lockVars, inFlight>>
        BY <2>2, <2>4 DEF Turn
      <3> HIDE DEF k
      <3>4. Replaces(t, k)
        BY <2>1, <2>2, <2>4, <3>2, <3>3 DEF Replaces
      <3> QED BY <3>2, <3>3, <3>4
    <2> QED BY <2>3, <2>4
  <1>6. CASE Deactivate(t)
    <2>1. /\ n \in Namespace /\ store[n] # None
          /\ task[t].op = "deactivate" /\ task[t].pc = "entering" /\ HasLock(t)
      BY <1>6, <1>n DEF Deactivate, Entering
    <2>2. PICK s \in store[n].loaded_scopes, force \in BOOLEAN :
            LET rec == RemoveScope(store[n], s) IN
            /\ MayUnload(n, force)
            /\ \/ Return(t) /\ UNCHANGED <<cached, previous, lockOf, transportVars, boot>>
               \/ /\ mounted[n] # None
                  /\ Disconnect(t, n, [task[t] EXCEPT !.rec = rec, !.force = force])
                  /\ UNCHANGED <<fileVars, lockVars, inFlight, boot>>
      BY <1>6 DEF Deactivate
    <2>3. CASE Return(t) /\ UNCHANGED <<cached, previous, lockOf, transportVars, boot>>
      BY <2>1, <2>3, <1>r DEF MayReturn
    <2>4. CASE /\ mounted[n] # None
               /\ Disconnect(t, n, [task[t] EXCEPT !.rec = RemoveScope(store[n], s),
                                                   !.force = force])
               /\ UNCHANGED <<fileVars, lockVars, inFlight, boot>>
      <3> DEFINE next == [task[t] EXCEPT !.rec = RemoveScope(store[n], s), !.force = force]
      <3>1. RemoveScope(store[n], s) \in ToolsetRecord
        BY <2>1, RemoveScopeSound DEF IInv, FileInv, Sound
      <3>2. next \in Coroutine /\ SameRequest(next, task[t]) /\ next.force = force
        BY <1>0, <3>1 DEF Coroutine, SameRequest
      <3> HIDE DEF next
      <3>3. PICK k \in Coroutine :
              /\ Turn(t, k) /\ SameRequest(k, next) /\ Waits(k, mounted[n])
              /\ k.force = next.force
              /\ mounted' = [mounted EXCEPT ![n] = None]
              /\ runtime' = Closing(runtime, mounted[n], t)
        BY <2>1, <2>4, <3>2, <1>m, DisconnectShape DEF next
      <3>4. Unmounts(t, k)
        BY <2>1, <2>2, <2>4, <3>2, <3>3 DEF Unmounts, SameRequest, MayUnload
      <3> QED BY <3>3, <3>4
    <2> QED BY <2>2, <2>3, <2>4
  <1>7. CASE HealthProbe(t)
    <2>1. /\ n \in Namespace /\ store[n] # None /\ Live(n) /\ mounted[n] # None
          /\ task[t].op = "health" /\ task[t].pc = "entering" /\ HasLock(t)
      BY <1>7, <1>n DEF HealthProbe, Entering, Live
    <2>2. mounted[n] \in Runtime /\ store[n].schema_hash \in Inventory \cup {None}
      BY <2>1, <1>m DEF IInv, FileInv, Sound, ToolsetRecord
    <2> DEFINE k == [task[t] EXCEPT !.pc = "probing", !.rt = mounted[n],
                                    !.old = store[n].schema_hash]
    <2>3. /\ k \in Coroutine /\ SameRequest(k, task[t]) /\ k.pc = "probing"
          /\ k.rt = mounted[n] /\ k.sig = task[t].sig
      BY <1>0, <2>2 DEF Coroutine, SameRequest
    <2>4. /\ Turn(t, k) /\ runtime' = Enqueued(mounted[n], t)
          /\ UNCHANGED <<lockVars, mounted, inFlight>>
      BY <1>7 DEF HealthProbe, Turn
    <2> HIDE DEF k
    <2>5. Queues(t, k)
      BY <2>1, <2>3, <2>4 DEF Queues
    <2> QED BY <2>3, <2>4, <2>5
  <1>8. CASE HealthFailed(t)
    <2>1. n \in Namespace /\ task[t].pc = "probing" /\ Broken(t) /\ task[t].op = "health"
      BY <1>0, <1>8, <1>n DEF HealthFailed, TaskOK
    <2>2. CASE Return(t) /\ UNCHANGED <<cached, previous, lockOf, transportVars, boot>>
      BY <2>1, <2>2, <1>r DEF MayReturn
    <2>3. CASE /\ mounted[n] # None
               /\ Disconnect(t, n, task[t])
               /\ UNCHANGED <<fileVars, lockVars, inFlight, boot>>
      <3>1. PICK k \in Coroutine :
              /\ Turn(t, k) /\ SameRequest(k, task[t]) /\ Waits(k, mounted[n])
              /\ mounted' = [mounted EXCEPT ![n] = None]
              /\ runtime' = Closing(runtime, mounted[n], t)
        BY <1>0, <2>1, <2>3, <1>m, DisconnectShape
      <3>2. Unmounts(t, k)
        BY <2>1, <2>3, <3>1 DEF Unmounts
      <3> QED BY <3>1, <3>2
    <2> QED BY <1>8, <2>2, <2>3 DEF HealthFailed
  <1> QED BY <1>1, <1>2, <1>3, <1>4, <1>5, <1>6, <1>7, <1>8 DEF Section

(* A tool call is queued, ends its wait, or is counted out.                 *)
LEMMA CallShape ==
  ASSUME IInv, PlaceInv, NEW t \in Task, Call(t)
  PROVE  \E k \in Coroutine :
           /\ Turn(t, k)
           /\ Queues(t, k) \/ Finishes(t, k) \/ Unmounts(t, k) \/ CountsOut(t, k)
  <1> DEFINE n == task[t].ns
  <1> USE DEF n
  <1>0. task[t] \in Coroutine /\ TaskOK(task[t]) /\ PlaceOK(task[t])
    BY DEF IInv, TaskInv, PlaceInv
  <1>n. ASSUME task[t].pc \notin {"idle", "gone"} PROVE n \in Namespace
    BY <1>0, <1>n DEF TaskOK
  <1>f. ASSUME Finishing(t), UNCHANGED transportVars, task[t].op = "call",
               \/ task[t].pc = "calling" /\ (Answered(t) \/ Broken(t))
               \/ Closed(t) \/ CloseRaised(t)
        PROVE  \E k \in Coroutine : Turn(t, k) /\ Finishes(t, k)
    <2> DEFINE k == [task[t] EXCEPT !.pc = "finishing", !.rt = None, !.sig = None]
    <2>1. /\ k \in Coroutine /\ SameRequest(k, task[t])
          /\ k.pc = "finishing" /\ k.rt = None /\ k.sig = None
      BY <1>0 DEF Coroutine, SameRequest
    <2>2. Turn(t, k) /\ Acquire(t, task[t].ns)
      BY <1>f DEF Finishing, Turn
    <2> HIDE DEF k
    <2>3. Finishes(t, k)
      BY <1>f, <2>1, <2>2 DEF Finishes
    <2> QED BY <2>1, <2>2, <2>3
  <1>1. CASE CallSend(t)
    <2>1. /\ n \in Namespace /\ Live(n) /\ mounted[n] # None
          /\ task[t].tool \in runtime[mounted[n]].tools
          /\ task[t].op = "call" /\ task[t].pc = "entering" /\ HasLock(t)
      BY <1>1, <1>n DEF CallSend, Entering, Resolves, Live
    <2>2. mounted[n] \in Runtime
      BY <2>1 DEF IInv, TransportInv
    <2> DEFINE k == [task[t] EXCEPT !.pc = "calling", !.rt = mounted[n]]
    <2>3. /\ k \in Coroutine /\ SameRequest(k, task[t]) /\ k.pc = "calling"
          /\ k.rt = mounted[n] /\ k.sig = task[t].sig
      BY <1>0, <2>2 DEF Coroutine, SameRequest
    <2>4. /\ Turn(t, k) /\ runtime' = Enqueued(mounted[n], t)
          /\ inFlight' = [inFlight EXCEPT ![n] = @ + 1]
          /\ Release(t) /\ UNCHANGED <<lockOf, mounted>>
      BY <1>1 DEF CallSend, Turn
    <2> HIDE DEF k
    <2>5. Queues(t, k)
      BY <2>1, <2>3, <2>4 DEF Queues, SameRequest
    <2> QED BY <2>3, <2>4, <2>5
  <1>2. CASE CallAnswered(t)
    <2>1. task[t].op = "call"
      BY <1>0, <1>2 DEF CallAnswered, TaskOK
    <2> QED BY <1>2, <2>1, <1>f DEF CallAnswered
  <1>3. CASE CallFailed(t)
    <2>1. n \in Namespace /\ task[t].op = "call" /\ task[t].pc = "calling" /\ Broken(t)
      BY <1>0, <1>3, <1>n DEF CallFailed, TaskOK
    <2>2. CASE Finishing(t) /\ UNCHANGED <<cached, previous, transportVars, boot>>
      BY <2>1, <2>2, <1>f
    <2>3. CASE /\ mounted[n] # None
               /\ Disconnect(t, n, task[t])
               /\ UNCHANGED <<fileVars, lockVars, inFlight, boot>>
      <3>1. mounted[n] \in Runtime
        BY <2>1, <2>3 DEF IInv, TransportInv
      <3>2. PICK k \in Coroutine :
              /\ Turn(t, k) /\ SameRequest(k, task[t]) /\ Waits(k, mounted[n])
              /\ mounted' = [mounted EXCEPT ![n] = None]
              /\ runtime' = Closing(runtime, mounted[n], t)
        BY <1>0, <2>1, <2>3, <3>1, DisconnectShape
      <3>3. Unmounts(t, k)
        BY <2>1, <2>3, <3>2 DEF Unmounts
      <3> QED BY <3>2, <3>3
    <2> QED BY <1>3, <2>2, <2>3 DEF CallFailed
  <1>4. CASE CallClosed(t)
    BY <1>4, <1>f DEF CallClosed
  <1>5. CASE CallFinish(t)
    <2>1. Turn(t, Idle) /\ CountsOut(t, Idle)
      BY <1>5 DEF CallFinish, Return, Turn, CountsOut
    <2> QED BY <2>1, IdleState
  <1> QED BY <1>1, <1>2, <1>3, <1>4, <1>5 DEF Call

(* A wait runs out.                                                         *)
LEMMA TimeOutShape ==
  ASSUME IInv, NEW t \in Task, TimeOut(t)
  PROVE  \E k \in Coroutine : Turn(t, k) /\ Expires(t, k)
  <1> DEFINE k == [task[t] EXCEPT !.sig = "timeout"]
  <1>1. k \in Coroutine /\ Signalled(k, task[t], "timeout")
    BY SetField DEF IInv, TaskInv
  <1>2. Turn(t, k) /\ UNCHANGED <<lockVars, mounted, inFlight>>
    BY DEF TimeOut, Turn
  <1> HIDE DEF k
  <1>3. Expires(t, k)
    BY <1>1, <1>2 DEF TimeOut, Expires
  <1> QED BY <1>1, <1>2, <1>3

(* An actor answers a command, or ends.                                     *)
LEMMA ServeShape ==
  ASSUME IInv, NEW r \in Runtime, Serve(r)
  PROVE  \E t \in Task, k \in Coroutine : Turn(t, k) /\ Answers(r, t, k)
  <1> DEFINE t == Head(runtime[r].queue)
  <1>1. /\ runtime[r].queue # <<>> /\ runtime[r].state \in {"up", "closing"}
        /\ UNCHANGED <<lockVars, mounted, inFlight>>
    BY DEF Serve
  <1>2. t \in Task
    BY <1>1, TailQueue DEF IInv, TransportInv, RuntimeState
  <1>3. task[t] \in Coroutine
    BY <1>2 DEF IInv, TaskInv
  <1>4. PICK sig \in {"ok", "error"}, k \in Coroutine :
          /\ Turn(t, k) /\ Signalled(k, task[t], sig)
          /\ \/ /\ task[t].pc = "closing" /\ sig = "ok"
                /\ runtime' = [runtime EXCEPT ![r] = Down]
             \/ /\ task[t].pc \in {"calling", "probing"}
                /\ runtime' = [runtime EXCEPT ![r].queue = Tail(@)]
    <2>1. CASE /\ task[t].pc = "closing"
               /\ runtime' = [runtime EXCEPT ![r] = Down]
               /\ task' = [task EXCEPT ![t].sig = "ok"]
      BY <1>3, <2>1, SetField DEF Turn
    <2>2. ASSUME /\ task[t].pc \in {"calling", "probing"}
                 /\ runtime' = [runtime EXCEPT ![r].queue = Tail(@)],
                 NEW sig \in {"ok", "error"}, task' = [task EXCEPT ![t].sig = sig]
          PROVE  /\ Turn(t, [task[t] EXCEPT !.sig = sig])
                 /\ [task[t] EXCEPT !.sig = sig] \in Coroutine
                 /\ Signalled([task[t] EXCEPT !.sig = sig], task[t], sig)
      BY <1>3, <2>2, SetField DEF Turn
    <2>3. ASSUME task[t].pc = "probing", NEW i \in Inventory,
                 task' = [task EXCEPT ![t].sig = "ok", ![t].new = i]
          PROVE  /\ Turn(t, [task[t] EXCEPT !.sig = "ok", !.new = i])
                 /\ [task[t] EXCEPT !.sig = "ok", !.new = i] \in Coroutine
                 /\ Signalled([task[t] EXCEPT !.sig = "ok", !.new = i], task[t], "ok")
      <3>1. task' = [task EXCEPT ![t] = [task[t] EXCEPT !.sig = "ok", !.new = i]]
        BY <1>2, <2>3 DEF IInv, TaskInv
      <3> QED BY <1>3, <2>3, <3>1, SetField DEF Turn
    <2> QED BY <2>1, <2>2, <2>3 DEF Serve
  <1>6. Answers(r, t, k)
    BY <1>1, <1>4 DEF Answers
  <1> QED BY <1>2, <1>4, <1>6

LEMMA EndShape ==
  ASSUME IInv, NEW r \in Runtime, runtime[r].state # "down", EndActor(r)
  PROVE  Ends(r)
  <1>1. runtime[r].queue \in Seq(Task)
    BY DEF IInv, TransportInv, RuntimeState
  <1>2. ASSUME NEW t \in Task
        PROVE  \/ task'[t] = task[t]
               \/ /\ t \in Members(runtime[r].queue)
                  /\ Signalled(task'[t], task[t], "error")
                  /\ task[t].sig = None
    <2>1. task[t] \in Coroutine
      BY DEF IInv, TaskInv
    <2>2. \/ task'[t] = task[t]
          \/ /\ task'[t] = [task[t] EXCEPT !.sig = "error"]
             /\ task[t].sig = None
             /\ \E first \in {1, 2} : \E i \in first .. Len(runtime[r].queue) : runtime[r].queue[i] = t
      BY DEF EndActor
    <2>3. Len(runtime[r].queue) \in Nat
      BY <1>1, LenProperties
    <2>4. (\E first \in {1, 2} : \E i \in first .. Len(runtime[r].queue) : runtime[r].queue[i] = t)
            => t \in Members(runtime[r].queue)
      BY <2>3 DEF Members
    <2> QED BY <2>1, <2>2, <2>4, SetField
  <1> QED BY <1>2 DEF Ends, EndActor

(* Every step of the program moves runtimes and locks in one of these ways. *)
LEMMA StepShapes ==
  ASSUME IInv, PlaceInv, Next
  PROVE  \/ \E t \in Task, k \in Coroutine : Turn(t, k) /\ Shape(t, k)
         \/ \E r \in Runtime, t \in Task, k \in Coroutine : Turn(t, k) /\ Answers(r, t, k)
         \/ \E r \in Runtime : Ends(r)
         \/ ProcessGone
  <1>1. ASSUME NEW r \in Runtime, Serve(r) \/ Unwind(r) \/ Die(r)
        PROVE  \/ \E t \in Task, k \in Coroutine : Turn(t, k) /\ Answers(r, t, k)
               \/ Ends(r)
    BY <1>1, ServeShape, EndShape DEF Unwind, Die
  <1>2. ASSUME NEW t \in Task, Request(t) \/ BootRestore(t) \/ Section(t) \/ Call(t) \/ TimeOut(t)
        PROVE  \E k \in Coroutine : Turn(t, k) /\ Shape(t, k)
    BY <1>2, BeginShape, SectionShape, CallShape, TimeOutShape DEF Shape
  <1>3. ASSUME Restart \/ \E t \in Task : Crash(t)
        PROVE  ProcessGone
    BY <1>3 DEF Restart, Crash, InstallCut, ForgetCut, FailureCut, Reboot
  <1> QED BY <1>1, <1>2, <1>3 DEF Next

-----------------------------------------------------------------------------
(* A command in an actor's queue is that of a task that waits for this      *)
(* actor, once, and the tool it calls is one the actor's server has; or its *)
(* task has been cancelled and waits for nothing.                           *)
QueuedAt(k, r, tools) ==
  \/ k.pc = "gone"
  \/ /\ k.rt = r
     /\ k.pc \in {"calling", "probing", "closing"}
     /\ k.sig \in {None, "timeout", "cancelled"}
     /\ k.pc = "calling" => k.tool \in tools

QueueInv ==
  \A r \in Runtime :
    /\ Distinct(runtime[r].queue)
    /\ \A t \in Members(runtime[r].queue) : QueuedAt(task[t], r, runtime[r].tools)

Unqueued(t) == \A r \in Runtime : t \notin Members(runtime[r].queue)

LEMMA TurnIs ==
  ASSUME IInv, NEW t \in Task, NEW k, Turn(t, k)
  PROVE  task'[t] = k /\ \A u \in Task : u # t => task'[u] = task[u]
  BY DEF IInv, TaskInv, Turn

(* An actor changes nothing of a request but what its future brought.       *)
LEMMA AnswerKeeps ==
  ASSUME IInv, NEW r \in Runtime, NEW t \in Task, NEW k, Turn(t, k), Answers(r, t, k)
  PROVE  /\ \A u \in Task : /\ task'[u].pc = task[u].pc /\ task'[u].op = task[u].op
                            /\ task'[u].ns = task[u].ns /\ task'[u].force = task[u].force
                            /\ task'[u].rt = task[u].rt
         /\ UNCHANGED <<lockVars, mounted, inFlight>>
  <1>1. /\ k.pc = task[t].pc /\ k.op = task[t].op /\ k.ns = task[t].ns
        /\ k.force = task[t].force /\ k.rt = task[t].rt
    BY DEF Answers, Signalled, SameRequest
  <1>2. UNCHANGED <<lockVars, mounted, inFlight>>
    BY DEF Answers
  <1> QED BY <1>1, <1>2, TurnIs

LEMMA EndKeeps ==
  ASSUME NEW r \in Runtime, Ends(r)
  PROVE  /\ \A u \in Task : /\ task'[u].pc = task[u].pc /\ task'[u].op = task[u].op
                            /\ task'[u].ns = task[u].ns /\ task'[u].force = task[u].force
                            /\ task'[u].rt = task[u].rt
         /\ UNCHANGED <<lockVars, mounted, inFlight>>
  BY DEF Ends, Signalled, SameRequest

LEMMA QueueType ==
  ASSUME IInv, NEW r \in Runtime
  PROVE  runtime[r] \in RuntimeState /\ runtime[r].queue \in Seq(Task)
  BY DEF IInv, TransportInv, RuntimeState

(* A task that goes on, its wait over, is in no queue any more.             *)
LEMMA MovesUnqueued ==
  ASSUME IInv, QueueInv, NEW t \in Task,
         \/ task[t].pc \in {"idle", "entering", "opening", "finishing"}
         \/ MayReturn(t) \/ Answered(t) \/ Broken(t) \/ Closed(t) \/ CloseRaised(t)
  PROVE  Unqueued(t)
  <1> SUFFICES ASSUME NEW r \in Runtime, t \in Members(runtime[r].queue) PROVE FALSE
    BY DEF Unqueued
  <1>1. \/ task[t].pc = "gone" /\ task[t].sig = "cancelled"
        \/ /\ task[t].rt = r /\ task[t].pc \in {"calling", "probing", "closing"}
           /\ task[t].sig \notin {"ok", "error"}
    BY NoneIsNothing DEF QueueInv, QueuedAt, IInv, TaskInv, TaskOK
  <1>2. runtime[r] = Down
    BY <1>1 DEF MayReturn, Answered, Broken, Closed, CloseRaised
  <1> QED BY <1>2, EmptyQueue DEF Down

(* close() puts at most its own command at the end of the queue.            *)
LEMMA ClosingQueue ==
  ASSUME NEW rts \in [Runtime -> RuntimeState], NEW x \in Runtime, NEW t \in Task,
         NEW r \in Runtime
  PROVE  /\ Closing(rts, x, t)[r].tools = rts[r].tools
         /\ rts[r].state # "up" \/ r # x => Closing(rts, x, t)[r] = rts[r]
         /\ r = x /\ rts[r].state = "up" =>
              /\ Closing(rts, x, t)[r].queue = Append(rts[r].queue, t)
              /\ Closing(rts, x, t)[r].state = "closing"
  BY DEF Closing, RuntimeState

LEMMA EnqueuedQueue ==
  ASSUME IInv, NEW x \in Runtime, NEW t \in Task, NEW r \in Runtime
  PROVE  /\ Enqueued(x, t)[r].tools = runtime[r].tools
         /\ Enqueued(x, t)[r].state = runtime[r].state
         /\ r # x => Enqueued(x, t)[r] = runtime[r]
         /\ r = x => Enqueued(x, t)[r].queue = Append(runtime[r].queue, t)
  BY DEF IInv, TransportInv, Enqueued, RuntimeState

(* A new runtime is one nobody refers to; its queue is empty.               *)
LEMMA NewRuntimeIs ==
  ASSUME IInv, NEW r \in Runtime, NewRuntime(r), NEW i \in Inventory
  PROVE  /\ runtime[r] = Down
         /\ \A n \in Namespace : mounted[n] # r
         /\ \A t \in Task : task[t].rt # r
         /\ [runtime EXCEPT ![r] = Fresh(i)] \in [Runtime -> RuntimeState]
         /\ [runtime EXCEPT ![r] = Fresh(i)][r] = Fresh(i)
         /\ Fresh(i).queue = <<>> /\ Fresh(i).state = "up"
         /\ \A x \in Runtime : x # r => [runtime EXCEPT ![r] = Fresh(i)][x] = runtime[x]
  BY FreshType DEF IInv, TransportInv, NewRuntime, UnusedRuntime, Fresh

LEMMA DownIs == Down.state = "down" /\ Down.queue = <<>>
  BY DEF Down

(* t moves on while it is in no queue, and no queue but a new one changes.  *)
LEMMA QueueKept ==
  ASSUME IInv, QueueInv, NEW t \in Task, NEW k, Turn(t, k), Unqueued(t),
         \A r \in Runtime :
           \/ runtime'[r].queue = <<>>
           \/ runtime'[r].queue = runtime[r].queue /\ runtime'[r].tools = runtime[r].tools
  PROVE  QueueInv'
  <1> SUFFICES ASSUME NEW r \in Runtime
               PROVE  /\ Distinct(runtime'[r].queue)
                      /\ \A u \in Members(runtime'[r].queue) :
                           QueuedAt(task'[u], r, runtime'[r].tools)
    BY DEF QueueInv
  <1>1. CASE runtime'[r].queue = <<>>
    BY <1>1, EmptyQueue
  <1>2. CASE runtime'[r].queue = runtime[r].queue /\ runtime'[r].tools = runtime[r].tools
    <2>1. ASSUME NEW u \in Members(runtime[r].queue) PROVE u \in Task /\ task'[u] = task[u]
      BY <2>1, TurnIs, QueueType, MembersAreTasks DEF Unqueued
    <2> QED BY <1>2, <2>1 DEF QueueInv
  <1> QED BY <1>1, <1>2

(* t, in no queue, puts its command into the queue of x and waits for x.    *)
LEMMA QueueJoined ==
  ASSUME IInv, QueueInv, NEW t \in Task, NEW k, Turn(t, k), Unqueued(t),
         NEW x \in Runtime,
         \A r \in Runtime :
           IF r = x THEN /\ runtime'[r].queue = Append(runtime[r].queue, t)
                         /\ runtime'[r].tools = runtime[r].tools
           ELSE \/ runtime'[r].queue = <<>>
                \/ runtime'[r].queue = runtime[r].queue /\ runtime'[r].tools = runtime[r].tools,
         k.rt = x, k.pc \in {"calling", "probing", "closing"}, k.sig = None,
         k.pc = "calling" => k.tool \in runtime[x].tools
  PROVE  QueueInv'
  <1> SUFFICES ASSUME NEW r \in Runtime
               PROVE  /\ Distinct(runtime'[r].queue)
                      /\ \A u \in Members(runtime'[r].queue) :
                           QueuedAt(task'[u], r, runtime'[r].tools)
    BY DEF QueueInv
  <1>1. ASSUME NEW u \in Members(runtime[r].queue) PROVE u \in Task /\ task'[u] = task[u]
    BY <1>1, TurnIs, QueueType, MembersAreTasks DEF Unqueued
  <1>2. CASE r = x
    <2>1. runtime'[r].queue = Append(runtime[r].queue, t)
      BY <1>2
    <2>2. /\ Distinct(runtime'[r].queue)
          /\ Members(runtime'[r].queue) = Members(runtime[r].queue) \cup {t}
      BY <2>1, AppendQueue, QueueType DEF Unqueued, QueueInv
    <2>3. task'[t] = k
      BY TurnIs
    <2> QED BY <1>1, <1>2, <2>2, <2>3 DEF QueueInv, QueuedAt
  <1>3. CASE r # x /\ runtime'[r].queue = <<>>
    BY <1>3, EmptyQueue
  <1>4. CASE r # x /\ runtime'[r].queue = runtime[r].queue /\ runtime'[r].tools = runtime[r].tools
    BY <1>1, <1>4 DEF QueueInv
  <1> QED BY <1>2, <1>3, <1>4

(* A runtime is closed, maybe after another one was mounted: what is left   *)
(* of the queues, for a task that then waits for the closed one.            *)
LEMMA QueueClosing ==
  ASSUME IInv, QueueInv, NEW t \in Task, NEW k, Turn(t, k), Unqueued(t),
         NEW x \in Runtime, NEW rts \in [Runtime -> RuntimeState],
         rts[x] = runtime[x],
         \A r \in Runtime : rts[r] = runtime[r] \/ rts[r].queue = <<>>,
         runtime' = Closing(rts, x, t), Waits(k, x)
  PROVE  QueueInv'
  <1>1. CASE runtime[x].state = "up"
    <2>1. k.rt = x /\ k.pc = "closing" /\ k.sig = None
      BY <1>1 DEF Waits, CloseSignal
    <2>2. ASSUME NEW r \in Runtime
          PROVE  IF r = x THEN /\ runtime'[r].queue = Append(runtime[r].queue, t)
                               /\ runtime'[r].tools = runtime[r].tools
                 ELSE \/ runtime'[r].queue = <<>>
                      \/ /\ runtime'[r].queue = runtime[r].queue
                         /\ runtime'[r].tools = runtime[r].tools
      BY <1>1, ClosingQueue
    <2> QED BY <2>1, <2>2, QueueJoined
  <1>2. CASE runtime[x].state # "up"
    <2>1. runtime' = rts
      BY <1>2 DEF Closing
    <2> QED BY <2>1, QueueKept
  <1> QED BY <1>1, <1>2

LEMMA QueueTurn ==
  ASSUME IInv, PlaceInv, QueueInv, NEW t \in Task, NEW k \in Coroutine, Turn(t, k), Shape(t, k)
  PROVE  QueueInv'
  <1> DEFINE n == task[t].ns
  <1>0. task[t] \in Coroutine /\ TaskOK(task[t]) /\ PlaceOK(task[t])
    BY DEF IInv, TaskInv, PlaceInv
  <1>n. ASSUME task[t].pc \notin {"idle", "gone"} PROVE n \in Namespace
    BY <1>0, <1>n DEF TaskOK
  <1>m. ASSUME n \in Namespace, mounted[n] # None PROVE mounted[n] \in Runtime
    BY <1>m DEF IInv, TransportInv
  <1>1. CASE Begins(t, k) \/ Returns(t, k) \/ Opens(t, k) \/ Finishes(t, k) \/ CountsOut(t, k)
    <2>1. Unqueued(t)
      BY <1>1, MovesUnqueued DEF Begins, Returns, Opens, Finishes, CountsOut
    <2>2. runtime' = runtime
      BY <1>1 DEF Begins, Returns, Opens, Finishes, CountsOut, transportVars
    <2> QED BY <2>1, <2>2, QueueKept
  <1>2. CASE Mounts(t, k)
    <2>1. Unqueued(t)
      BY <1>2, MovesUnqueued DEF Mounts
    <2>2. PICK r \in Runtime, i \in Inventory :
            NewRuntime(r) /\ runtime' = [runtime EXCEPT ![r] = Fresh(i)]
      BY <1>2 DEF Mounts
    <2>3. \A x \in Runtime : runtime'[x] = runtime[x] \/ runtime'[x].queue = <<>>
      BY <2>2, NewRuntimeIs
    <2> QED BY <2>1, <2>3, QueueKept
  <1>3. CASE Replaces(t, k)
    <2>1. Unqueued(t) /\ n \in Namespace /\ mounted[n] # None /\ Waits(k, mounted[n])
      BY <1>3, <1>n, MovesUnqueued DEF Replaces
    <2>2. PICK r \in Runtime, i \in Inventory :
            /\ NewRuntime(r)
            /\ runtime' = Closing([runtime EXCEPT ![r] = Fresh(i)], mounted[n], t)
      BY <1>3 DEF Replaces
    <2> DEFINE rts == [runtime EXCEPT ![r] = Fresh(i)]
    <2>3. /\ rts \in [Runtime -> RuntimeState]
          /\ rts[mounted[n]] = runtime[mounted[n]]
          /\ \A x \in Runtime : rts[x] = runtime[x] \/ rts[x].queue = <<>>
      BY <2>1, <2>2, <1>m, NewRuntimeIs
    <2> HIDE DEF rts
    <2> QED BY <2>1, <2>2, <2>3, <1>m, QueueClosing DEF rts
  <1>4. CASE Unmounts(t, k)
    <2>1. /\ Unqueued(t) /\ n \in Namespace /\ mounted[n] # None /\ Waits(k, mounted[n])
          /\ runtime' = Closing(runtime, mounted[n], t)
      BY <1>4, <1>n, MovesUnqueued DEF Unmounts
    <2>2. runtime \in [Runtime -> RuntimeState]
      BY DEF IInv, TransportInv
    <2> QED BY <2>1, <2>2, <1>m, QueueClosing
  <1>5. CASE Queues(t, k)
    <2>1. /\ Unqueued(t) /\ n \in Namespace /\ mounted[n] # None
          /\ runtime' = Enqueued(mounted[n], t)
          /\ k.rt = mounted[n] /\ k.sig = None /\ k.pc \in {"calling", "probing"}
          /\ k.pc = "calling" => k.tool \in runtime[mounted[n]].tools
      BY <1>0, <1>5, <1>n, MovesUnqueued DEF Queues, Live, PlaceOK
    <2>2. ASSUME NEW r \in Runtime
          PROVE  IF r = mounted[n]
                 THEN /\ runtime'[r].queue = Append(runtime[r].queue, t)
                      /\ runtime'[r].tools = runtime[r].tools
                 ELSE runtime'[r] = runtime[r]
      BY <2>1, <1>m, EnqueuedQueue
    <2> QED BY <2>1, <2>2, <1>m, QueueJoined
  <1>6. CASE Expires(t, k)
    <2>1. /\ task[t].rt \in Runtime /\ Signalled(k, task[t], "timeout")
      BY <1>0, <1>6 DEF Expires, TaskOK
    <2>2. \A r \in Runtime : runtime'[r].queue = runtime[r].queue /\ runtime'[r].tools = runtime[r].tools
      BY <1>6, <2>1 DEF Expires, IInv, TransportInv, RuntimeState
    <2>3. \A u \in Task : \/ task'[u] = task[u]
                          \/ Signalled(task'[u], task[u], "timeout")
      BY <2>1, TurnIs
    <2>4. \A r \in Runtime : Members(runtime[r].queue) \subseteq Task
      BY QueueType, MembersAreTasks
    <2> QED BY <2>2, <2>3, <2>4 DEF QueueInv, QueuedAt, Signalled, SameRequest
  <1> QED BY <1>1, <1>2, <1>3, <1>4, <1>5, <1>6 DEF Shape

LEMMA QueueAnswers ==
  ASSUME IInv, QueueInv, NEW r \in Runtime, NEW t \in Task, NEW k, Turn(t, k), Answers(r, t, k)
  PROVE  QueueInv'
  <1>1. /\ t \in Members(runtime[r].queue) /\ Tail(runtime[r].queue) \in Seq(Task)
        /\ Distinct(Tail(runtime[r].queue))
        /\ Members(Tail(runtime[r].queue)) = Members(runtime[r].queue) \ {t}
    BY QueueType, TailQueue DEF Answers, QueueInv
  <1>2. \A x \in Runtime : x # r => runtime'[x] = runtime[x] /\ t \notin Members(runtime[x].queue)
    <2>1. \A x \in Runtime : x # r => t \notin Members(runtime[x].queue)
      BY <1>1 DEF Answers, QueueInv, QueuedAt
    <2> QED BY <2>1 DEF Answers, IInv, TransportInv
  <1>3. \/ runtime'[r].queue = <<>>
        \/ /\ runtime'[r].queue = Tail(runtime[r].queue)
           /\ runtime'[r].tools = runtime[r].tools
    BY DownIs DEF Answers, IInv, TransportInv, RuntimeState
  <1>4. ASSUME NEW x \in Runtime, NEW u \in Members(runtime[x].queue), u # t
        PROVE  task'[u] = task[u]
    BY <1>4, TurnIs, QueueType, MembersAreTasks
  <1>5. ASSUME NEW x \in Runtime
        PROVE  /\ Distinct(runtime'[x].queue)
               /\ \A u \in Members(runtime'[x].queue) :
                    QueuedAt(task'[u], x, runtime'[x].tools)
    <2>1. CASE x # r
      BY <1>2, <1>4, <2>1 DEF QueueInv
    <2>2. CASE x = r /\ runtime'[r].queue = <<>>
      BY <2>2, EmptyQueue
    <2>3. CASE x = r /\ runtime'[r].queue = Tail(runtime[r].queue)
                     /\ runtime'[r].tools = runtime[r].tools
      BY <1>1, <1>4, <2>3 DEF QueueInv
    <2> QED BY <1>3, <2>1, <2>2, <2>3
  <1> QED BY <1>5 DEF QueueInv

LEMMA QueueEnds ==
  ASSUME IInv, QueueInv, NEW r \in Runtime, Ends(r)
  PROVE  QueueInv'
  <1>1. runtime'[r].queue = <<>> /\ \A x \in Runtime : x # r => runtime'[x] = runtime[x]
    BY DownIs DEF Ends, IInv, TransportInv
  <1>2. ASSUME NEW x \in Runtime, x # r, NEW u \in Members(runtime[x].queue)
        PROVE  u \in Task /\ task'[u] = task[u]
    <2>1. u \in Task
      BY QueueType, MembersAreTasks
    <2>2. CASE task[u].pc = "gone"
      BY <2>1, <2>2, NoneIsNothing DEF Ends, IInv, TaskInv, TaskOK
    <2>3. CASE task[u].pc # "gone"
      BY <1>2, <2>1, <2>3 DEF Ends, QueueInv, QueuedAt
    <2> QED BY <2>1, <2>2, <2>3
  <1>3. ASSUME NEW x \in Runtime
        PROVE  /\ Distinct(runtime'[x].queue)
               /\ \A u \in Members(runtime'[x].queue) :
                    QueuedAt(task'[u], x, runtime'[x].tools)
    <2>1. CASE x # r
      BY <1>1, <1>2, <2>1 DEF QueueInv
    <2>2. CASE x = r
      BY <1>1, <2>2, EmptyQueue
    <2> QED BY <2>1, <2>2
  <1> QED BY <1>3 DEF QueueInv

LEMMA QueueStep ==
  ASSUME IInv, PlaceInv, QueueInv, Next
  PROVE  QueueInv'
  <1>1. CASE ProcessGone
    <2>1. \A r \in Runtime : runtime'[r].queue = <<>>
      BY <1>1, DownIs DEF ProcessGone
    <2> QED BY <2>1, EmptyQueue DEF QueueInv
  <1> QED BY <1>1, StepShapes, QueueTurn, QueueAnswers, QueueEnds

(* A coroutine's fields go on fitting its place.                            *)
LEMMA PlaceStep ==
  ASSUME IInv, PlaceInv, QueueInv, Next
  PROVE  PlaceInv'
  <1>1. ASSUME NEW t \in Task, NEW k \in Coroutine, Turn(t, k), Shape(t, k)
        PROVE  PlaceInv'
    <2>1. PlaceOK(task[t]) /\ TaskOK(task[t])
      BY DEF PlaceInv, IInv, TaskInv
    <2>2. PlaceOK(k)
      <3>1. CASE k = Idle
        BY <3>1, IdlePlaced
      <3>2. CASE Begins(t, k)
        BY <3>2, NoneIsNothing DEF Begins, PlaceOK
      <3>3. CASE Opens(t, k)
        BY <2>1, <3>3 DEF Opens, PlaceOK, SameRequest, SwapOp
      <3>4. CASE Replaces(t, k)
        BY <2>1, <3>4 DEF Replaces, Waits, PlaceOK, SameRequest
      <3>5. CASE Unmounts(t, k)
        BY <2>1, <3>5 DEF Unmounts, Waits, PlaceOK, SameRequest
      <3>6. CASE Queues(t, k)
        BY <2>1, <3>6 DEF Queues, PlaceOK, SameRequest
      <3>7. CASE Finishes(t, k)
        BY <2>1, <3>7, NoneIsNothing DEF Finishes, PlaceOK, SameRequest, Closed, CloseRaised
      <3>8. CASE Expires(t, k)
        BY <2>1, <3>8 DEF Expires, Signalled, PlaceOK, SameRequest
      <3> QED BY <1>1, <3>1, <3>2, <3>3, <3>4, <3>5, <3>6, <3>7, <3>8
              DEF Shape, Returns, Mounts, CountsOut
    <2> QED BY <1>1, <2>2, TurnIs DEF PlaceInv, PlaceOK
  <1>2. ASSUME NEW r \in Runtime, NEW t \in Task, NEW k \in Coroutine, Turn(t, k), Answers(r, t, k)
        PROVE  PlaceInv'
    <2>1. PlaceOK(k)
      BY <1>2 DEF Answers, Signalled, SameRequest, PlaceOK, PlaceInv
    <2> QED BY <1>2, <2>1, TurnIs DEF PlaceInv, PlaceOK
  <1>3. ASSUME NEW r \in Runtime, Ends(r)
        PROVE  PlaceInv'
    <2>1. ASSUME NEW t \in Task PROVE PlaceOK(task'[t])
      <3>1. task[t].sig = None => task[t].pc # "gone"
        BY NoneIsNothing DEF IInv, TaskInv, TaskOK
      <3> QED BY <1>3, <3>1 DEF Ends, QueueInv, QueuedAt, Signalled, SameRequest, PlaceOK, PlaceInv
    <2> QED BY <2>1 DEF PlaceInv, PlaceOK
  <1>4. CASE ProcessGone
    BY <1>4, IdlePlaced DEF ProcessGone, PlaceInv, PlaceOK
  <1> QED BY <1>1, <1>2, <1>3, <1>4, StepShapes

-----------------------------------------------------------------------------
(* Who owns a runtime: the namespace that has it mounted, or else the task  *)
(* that waits for its end.                                                  *)

MountedApart ==
  \A m, n \in Namespace : mounted[m] # None /\ mounted[m] = mounted[n] => m = n

ClosingUnmounted ==
  \A t \in Task, m \in Namespace : task[t].pc = "closing" => mounted[m] # task[t].rt

UsedAtHome ==
  \A t \in Task, m \in Namespace :
    task[t].pc \in {"calling", "probing"} /\ mounted[m] = task[t].rt => m = task[t].ns

DownIsDown == \A r \in Runtime : runtime[r].state = "down" => runtime[r] = Down

Owned(r) ==
  \/ \E n \in Namespace : mounted[n] = r
  \/ \E t \in Task : task[t].pc = "closing" /\ task[t].rt = r

AllOwned == \A r \in Runtime : runtime[r] # Down => Owned(r)

RaisedDown ==
  \A t \in Task : task[t].pc = "closing" /\ task[t].sig = "error" => runtime[task[t].rt] = Down

OwnInv ==
  MountedApart /\ ClosingUnmounted /\ UsedAtHome /\ DownIsDown /\ AllOwned /\ RaisedDown

(* t goes on and the runtimes stay as they are.                             *)
LEMMA OwnQuiet ==
  ASSUME IInv, OwnInv, NEW t \in Task, NEW k, Turn(t, k),
         k.pc \notin {"closing", "calling", "probing"},
         task[t].pc = "closing" => runtime[task[t].rt] = Down,
         UNCHANGED <<mounted, runtime>>
  PROVE  OwnInv'
  <1>1. task'[t] = k /\ \A u \in Task : u # t => task'[u] = task[u]
    BY TurnIs
  <1>2. MountedApart' /\ ClosingUnmounted' /\ UsedAtHome' /\ DownIsDown' /\ RaisedDown'
    BY <1>1 DEF OwnInv, MountedApart, ClosingUnmounted, UsedAtHome, DownIsDown, RaisedDown
  <1>3. AllOwned'
    BY <1>1 DEF OwnInv, AllOwned, Owned
  <1> QED BY <1>2, <1>3 DEF OwnInv

(* The caller of an actor cancels it, if it has not ended, and waits on.    *)
Aborts(r) == runtime' = [runtime EXCEPT ![r].state = IF @ = "down" THEN @ ELSE "aborting"]

LEMMA OwnAborts ==
  ASSUME IInv, OwnInv, NEW t \in Task, NEW k, Turn(t, k),
         task[t].pc \in {"calling", "probing", "closing"},
         k.pc = task[t].pc, k.rt = task[t].rt, k.ns = task[t].ns, k.sig # "error",
         Aborts(task[t].rt), mounted' = mounted
  PROVE  OwnInv'
  <1>t. task'[t] = k /\ \A u \in Task : u # t => task'[u] = task[u]
    BY TurnIs
  <1>u. \A u \in Task : task[u].pc \in {"closing", "probing", "calling"} => task[u].rt \in Runtime
    BY DEF IInv, TaskInv, TaskOK
  <1>1. task[t].rt \in Runtime
    BY <1>u
  <1>2. /\ \A x \in Runtime : x # task[t].rt => runtime'[x] = runtime[x]
        /\ runtime'[task[t].rt].state = "down" => runtime'[task[t].rt] = runtime[task[t].rt]
        /\ runtime[task[t].rt].state = "down" => runtime'[task[t].rt] = runtime[task[t].rt]
    BY <1>1 DEF Aborts, IInv, TransportInv, RuntimeState
  <1>3. MountedApart' /\ ClosingUnmounted' /\ UsedAtHome'
    BY <1>t DEF OwnInv, MountedApart, ClosingUnmounted, UsedAtHome
  <1>4. DownIsDown'
    BY <1>1, <1>2 DEF OwnInv, DownIsDown
  <1>5. RaisedDown'
    BY <1>t, <1>u, <1>1, <1>2, DownIs DEF OwnInv, RaisedDown
  <1>6. AllOwned'
    <2>1. ASSUME NEW x \in Runtime, runtime'[x] # Down PROVE Owned(x)'
      <3>1. runtime[x] # Down
        BY <1>1, <1>2, <2>1, DownIs
      <3> QED BY <1>t, <3>1 DEF OwnInv, AllOwned, Owned
    <2> QED BY <2>1 DEF AllOwned
  <1> QED BY <1>3, <1>4, <1>5, <1>6 DEF OwnInv

LEMMA OwnTurn ==
  ASSUME IInv, PlaceInv, OwnInv, NEW t \in Task, NEW k \in Coroutine, Turn(t, k), Shape(t, k)
  PROVE  OwnInv'
  <1> DEFINE n == task[t].ns
  <1>0. task[t] \in Coroutine /\ TaskOK(task[t]) /\ PlaceOK(task[t])
    BY DEF IInv, TaskInv, PlaceInv
  <1>t. task'[t] = k /\ \A u \in Task : u # t => task'[u] = task[u]
    BY TurnIs
  <1>n. ASSUME task[t].pc \notin {"idle", "gone"} PROVE n \in Namespace
    BY <1>0, <1>n DEF TaskOK
  <1>m. /\ mounted \in [Namespace -> Runtime \cup {None}]
        /\ runtime \in [Runtime -> RuntimeState]
        /\ None \notin Runtime
    BY NoneIsNothing DEF IInv, TransportInv
  <1>u. \A u \in Task : task[u].pc \in {"closing", "probing", "calling"} => task[u].rt \in Runtime
    BY DEF IInv, TaskInv, TaskOK
  <1>1. CASE Begins(t, k) \/ Returns(t, k) \/ Opens(t, k) \/ Finishes(t, k) \/ CountsOut(t, k)
    <2>1. /\ k.pc \notin {"closing", "calling", "probing"}
          /\ UNCHANGED <<mounted, runtime>>
      BY <1>1 DEF Begins, Returns, Opens, Finishes, CountsOut, transportVars, Idle
    <2>2. task[t].pc = "closing" => runtime[task[t].rt] = Down
      BY <1>1 DEF Begins, Returns, MayReturn, Opens, Finishes, CountsOut, Closed, CloseRaised,
         OwnInv, RaisedDown
    <2> QED BY <2>1, <2>2, OwnQuiet
  <1>2. CASE Mounts(t, k)
    <2>1. n \in Namespace /\ mounted[n] = None /\ task[t].pc = "opening" /\ k.pc = "idle"
      BY <1>2, <1>n DEF Mounts, Idle
    <2>2. PICK r \in Runtime, i \in Inventory :
            /\ NewRuntime(r)
            /\ mounted' = [mounted EXCEPT ![n] = r]
            /\ runtime' = [runtime EXCEPT ![r] = Fresh(i)]
      BY <1>2 DEF Mounts
    <2>3. /\ runtime[r] = Down /\ runtime'[r].state = "up"
          /\ \A m \in Namespace : mounted[m] # r
          /\ \A u \in Task : task[u].rt # r
          /\ \A x \in Runtime : x # r => runtime'[x] = runtime[x]
      BY <2>2, NewRuntimeIs
    <2>4. mounted'[n] = r /\ \A m \in Namespace : m # n => mounted'[m] = mounted[m]
      BY <1>m, <2>1, <2>2
    <2>5. MountedApart' /\ ClosingUnmounted' /\ UsedAtHome'
      BY <1>t, <2>1, <2>3, <2>4 DEF OwnInv, MountedApart, ClosingUnmounted, UsedAtHome
    <2>6. DownIsDown' /\ RaisedDown'
      BY <1>t, <1>u, <2>1, <2>3 DEF OwnInv, DownIsDown, RaisedDown
    <2>7. AllOwned'
      BY <1>t, <1>m, <2>1, <2>3, <2>4 DEF OwnInv, AllOwned, Owned
    <2> QED BY <2>5, <2>6, <2>7 DEF OwnInv
  <1>3. CASE Replaces(t, k)
    <2> DEFINE old == mounted[n]
    <2>1. /\ n \in Namespace /\ old \in Runtime /\ task[t].pc = "opening"
          /\ k.pc = "closing" /\ k.rt = old /\ k.sig = CloseSignal(old)
      BY <1>3, <1>n, <1>m DEF Replaces, Waits
    <2>2. PICK r \in Runtime, i \in Inventory :
            /\ NewRuntime(r)
            /\ mounted' = [mounted EXCEPT ![n] = r]
            /\ runtime' = Closing([runtime EXCEPT ![r] = Fresh(i)], old, t)
      BY <1>3 DEF Replaces
    <2> DEFINE rts == [runtime EXCEPT ![r] = Fresh(i)]
    <2>3. /\ runtime[r] = Down /\ rts[r].state = "up" /\ rts \in [Runtime -> RuntimeState]
          /\ \A m \in Namespace : mounted[m] # r
          /\ \A u \in Task : task[u].rt # r
          /\ \A x \in Runtime : x # r => rts[x] = runtime[x]
      BY <2>2, NewRuntimeIs
    <2> HIDE DEF rts
    <2>4. /\ \A x \in Runtime : x # r /\ x # old => runtime'[x] = runtime[x]
          /\ runtime'[r].state = "up"
          /\ runtime'[old].state = "down" => runtime'[old] = runtime[old]
          /\ runtime'[old] # Down => runtime[old] # Down
      <3>1. old # r /\ runtime' = Closing(rts, old, t)
        BY <2>1, <2>2, <2>3 DEF rts
      <3>2. \A x \in Runtime : x # old => Closing(rts, old, t)[x] = rts[x]
        BY <2>1, <2>3, ClosingQueue
      <3>3. \/ Closing(rts, old, t)[old] = rts[old]
            \/ rts[old].state = "up" /\ Closing(rts, old, t)[old].state = "closing"
        BY <2>1, <2>3, ClosingQueue
      <3> HIDE DEF old
      <3> QED BY <2>1, <2>3, <3>1, <3>2, <3>3, DownIs
    <2>5. mounted'[n] = r /\ \A m \in Namespace : m # n => mounted'[m] = mounted[m]
      BY <1>m, <2>1, <2>2
    <2>6. MountedApart' /\ UsedAtHome'
      BY <1>t, <1>m, <2>1, <2>3, <2>5 DEF OwnInv, MountedApart, UsedAtHome
    <2>7. ClosingUnmounted'
      BY <1>t, <1>m, <2>1, <2>3, <2>5 DEF OwnInv, MountedApart, ClosingUnmounted
    <2>8. DownIsDown'
      BY <2>3, <2>4 DEF OwnInv, DownIsDown
    <2>9. RaisedDown'
      <3>1. k.sig # "error"
        BY <2>1, NoneIsNothing DEF CloseSignal
      <3>2. ASSUME NEW u \in Task, u # t, task[u].pc = "closing" PROVE task[u].rt # old
        BY <2>1, <3>2 DEF OwnInv, ClosingUnmounted
      <3> QED BY <1>t, <1>u, <2>3, <2>4, <3>1, <3>2 DEF OwnInv, RaisedDown
    <2>10. AllOwned'
      <3>1. \A x \in Runtime : x = r => Owned(x)'
        BY <2>1, <2>5 DEF Owned
      <3>2. \A x \in Runtime : x = old => Owned(x)'
        BY <1>t, <2>1 DEF Owned
      <3>3. ASSUME NEW x \in Runtime, x # r, x # old, runtime'[x] # Down PROVE Owned(x)'
        <4>1. Owned(x)
          BY <2>4, <3>3 DEF OwnInv, AllOwned
        <4> QED BY <1>t, <2>1, <2>5, <3>3, <4>1 DEF Owned
      <3> QED BY <3>1, <3>2, <3>3 DEF AllOwned
    <2> QED BY <2>6, <2>7, <2>8, <2>9, <2>10 DEF OwnInv
  <1>4. CASE Unmounts(t, k)
    <2> DEFINE old == mounted[n]
    <2>1. /\ n \in Namespace /\ old \in Runtime /\ task[t].pc # "closing"
          /\ k.pc = "closing" /\ k.rt = old /\ k.sig = CloseSignal(old)
          /\ mounted' = [mounted EXCEPT ![n] = None]
          /\ runtime' = Closing(runtime, old, t)
      BY <1>4, <1>n, <1>m DEF Unmounts, Waits
    <2>2. /\ \A x \in Runtime : x # old => runtime'[x] = runtime[x]
          /\ runtime'[old].state = "down" => runtime'[old] = runtime[old]
      BY <1>m, <2>1, ClosingQueue
    <2>3. mounted'[n] = None /\ \A m \in Namespace : m # n => mounted'[m] = mounted[m]
      BY <1>m, <2>1
    <2>4. MountedApart' /\ UsedAtHome'
      BY <1>t, <1>m, <1>u, <2>1, <2>3 DEF OwnInv, MountedApart, UsedAtHome
    <2>5. ClosingUnmounted'
      BY <1>t, <1>m, <1>u, <2>1, <2>3 DEF OwnInv, MountedApart, ClosingUnmounted
    <2>6. DownIsDown'
      BY <2>2 DEF OwnInv, DownIsDown
    <2>7. RaisedDown'
      <3>1. k.sig # "error"
        BY <2>1, NoneIsNothing DEF CloseSignal
      <3>2. ASSUME NEW u \in Task, u # t, task[u].pc = "closing" PROVE task[u].rt # old
        BY <2>1, <3>2 DEF OwnInv, ClosingUnmounted
      <3> QED BY <1>t, <1>u, <2>2, <3>1, <3>2 DEF OwnInv, RaisedDown
    <2>8. AllOwned'
      <3>1. \A x \in Runtime : x = old => Owned(x)'
        BY <1>t, <2>1 DEF Owned
      <3>2. ASSUME NEW x \in Runtime, x # old, runtime'[x] # Down PROVE Owned(x)'
        <4>1. Owned(x)
          BY <2>2, <3>2 DEF OwnInv, AllOwned
        <4> QED BY <1>t, <2>1, <2>3, <3>2, <4>1 DEF Owned
      <3> QED BY <3>1, <3>2 DEF AllOwned
    <2> QED BY <2>4, <2>5, <2>6, <2>7, <2>8 DEF OwnInv
  <1>5. CASE Queues(t, k)
    <2>1. /\ n \in Namespace /\ mounted[n] \in Runtime /\ task[t].pc # "closing"
          /\ runtime[mounted[n]].state = "up"
          /\ k.pc \in {"calling", "probing"} /\ k.rt = mounted[n] /\ k.ns = n
          /\ mounted' = mounted
          /\ runtime' = Enqueued(mounted[n], t)
      BY <1>5, <1>n, <1>m DEF Queues, Live, SameRequest
    <2>2. /\ \A x \in Runtime : x # mounted[n] => runtime'[x] = runtime[x]
          /\ runtime'[mounted[n]].state = "up"
      BY <2>1, EnqueuedQueue
    <2>3. MountedApart' /\ ClosingUnmounted' /\ UsedAtHome'
      BY <1>t, <1>m, <2>1 DEF OwnInv, MountedApart, ClosingUnmounted, UsedAtHome
    <2>4. DownIsDown' /\ AllOwned'
      BY <1>t, <2>1, <2>2 DEF OwnInv, DownIsDown, AllOwned, Owned
    <2>5. RaisedDown'
      <3>1. ASSUME NEW u \in Task, task[u].pc = "closing" PROVE task[u].rt # mounted[n]
        BY <2>1, <3>1 DEF OwnInv, ClosingUnmounted
      <3> QED BY <1>t, <1>u, <2>1, <2>2, <3>1 DEF OwnInv, RaisedDown
    <2> QED BY <2>3, <2>4, <2>5 DEF OwnInv
  <1>6. CASE Expires(t, k)
    <2>1. /\ k.pc = task[t].pc /\ k.rt = task[t].rt /\ k.ns = task[t].ns /\ k.sig # "error"
          /\ Aborts(task[t].rt) /\ mounted' = mounted
      BY <1>6 DEF Expires, Signalled, SameRequest, Aborts
    <2> QED BY <1>6, <2>1, OwnAborts DEF Expires
  <1> QED BY <1>1, <1>2, <1>3, <1>4, <1>5, <1>6 DEF Shape

(* An answer, or an actor's end, changes neither what is mounted nor who    *)
(* waits for whom.                                                          *)
LEMMA OwnActor ==
  ASSUME IInv, OwnInv, NEW r \in Runtime, mounted' = mounted,
         \A u \in Task : /\ task'[u].pc = task[u].pc /\ task'[u].rt = task[u].rt
                         /\ task'[u].ns = task[u].ns,
         \A x \in Runtime : x # r => runtime'[x] = runtime[x],
         runtime'[r].state = "down" => runtime'[r] = Down,
         runtime[r].state # "down",
         \A u \in Task :
           task'[u].pc = "closing" /\ task'[u].sig = "error" =>
             task[u].sig = "error" \/ (task[u].rt = r /\ runtime'[r] = Down)
  PROVE  OwnInv'
  <1>1. MountedApart' /\ ClosingUnmounted' /\ UsedAtHome' /\ DownIsDown'
    BY DEF OwnInv, MountedApart, ClosingUnmounted, UsedAtHome, DownIsDown
  <1>2. AllOwned'
    <2>1. runtime[r] # Down
      BY DownIs
    <2> QED BY <2>1 DEF OwnInv, AllOwned, Owned
  <1>3. RaisedDown'
    <2>1. ASSUME NEW u \in Task, task[u].pc = "closing" PROVE task[u].rt \in Runtime
      BY <2>1 DEF IInv, TaskInv, TaskOK
    <2>2. runtime[r] # Down
      BY DownIs
    <2> QED BY <2>1, <2>2 DEF OwnInv, RaisedDown
  <1> QED BY <1>1, <1>2, <1>3 DEF OwnInv

LEMMA OwnStep ==
  ASSUME IInv, PlaceInv, QueueInv, OwnInv, Next
  PROVE  OwnInv'
  <1>1. ASSUME NEW r \in Runtime, NEW t \in Task, NEW k \in Coroutine, Turn(t, k), Answers(r, t, k)
        PROVE  OwnInv'
    <2>1. task'[t] = k /\ \A u \in Task : u # t => task'[u] = task[u]
      BY <1>1, TurnIs
    <2>2. /\ mounted' = mounted /\ runtime[r].state \in {"up", "closing"}
          /\ \A x \in Runtime : x # r => runtime'[x] = runtime[x]
          /\ runtime'[r].state = "down" => runtime'[r] = Down
      BY <1>1 DEF Answers, IInv, TransportInv, RuntimeState
    <2>3. \A u \in Task : /\ task'[u].pc = task[u].pc /\ task'[u].rt = task[u].rt
                          /\ task'[u].ns = task[u].ns
      BY <1>1, <2>1 DEF Answers, Signalled, SameRequest
    <2>4. k.pc = "closing" => k.sig = "ok"
      BY <1>1 DEF Answers, Signalled
    <2> QED BY <2>1, <2>2, <2>3, <2>4, OwnActor
  <1>2. ASSUME NEW r \in Runtime, Ends(r)
        PROVE  OwnInv'
    <2>1. /\ mounted' = mounted /\ runtime[r].state # "down" /\ runtime'[r] = Down
          /\ \A x \in Runtime : x # r => runtime'[x] = runtime[x]
      BY <1>2 DEF Ends, IInv, TransportInv
    <2>2. \A u \in Task : /\ task'[u].pc = task[u].pc /\ task'[u].rt = task[u].rt
                          /\ task'[u].ns = task[u].ns
      BY <1>2 DEF Ends, Signalled, SameRequest
    <2>3. ASSUME NEW u \in Task
          PROVE  task'[u].sig = task[u].sig \/ task[u].rt = r \/ task[u].pc = "gone"
      BY <1>2 DEF Ends, QueueInv, QueuedAt
    <2> QED BY <2>1, <2>2, <2>3, OwnActor
  <1>3. CASE ProcessGone
    <2>1. \A t \in Task : task'[t] = Idle
      BY <1>3 DEF ProcessGone
    <2>2. (\A n \in Namespace : mounted'[n] = None) /\ (\A r \in Runtime : runtime'[r] = Down)
      BY <1>3 DEF ProcessGone
    <2>3. Idle.pc = "idle"
      BY DEF Idle
    <2> QED BY <2>1, <2>2, <2>3
            DEF OwnInv, MountedApart, ClosingUnmounted, UsedAtHome, DownIsDown, AllOwned, RaisedDown
  <1> QED BY <1>1, <1>2, <1>3, StepShapes, OwnTurn

-----------------------------------------------------------------------------
(* The calls that are counted in and not yet out. *)

Counted(n) ==
  {t \in Task : /\ task[t].ns = n
                /\ task[t].op = "call"
                /\ task[t].pc \notin {"idle", "entering"}}

LEMMA CountedFinite ==
  ASSUME NEW n
  PROVE  IsFiniteSet(Counted(n)) /\ Cardinality(Counted(n)) \in Nat
  BY FS_Subset, FS_CardinalityType, TaskAssumption DEF Counted

(* How a step may count: nobody, one call in, one call out, or all of them  *)
(* forgotten with the process.                                              *)
CountsFollow(n) ==
  \/ Counted(n)' = Counted(n) /\ inFlight'[n] = inFlight[n]
  \/ \E t \in Task \ Counted(n) :
       Counted(n)' = Counted(n) \cup {t} /\ inFlight'[n] = inFlight[n] + 1
  \/ \E t \in Counted(n) :
       /\ Counted(n)' = Counted(n) \ {t}
       /\ inFlight'[n] = IF inFlight[n] = 0 THEN 0 ELSE inFlight[n] - 1
  \/ Counted(n)' = {} /\ inFlight'[n] = 0

LEMMA CountTurn ==
  ASSUME IInv, PlaceInv, NEW t \in Task, NEW k \in Coroutine, Turn(t, k), Shape(t, k),
         NEW m \in Namespace
  PROVE  CountsFollow(m)
  <1> DEFINE isIn(j) == j.op = "call" /\ j.pc \notin {"idle", "entering"}
  <1>x. PICK n : n = task[t].ns
    OBVIOUS
  <1> USE <1>x
  <1>0. task[t] \in Coroutine /\ TaskOK(task[t]) /\ PlaceOK(task[t])
    BY DEF IInv, TaskInv, PlaceInv
  <1>t. task'[t] = k /\ \A u \in Task : u # t => task'[u] = task[u]
    BY TurnIs
  <1>n. ASSUME task[t].pc \notin {"idle", "gone"} PROVE n \in Namespace
    BY <1>0, <1>n DEF TaskOK
  <1>f. inFlight \in [Namespace -> Nat]
    BY DEF IInv, TransportInv
  <1>k. ASSUME UNCHANGED inFlight, isIn(k) <=> isIn(task[t]), isIn(k) => k.ns = n
        PROVE  CountsFollow(m)
    <2>1. Counted(m)' = Counted(m)
      BY <1>t, <1>k DEF Counted
    <2> QED BY <1>k, <2>1 DEF CountsFollow
  <1>o. ASSUME m # n, isIn(k) => k.ns = n PROVE Counted(m)' = Counted(m)
    BY <1>t, <1>o DEF Counted
  <1>1. CASE \/ Begins(t, k) \/ Returns(t, k) \/ Opens(t, k) \/ Mounts(t, k) \/ Replaces(t, k)
             \/ Unmounts(t, k) \/ Finishes(t, k) \/ Expires(t, k)
    <2>1. UNCHANGED inFlight
      BY <1>1 DEF Begins, Returns, Opens, Mounts, Replaces, Unmounts, Finishes, Expires,
         transportVars
    <2>2. isIn(k) => isIn(task[t]) /\ k.ns = n
      BY <1>0, <1>1 DEF Begins, Returns, Opens, Mounts, Replaces, Unmounts, Finishes, Expires,
         Signalled, SameRequest, Idle, SwapOp, PlaceOK, Closed, CloseRaised
    <2>3. isIn(task[t]) => isIn(k)
      <3>1. CASE Returns(t, k)
        BY <1>0, <3>1 DEF Returns, MayReturn, PlaceOK, TaskOK
      <3>2. CASE Mounts(t, k)
        BY <1>0, <3>2 DEF Mounts, PlaceOK, SwapOp
      <3> QED BY <1>0, <1>1, <3>1, <3>2
              DEF Begins, Opens, Replaces, Unmounts, Finishes, Expires,
                  Signalled, SameRequest, Waits, PlaceOK, SwapOp
    <2> QED BY <2>1, <2>2, <2>3, <1>k
  <1>2. CASE Queues(t, k)
    <2>1. CASE UNCHANGED inFlight /\ task[t].op = "health"
      BY <1>2, <2>1, <1>k DEF Queues, SameRequest
    <2>2. CASE inFlight' = [inFlight EXCEPT ![n] = @ + 1] /\ task[t].op = "call" /\ k.pc = "calling"
      <3>1. n \in Namespace /\ ~isIn(task[t]) /\ isIn(k) /\ k.ns = n
        BY <1>2, <1>n, <2>2 DEF Queues, SameRequest
      <3>2. CASE m = n
        <4>1. Counted(n)' = Counted(n) \cup {t} /\ t \in Task \ Counted(n)
          BY <1>t, <3>1 DEF Counted
        <4>2. inFlight'[n] = inFlight[n] + 1
          BY <1>f, <2>2, <3>1
        <4> QED BY <3>2, <4>1, <4>2 DEF CountsFollow
      <3>3. CASE m # n
        BY <1>f, <1>o, <2>2, <3>1, <3>3 DEF CountsFollow
      <3> QED BY <3>2, <3>3
    <2> QED BY <1>2, <2>1, <2>2 DEF Queues
  <1>3. CASE CountsOut(t, k)
    <2>1. n \in Namespace /\ isIn(task[t]) /\ ~isIn(k)
      BY <1>0, <1>3, <1>n DEF CountsOut, PlaceOK, Idle
    <2>2. inFlight' = [inFlight EXCEPT ![n] = IF @ = 0 THEN 0 ELSE @ - 1]
      BY <1>3 DEF CountsOut
    <2>3. CASE m = n
      <3>1. t \in Counted(n) /\ t \notin Counted(n)'
        BY <1>t, <2>1 DEF Counted
      <3>2. \A u \in Task : u # t => (u \in Counted(n)' <=> u \in Counted(n))
        BY <1>t DEF Counted
      <3>3. Counted(n)' = Counted(n) \ {t}
        <4>1. Counted(n) \subseteq Task /\ Counted(n)' \subseteq Task
          BY DEF Counted
        <4> QED BY <3>1, <3>2, <4>1
      <3>4. inFlight'[n] = IF inFlight[n] = 0 THEN 0 ELSE inFlight[n] - 1
        BY <1>f, <2>1, <2>2
      <3> QED BY <2>3, <3>1, <3>3, <3>4 DEF CountsFollow
    <2>4. CASE m # n
      BY <1>f, <1>o, <2>1, <2>2, <2>4 DEF CountsFollow
    <2> QED BY <2>3, <2>4
  <1> QED BY <1>1, <1>2, <1>3 DEF Shape

LEMMA CountMoves ==
  ASSUME IInv, PlaceInv, Next, NEW n \in Namespace
  PROVE  CountsFollow(n)
  <1>1. ASSUME UNCHANGED inFlight,
               \A u \in Task : /\ task'[u].pc = task[u].pc /\ task'[u].op = task[u].op
                               /\ task'[u].ns = task[u].ns
        PROVE  CountsFollow(n)
    BY <1>1 DEF Counted, CountsFollow
  <1>2. ASSUME NEW r \in Runtime, NEW t \in Task, NEW k \in Coroutine, Turn(t, k), Answers(r, t, k)
        PROVE  CountsFollow(n)
    BY <1>1, <1>2, AnswerKeeps
  <1>3. ASSUME NEW r \in Runtime, Ends(r)
        PROVE  CountsFollow(n)
    BY <1>1, <1>3, EndKeeps
  <1>4. CASE ProcessGone
    <2>1. Counted(n)' = {} /\ inFlight'[n] = 0
      BY <1>4 DEF ProcessGone, Counted, Idle
    <2> QED BY <2>1 DEF CountsFollow
  <1> QED BY <1>2, <1>3, <1>4, StepShapes, CountTurn

(* A counter that is exact stays so.                                        *)
LEMMA CountStep ==
  ASSUME IInv, InFlightExact, \A n \in Namespace : CountsFollow(n)
  PROVE  InFlightExact'
  <1>1. ASSUME NEW n \in Namespace PROVE inFlight'[n] = Cardinality(Counted(n)')
    <2>1. inFlight[n] = Cardinality(Counted(n)) /\ inFlight[n] \in Nat
      BY CountedFinite DEF InFlightExact, Counted
    <2>2. CASE Counted(n)' = Counted(n) /\ inFlight'[n] = inFlight[n]
      BY <2>1, <2>2
    <2>3. ASSUME NEW t \in Task \ Counted(n), Counted(n)' = Counted(n) \cup {t},
                 inFlight'[n] = inFlight[n] + 1
          PROVE  inFlight'[n] = Cardinality(Counted(n)')
      <3>1. Cardinality(Counted(n)') = Cardinality(Counted(n)) + 1
        BY <2>3, CountedFinite, FS_AddElement
      <3> QED BY <2>1, <2>3, <3>1
    <2>4. ASSUME NEW t \in Counted(n), Counted(n)' = Counted(n) \ {t},
                 inFlight'[n] = IF inFlight[n] = 0 THEN 0 ELSE inFlight[n] - 1
          PROVE  inFlight'[n] = Cardinality(Counted(n)')
      <3>1. Cardinality(Counted(n)') = Cardinality(Counted(n)) - 1
        BY <2>4, CountedFinite, FS_RemoveElement
      <3>2. Cardinality(Counted(n)) # 0
        BY CountedFinite, FS_EmptySet
      <3> QED BY <2>1, <2>4, <3>1, <3>2
    <2>5. CASE Counted(n)' = {} /\ inFlight'[n] = 0
      <3>1. Cardinality(Counted(n)') = 0
        BY <2>5, FS_EmptySet
      <3> QED BY <2>5, <3>1
    <2> QED BY <2>2, <2>3, <2>4, <2>5 DEF CountsFollow
  <1> QED BY <1>1 DEF InFlightExact, Counted

-----------------------------------------------------------------------------
(* No unforced unload under a call. *)

UnloadsGently(k) ==
  /\ k.pc = "closing"
  /\ k.op = "unregister" \/ (k.op = "deactivate" /\ ~k.force)

(* A counter at zero says that no call is in flight.                        *)
Guarded == \A n \in Namespace : inFlight[n] = 0 => Counted(n) = {}

LEMMA ExactGuards == ASSUME InFlightExact PROVE Guarded
  BY CountedFinite, FS_EmptySet DEF InFlightExact, Counted, Guarded

LEMMA UnloadStep ==
  ASSUME IInv, PlaceInv, QueueInv, OwnInv, Guarded, SafeUnload, Next
  PROVE  SafeUnload'
  <1> DEFINE gentle(u, c) == UnloadsGently(task[u]) /\ task[c].pc = "calling" /\ task[c].rt = task[u].rt
  <1>s. \A u, c \in Task : ~gentle(u, c)
    BY DEF SafeUnload, UnloadsGently
  <1>p. ASSUME \A u, c \in Task : ~gentle(u, c)' PROVE SafeUnload'
    BY <1>p DEF SafeUnload, UnloadsGently
  <1>1. ASSUME \A u \in Task : /\ task'[u].pc = task[u].pc /\ task'[u].op = task[u].op
                               /\ task'[u].force = task[u].force /\ task'[u].rt = task[u].rt
        PROVE  SafeUnload'
    BY <1>1, <1>s, <1>p DEF UnloadsGently
  <1>2. ASSUME NEW r \in Runtime, NEW t \in Task, NEW k \in Coroutine, Turn(t, k), Answers(r, t, k)
        PROVE  SafeUnload'
    BY <1>1, <1>2, AnswerKeeps
  <1>3. ASSUME NEW r \in Runtime, Ends(r)
        PROVE  SafeUnload'
    BY <1>1, <1>3, EndKeeps
  <1>4. CASE ProcessGone
    BY <1>4, <1>p DEF ProcessGone, UnloadsGently, Idle
  <1>5. ASSUME NEW t \in Task, NEW k \in Coroutine, Turn(t, k), Shape(t, k)
        PROVE  SafeUnload'
    <2> DEFINE n == task[t].ns
    <2>0. TaskOK(task[t]) /\ PlaceOK(task[t])
      BY DEF IInv, TaskInv, PlaceInv
    <2>t. task'[t] = k /\ \A u \in Task : u # t => task'[u] = task[u]
      BY <1>5, TurnIs
    <2>n. ASSUME task[t].pc \notin {"idle", "gone"} PROVE n \in Namespace
      BY <2>0, <2>n DEF TaskOK
    <2>1. CASE k.pc \notin {"closing", "calling"}
      BY <2>t, <2>1, <1>s, <1>p DEF UnloadsGently
    <2>2. CASE Expires(t, k)
      BY <2>t, <2>2, <1>1 DEF Expires, Signalled, SameRequest
    <2>3. CASE Replaces(t, k)
      <3>1. k.pc # "calling" /\ ~UnloadsGently(k)
        BY <2>0, <2>3 DEF Replaces, Waits, SameRequest, PlaceOK, SwapOp, UnloadsGently
      <3> QED BY <2>t, <3>1, <1>s, <1>p DEF UnloadsGently
    <2>4. CASE Unmounts(t, k)
      <3>1. /\ n \in Namespace /\ mounted[n] # None /\ k.pc = "closing" /\ k.op = task[t].op
            /\ k.rt = mounted[n]
        BY <2>4, <2>n DEF Unmounts, Waits, SameRequest
      <3>2. CASE ~UnloadsGently(k)
        BY <2>t, <3>1, <3>2, <1>s, <1>p DEF UnloadsGently
      <3>3. CASE UnloadsGently(k)
        <4>1. inFlight[n] = 0
          BY <2>4, <3>1, <3>3 DEF Unmounts, UnloadsGently
        <4>2. Counted(n) = {}
          BY <3>1, <4>1 DEF Guarded
        <4>3. ASSUME NEW c \in Task, task[c].pc = "calling" PROVE task[c].rt # mounted[n]
          <5>1. task[c].op = "call"
            BY <4>3 DEF IInv, TaskInv, TaskOK
          <5>2. task[c].ns # n
            BY <4>2, <4>3, <5>1 DEF Counted
          <5> QED BY <3>1, <4>3, <5>2 DEF OwnInv, UsedAtHome
        <4> QED BY <2>t, <3>1, <4>3, <1>s, <1>p DEF UnloadsGently
      <3> QED BY <3>2, <3>3
    <2>5. CASE Queues(t, k)
      <3>1. n \in Namespace /\ k.rt = mounted[n] /\ k.pc \in {"calling", "probing"}
        BY <2>5, <2>n DEF Queues
      <3>2. \A u \in Task : task[u].pc = "closing" => task[u].rt # mounted[n]
        BY <3>1 DEF OwnInv, ClosingUnmounted
      <3> QED BY <2>t, <3>1, <3>2, <1>s, <1>p DEF UnloadsGently
    <2> QED BY <1>5, <2>1, <2>2, <2>3, <2>4, <2>5
            DEF Shape, Begins, Returns, Opens, Mounts, Finishes, CountsOut, Idle
  <1> QED BY <1>2, <1>3, <1>4, <1>5, StepShapes

-----------------------------------------------------------------------------
(* The inductive invariant of the runtimes, and what it says of them. *)

RuntimesInv == IInv /\ PlaceInv /\ QueueInv /\ OwnInv /\ InFlightExact /\ SafeUnload

LEMMA RuntimesInit == Init => RuntimesInv
  <1> SUFFICES ASSUME Init PROVE RuntimesInv
    OBVIOUS
  <1>1. \A t \in Task : task[t] = Idle
    BY DEF Init
  <1>2. /\ \A n \in Namespace : mounted[n] = None /\ inFlight[n] = 0
        /\ \A r \in Runtime : runtime[r] = Down
    BY DEF Init
  <1>3. PlaceInv
    BY <1>1, IdlePlaced DEF PlaceInv
  <1>4. QueueInv
    BY <1>2, DownIs, EmptyQueue DEF QueueInv
  <1>5. OwnInv
    BY <1>1, <1>2 DEF Idle, OwnInv, MountedApart, ClosingUnmounted, UsedAtHome, DownIsDown,
       AllOwned, RaisedDown
  <1>6. InFlightExact
    <2>1. \A n \in Namespace : Counted(n) = {}
      BY <1>1 DEF Idle, Counted
    <2> QED BY <1>2, <2>1, FS_EmptySet DEF InFlightExact, Counted
  <1>7. SafeUnload
    BY <1>1 DEF SafeUnload, Idle
  <1> QED BY <1>3, <1>4, <1>5, <1>6, <1>7, InitHolds DEF RuntimesInv

LEMMA RuntimesStep ==
  ASSUME RuntimesInv, [Next]_vars, IInv'
  PROVE  RuntimesInv'
  <1>1. CASE UNCHANGED vars
    BY <1>1 DEF vars, transportVars, RuntimesInv, PlaceInv, PlaceOK, QueueInv, OwnInv,
       MountedApart, ClosingUnmounted, UsedAtHome, DownIsDown, AllOwned, Owned, RaisedDown,
       InFlightExact, SafeUnload
  <1>2. CASE Next
    BY <1>2, PlaceStep, QueueStep, OwnStep, CountMoves, CountStep, ExactGuards, UnloadStep
       DEF RuntimesInv
  <1> QED BY <1>1, <1>2

(* Every runtime has one place (mounted, or in the hands of one coroutine),  *)
(* every queued command the coroutine that waits for it, and the counter the *)
(* calls it counts, over every step of the service and of the actors.        *)
THEOREM RuntimesInvariant == Spec => []RuntimesInv
  <1>1. RuntimesInv /\ IInv' /\ [Next]_vars => RuntimesInv'
    BY RuntimesStep
  <1> QED BY <1>1, RuntimesInit, Invariance, PTL DEF Spec

(* No coroutine bears the marks of a request that its client cancelled.     *)
Uncancelled == \A t \in Task : task[t].pc # "gone" /\ task[t].sig # "cancelled"

LEMMA UncancelledStep ==
  ASSUME IInv, PlaceInv, Uncancelled, Next
  PROVE  Uncancelled'
  <1>1. ASSUME NEW t \in Task, NEW k \in Coroutine, Turn(t, k), Shape(t, k)
        PROVE  Uncancelled'
    <2>1. task[t].pc # "gone" /\ task[t].sig # "cancelled"
      BY DEF Uncancelled
    <2>2. k.pc # "gone" /\ k.sig # "cancelled"
      <3>1. CASE k = Idle
        BY <3>1, NoneIsNothing DEF Idle
      <3>2. CASE Begins(t, k)
        BY <3>2, NoneIsNothing DEF Begins
      <3>3. CASE Opens(t, k) \/ Queues(t, k)
        BY <2>1, <3>3 DEF Opens, Queues
      <3>4. CASE Replaces(t, k) \/ Unmounts(t, k)
        BY <3>4, NoneIsNothing DEF Replaces, Unmounts, Waits, CloseSignal
      <3>5. CASE Finishes(t, k)
        BY <3>5, NoneIsNothing DEF Finishes
      <3>6. CASE Expires(t, k)
        BY <2>1, <3>6 DEF Expires, Signalled
      <3> QED BY <1>1, <3>1, <3>2, <3>3, <3>4, <3>5, <3>6 DEF Shape, Returns, Mounts, CountsOut
    <2> QED BY <1>1, <2>2, TurnIs DEF Uncancelled
  <1>2. ASSUME NEW r \in Runtime, NEW t \in Task, NEW k \in Coroutine, Turn(t, k), Answers(r, t, k)
        PROVE  Uncancelled'
    <2>1. k.pc # "gone" /\ k.sig # "cancelled"
      BY <1>2 DEF Answers, Signalled, Uncancelled
    <2> QED BY <1>2, <2>1, TurnIs DEF Uncancelled
  <1>3. ASSUME NEW r \in Runtime, Ends(r)
        PROVE  Uncancelled'
    BY <1>3 DEF Ends, Signalled, Uncancelled
  <1>4. CASE ProcessGone
    BY <1>4, NoneIsNothing DEF ProcessGone, Idle, Uncancelled
  <1> QED BY <1>1, <1>2, <1>3, <1>4, StepShapes

(* Every variable keeps its type: whatever the requests in progress, a      *)
(* record is written whole and a coroutine's locals fit its place.          *)
THEOREM TypeCorrect == Spec => []TypeOK
  <1>1. Init => Uncancelled
    BY NoneIsNothing DEF Init, Idle, Uncancelled
  <1>2. RuntimesInv /\ Uncancelled /\ [Next]_vars => Uncancelled'
    <2>1. ASSUME Uncancelled, UNCHANGED vars PROVE Uncancelled'
      BY <2>1 DEF vars, Uncancelled
    <2> QED BY <2>1, UncancelledStep DEF RuntimesInv
  <1>3. RuntimesInv /\ Uncancelled => TypeOK
    <2>1. ASSUME IInv, Uncancelled PROVE task \in [Task -> TaskState]
      <3>1. ASSUME NEW t \in Task PROVE task[t] \in TaskState
        <4>1. task[t] \in Coroutine /\ task[t].pc # "gone" /\ task[t].sig # "cancelled"
          BY <2>1 DEF IInv, TaskInv, Uncancelled
        <4> QED BY <4>1 DEF Coroutine, TaskState
      <3> QED BY <2>1, <3>1 DEF IInv, TaskInv
    <2> QED BY <2>1 DEF RuntimesInv, IInv, FileInv, LockInv, TransportInv, TypeOK
  <1> QED BY <1>1, <1>2, <1>3, RuntimesInvariant, PTL DEF Spec

(* The counter that guards deactivation counts exactly the calls in flight, *)
(* whatever order they are queued, answered, abandoned and failed in.       *)
THEOREM CounterIsExact == Spec => []InFlightExact
  <1>1. RuntimesInv => InFlightExact
    BY DEF RuntimesInv
  <1> QED BY <1>1, RuntimesInvariant, PTL

(* deactivate_toolsets without force, and unregister_toolsets, never close  *)
(* a runtime that a call still waits on.                                    *)
THEOREM UnloadsAreSafe == Spec => []SafeUnload
  <1>1. RuntimesInv => SafeUnload
    BY DEF RuntimesInv
  <1> QED BY <1>1, RuntimesInvariant, PTL

(* No downstream process is lost: whoever takes a runtime out of _runtimes  *)
(* waits for its end, and _runtimes never holds one twice.                  *)
THEOREM NoRuntimeLost == Spec => []RuntimesOwned
  <1>1. RuntimesInv => RuntimesOwned
    BY DEF RuntimesInv, OwnInv, AllOwned, Owned, RuntimesOwned
  <1> QED BY <1>1, RuntimesInvariant, PTL

(* A queued call names a tool of the runtime in whose queue it waits.       *)
THEOREM CallsAreRouted == Spec => []CallRouted
  <1>1. RuntimesInv => CallRouted
    <2> SUFFICES ASSUME RuntimesInv, NEW r \in Runtime, NEW i \in DOMAIN runtime[r].queue,
                        task[runtime[r].queue[i]].pc = "calling"
                 PROVE  task[runtime[r].queue[i]].tool \in runtime[r].tools
      BY DEF CallRouted
    <2>1. runtime[r].queue[i] \in Members(runtime[r].queue)
      BY QueueType, LenProperties DEF RuntimesInv, Members
    <2> QED BY <2>1 DEF RuntimesInv, QueueInv, QueuedAt
  <1> QED BY <1>1, RuntimesInvariant, PTL

-----------------------------------------------------------------------------
(* Who waits for a lock, and who is inside its section.  unregister_toolsets *)
(* drops the lock of a namespace while others wait for it: without it a      *)
(* namespace keeps one lock.                                                 *)

AtLock(k) ==
  \/ k.pc \in {"entering", "opening", "probing", "finishing"}
  \/ k.pc = "closing" /\ k.op # "call"

InSection(k) ==
  \/ k.pc \in {"opening", "probing"}
  \/ k.pc = "closing" /\ k.op # "call"

(* A task stands in one line, once, and whoever is inside is at its head.   *)
Line(l) == Distinct(lockq[l]) /\ \A t \in Members(lockq[l]) : AtLock(task[t])

LinesInv ==
  /\ \A l \in Lock : Line(l)
  /\ \A l, m \in Lock : \A t \in Members(lockq[l]) : t \in Members(lockq[m]) => l = m
  /\ \A t \in Task : InSection(task[t]) => HasLock(t)

(* The line is that of the lock its namespace maps to.                      *)
InOwnLine == \A l \in Lock : \A t \in Members(lockq[l]) : lockOf[task[t].ns] = l

SectionInv == LinesInv /\ InOwnLine

LEMMA HolderIsMember ==
  ASSUME IInv, NEW t \in Task, NEW l \in Lock, Holds(t, l)
  PROVE  t \in Members(lockq[l])
  BY TailQueue DEF IInv, LockInv, Holds

(* One task at most is the head of a queue, and it waits in no other.       *)
LEMMA HeldOnce ==
  ASSUME IInv, LinesInv, NEW t \in Task, NEW l \in Lock, Holds(t, l)
  PROVE  /\ AtLock(task[t])
         /\ \A m \in Lock : m # l => t \notin Members(lockq[m]) /\ ~Holds(t, m)
  <1>1. t \in Members(lockq[l])
    BY HolderIsMember
  <1>2. AtLock(task[t])
    BY <1>1 DEF LinesInv, Line
  <1>3. ASSUME NEW m \in Lock, m # l PROVE t \notin Members(lockq[m])
    BY <1>1, <1>3 DEF LinesInv
  <1> QED BY <1>2, <1>3, HolderIsMember

LEMMA Exclusion ==
  ASSUME IInv, SectionInv
  PROVE  MutualExclusion
  <1> SUFFICES ASSUME NEW t \in Task, NEW u \in Task, HasLock(t), HasLock(u),
                      task[t].ns = task[u].ns
               PROVE  t = u
    BY DEF MutualExclusion
  <1>1. PICK l \in Lock : Holds(t, l)
    BY DEF HasLock
  <1>2. PICK m \in Lock : Holds(u, m)
    BY DEF HasLock
  <1>3. l = m
    BY <1>1, <1>2, HolderIsMember DEF SectionInv, InOwnLine
  <1> QED BY <1>1, <1>2, <1>3 DEF Holds

(* The ways a task that moves may move in the lines.                        *)
Joins(t, k) ==
  /\ ~AtLock(task[t])
  /\ AtLock(k) /\ ~InSection(k)
  /\ k.ns \in Namespace
  /\ Acquire(t, k.ns)

Leaves(t, k) ==
  /\ HasLock(t)
  /\ ~AtLock(k)
  /\ Release(t)
  /\ task[t].op # "unregister" => UNCHANGED lockOf

Stays(t, k) ==
  /\ AtLock(task[t]) => AtLock(k) /\ k.ns = task[t].ns
  /\ InSection(k) => HasLock(t)
  /\ UNCHANGED lockVars

LineMove(t, k) == Joins(t, k) \/ Leaves(t, k) \/ Stays(t, k)

LEMMA LineMoves ==
  ASSUME IInv, PlaceInv, LinesInv, NEW t \in Task, NEW k \in Coroutine, Turn(t, k), Shape(t, k)
  PROVE  LineMove(t, k)
  <1>0. TaskOK(task[t]) /\ PlaceOK(task[t])
    BY DEF IInv, TaskInv, PlaceInv
  <1>n. ASSUME task[t].pc \notin {"idle", "gone"} PROVE task[t].ns \in Namespace
    BY <1>0, <1>n DEF TaskOK
  <1>h. ASSUME InSection(task[t]) PROVE HasLock(t)
    BY <1>h DEF LinesInv
  <1>1. CASE Begins(t, k)
    BY <1>1 DEF Begins, AtLock, InSection, LineMove, Joins
  <1>2. CASE Returns(t, k)
    <2>1. HasLock(t)
      BY <1>0, <1>2, <1>h DEF Returns, MayReturn, InSection, Closed, CloseRaised, PlaceOK
    <2> QED BY <1>2, <2>1 DEF Returns, Idle, AtLock, LineMove, Leaves
  <1>3. CASE Opens(t, k)
    BY <1>3 DEF Opens, SameRequest, AtLock, InSection, LineMove, Stays
  <1>4. CASE Mounts(t, k)
    <2>1. HasLock(t) /\ ~AtLock(k)
      BY <1>4, <1>h DEF Mounts, InSection, Idle, AtLock
    <2> QED BY <1>4, <2>1 DEF Mounts, LineMove, Leaves
  <1>5. CASE Replaces(t, k)
    <2>1. HasLock(t) /\ k.op # "call"
      BY <1>0, <1>5, <1>h DEF Replaces, InSection, SameRequest, PlaceOK, SwapOp
    <2> QED BY <1>5, <2>1 DEF Replaces, SameRequest, Waits, AtLock, LineMove, Stays
  <1>6. CASE Unmounts(t, k)
    <2>1. CASE task[t].op = "call"
      <3>1. ~AtLock(task[t]) /\ ~InSection(k)
        BY <1>6, <2>1 DEF Unmounts, Waits, SameRequest, AtLock, InSection
      <3> QED BY <1>6, <3>1 DEF Unmounts, LineMove, Stays
    <2>2. CASE task[t].op # "call"
      <3>1. HasLock(t) /\ AtLock(k)
        BY <1>6, <2>2, <1>h DEF Unmounts, Waits, SameRequest, AtLock, InSection
      <3> QED BY <1>6, <3>1 DEF Unmounts, SameRequest, LineMove, Stays
    <2> QED BY <2>1, <2>2
  <1>7. CASE Queues(t, k)
    BY <1>7 DEF Queues, SameRequest, AtLock, LineMove, Stays, Leaves
  <1>8. CASE Finishes(t, k)
    <2>1. /\ ~AtLock(task[t]) /\ AtLock(k) /\ ~InSection(k)
          /\ k.ns = task[t].ns /\ task[t].pc \notin {"idle", "gone"}
          /\ Acquire(t, task[t].ns)
      BY <1>8 DEF Finishes, SameRequest, AtLock, InSection, Closed, CloseRaised
    <2>2. k.ns \in Namespace /\ Acquire(t, k.ns)
      BY <1>n, <2>1
    <2> QED BY <2>1, <2>2 DEF LineMove, Joins
  <1>9. CASE CountsOut(t, k)
    BY <1>9 DEF CountsOut, Idle, AtLock, LineMove, Leaves
  <1>10. CASE Expires(t, k)
    <2>1. /\ k.pc = task[t].pc /\ k.op = task[t].op /\ k.ns = task[t].ns /\ UNCHANGED lockVars
      BY <1>10 DEF Expires, Signalled, SameRequest
    <2> QED BY <2>1, <1>h DEF AtLock, InSection, LineMove, Stays
  <1> QED BY <1>1, <1>2, <1>3, <1>4, <1>5, <1>6, <1>7, <1>8, <1>9, <1>10 DEF Shape

(* What a new task in a line does to it. *)
LEMMA JoinedLine ==
  ASSUME IInv, LinesInv, NEW t \in Task, NEW k, Joins(t, k)
  PROVE  \E l \in Lock :
           /\ lockq'[l] = Append(lockq[l], t)
           /\ \A m \in Lock : m # l => lockq'[m] = lockq[m]
           /\ Distinct(lockq'[l]) /\ Members(lockq'[l]) = Members(lockq[l]) \cup {t}
           /\ lockOf'[k.ns] = l
           /\ \A n \in Namespace : n # k.ns \/ lockOf[n] # None => lockOf'[n] = lockOf[n]
           /\ \A m \in Lock : t \notin Members(lockq[m])
  <1>f. lockOf \in [Namespace -> Lock \cup {None}] /\ lockq \in [Lock -> Seq(Task)]
    BY DEF IInv, LockInv
  <1>1. PICK l \in Lock :
          /\ \/ lockOf[k.ns] = l /\ UNCHANGED lockOf
             \/ lockOf[k.ns] = None /\ lockOf' = [lockOf EXCEPT ![k.ns] = l]
          /\ lockq' = [lockq EXCEPT ![l] = Append(@, t)]
    BY DEF Joins, Acquire
  <1>2. /\ lockq'[l] = Append(lockq[l], t)
        /\ \A m \in Lock : m # l => lockq'[m] = lockq[m]
    BY <1>1, <1>f
  <1>3. lockOf'[k.ns] = l /\ \A n \in Namespace : n # k.ns \/ lockOf[n] # None => lockOf'[n] = lockOf[n]
    BY <1>1, <1>f DEF Joins
  <1>4. \A m \in Lock : t \notin Members(lockq[m])
    BY DEF Joins, LinesInv, Line
  <1>5. Distinct(lockq[l])
    BY DEF LinesInv, Line
  <1>6. Members(lockq'[l]) = Members(lockq[l]) \cup {t} /\ Distinct(lockq'[l])
    BY <1>2, <1>4, <1>5, <1>f, AppendQueue
  <1> QED BY <1>2, <1>3, <1>4, <1>6

(* What its holder, once it has left, leaves of a line. *)
LEMMA LeftLine ==
  ASSUME IInv, LinesInv, NEW t \in Task, NEW l \in Lock, Holds(t, l), Release(t)
  PROVE  /\ lockq'[l] = Tail(lockq[l])
         /\ \A m \in Lock : m # l => lockq'[m] = lockq[m] /\ t \notin Members(lockq[m])
         /\ Distinct(lockq'[l]) /\ Members(lockq'[l]) = Members(lockq[l]) \ {t}
  <1>1. /\ lockq'[l] = Tail(lockq[l])
        /\ \A m \in Lock : m # l => lockq'[m] = lockq[m] /\ t \notin Members(lockq[m])
    BY HeldOnce DEF Release
  <1>2. Distinct(lockq[l]) /\ lockq[l] # <<>> /\ Head(lockq[l]) = t /\ lockq[l] \in Seq(Task)
    BY DEF IInv, LockInv, LinesInv, Line, Holds
  <1> QED BY <1>1, <1>2, TailQueue

(* The lines after some tasks left them, or one joined one: who is still in *)
(* one goes on waiting, and who is inside goes on holding.                  *)
LEMMA LinesFollow ==
  ASSUME \A l \in Lock : Distinct(lockq'[l]),
         \A l \in Lock : \A u : u \in Members(lockq'[l]) => AtLock(task'[u]),
         \A l, m \in Lock : \A u : u \in Members(lockq'[l]) /\ u \in Members(lockq'[m]) => l = m,
         \A u \in Task : InSection(task'[u]) => HasLock(u)'
  PROVE  LinesInv'
  BY DEF LinesInv, Line

LEMMA LinesTurn ==
  ASSUME IInv, LinesInv, NEW t \in Task, NEW k \in Coroutine, Turn(t, k), LineMove(t, k)
  PROVE  LinesInv'
  <1>t. task'[t] = k /\ \A u \in Task : u # t => task'[u] = task[u]
    BY TurnIs
  <1>q. \A l \in Lock : lockq[l] \in Seq(Task) /\ Members(lockq[l]) \subseteq Task
    BY MembersAreTasks DEF IInv, LockInv
  <1>w. \A l \in Lock : \A u : u \in Members(lockq[l]) => AtLock(task[u])
    BY DEF LinesInv, Line
  <1>o. \A l, m \in Lock : \A u : u \in Members(lockq[l]) /\ u \in Members(lockq[m]) => l = m
    BY DEF LinesInv
  <1>d. \A l \in Lock : Distinct(lockq[l])
    BY DEF LinesInv, Line
  <1>1. CASE Joins(t, k)
    <2>1. PICK l \in Lock :
            /\ lockq'[l] = Append(lockq[l], t)
            /\ \A m \in Lock : m # l => lockq'[m] = lockq[m]
            /\ Distinct(lockq'[l]) /\ Members(lockq'[l]) = Members(lockq[l]) \cup {t}
            /\ \A m \in Lock : t \notin Members(lockq[m])
      BY <1>1, JoinedLine
    <2>2. \A m \in Lock : \A u : u \in Members(lockq'[m]) =>
            u \in Members(lockq[m]) \/ (u = t /\ m = l)
      BY <2>1
    <2>3. \A m \in Lock : \A u : u \in Members(lockq'[m]) => AtLock(task'[u])
      BY <1>1, <1>q, <1>t, <1>w, <2>1, <2>2 DEF Joins
    <2>4. \A x, m \in Lock : \A u : u \in Members(lockq'[x]) /\ u \in Members(lockq'[m]) => x = m
      BY <1>o, <2>1, <2>2
    <2>5. ASSUME NEW u \in Task, InSection(task'[u]) PROVE HasLock(u)'
      <3>1. u # t /\ InSection(task[u])
        BY <1>1, <1>t, <2>5 DEF Joins
      <3>2. PICK m \in Lock : Holds(u, m)
        BY <3>1 DEF LinesInv, HasLock
      <3>3. lockq'[m] # <<>> /\ Head(lockq'[m]) = u
        BY <1>q, <2>1, <3>2, AppendQueue DEF Holds
      <3> QED BY <3>3 DEF HasLock, Holds
    <2>6. \A m \in Lock : Distinct(lockq'[m])
      BY <1>d, <2>1
    <2> QED BY <2>3, <2>4, <2>5, <2>6, LinesFollow
  <1>2. CASE Leaves(t, k)
    <2>1. PICK l \in Lock : Holds(t, l)
      BY <1>2 DEF Leaves, HasLock
    <2>2. /\ lockq'[l] = Tail(lockq[l])
          /\ \A m \in Lock : m # l => lockq'[m] = lockq[m] /\ t \notin Members(lockq[m])
          /\ Distinct(lockq'[l]) /\ Members(lockq'[l]) = Members(lockq[l]) \ {t}
      BY <1>2, <2>1, LeftLine DEF Leaves
    <2>3. \A m \in Lock : \A u : u \in Members(lockq'[m]) => u \in Members(lockq[m]) /\ u # t
      BY <2>2
    <2>4. \A m \in Lock : \A u : u \in Members(lockq'[m]) => AtLock(task'[u])
      BY <1>q, <1>t, <1>w, <2>3
    <2>5. \A x, m \in Lock : \A u : u \in Members(lockq'[x]) /\ u \in Members(lockq'[m]) => x = m
      BY <1>o, <2>3
    <2>6. ASSUME NEW u \in Task, InSection(task'[u]) PROVE HasLock(u)'
      <3>1. u # t /\ InSection(task[u])
        BY <1>2, <1>t, <2>6 DEF Leaves, InSection, AtLock
      <3>2. PICK m \in Lock : Holds(u, m)
        BY <3>1 DEF LinesInv, HasLock
      <3>3. m # l
        BY <2>1, <3>1, <3>2 DEF Holds
      <3> QED BY <2>2, <3>2, <3>3 DEF HasLock, Holds
    <2>7. \A m \in Lock : Distinct(lockq'[m])
      BY <1>d, <2>2
    <2> QED BY <2>4, <2>5, <2>6, <2>7, LinesFollow
  <1>3. CASE Stays(t, k)
    <2>1. lockq' = lockq
      BY <1>3 DEF Stays, lockVars
    <2>2. \A m \in Lock : \A u : u \in Members(lockq'[m]) => AtLock(task'[u])
      BY <1>3, <1>q, <1>t, <1>w, <2>1 DEF Stays
    <2>3. ASSUME NEW u \in Task, InSection(task'[u]) PROVE HasLock(u)'
      <3>1. HasLock(u)
        BY <1>3, <1>t, <2>3 DEF Stays, LinesInv
      <3> QED BY <2>1, <3>1 DEF HasLock, Holds
    <2> QED BY <1>d, <1>o, <2>1, <2>2, <2>3, LinesFollow
  <1> QED BY <1>1, <1>2, <1>3 DEF LineMove

LEMMA LinkTurn ==
  ASSUME IInv, SectionInv, NEW t \in Task, NEW k \in Coroutine, Turn(t, k), LineMove(t, k),
         task[t].op # "unregister"
  PROVE  InOwnLine'
  <1>t. task'[t] = k /\ \A u \in Task : u # t => task'[u] = task[u]
    BY TurnIs
  <1>q. \A l \in Lock : lockq[l] \in Seq(Task) /\ Members(lockq[l]) \subseteq Task
    BY MembersAreTasks DEF IInv, LockInv
  <1>w. \A l \in Lock, u \in Task : u \in Members(lockq[l]) =>
          AtLock(task[u]) /\ lockOf[task[u].ns] = l
    BY DEF SectionInv, LinesInv, Line, InOwnLine
  <1>1. CASE Joins(t, k)
    <2>1. PICK l \in Lock :
            /\ \A m \in Lock : m # l => lockq'[m] = lockq[m]
            /\ Members(lockq'[l]) = Members(lockq[l]) \cup {t}
            /\ lockOf'[k.ns] = l
            /\ \A n \in Namespace : n # k.ns \/ lockOf[n] # None => lockOf'[n] = lockOf[n]
            /\ \A m \in Lock : t \notin Members(lockq[m])
      BY <1>1, JoinedLine DEF SectionInv
    <2>2. ASSUME NEW m \in Lock, NEW u \in Task, u \in Members(lockq[m])
          PROVE  lockOf'[task'[u].ns] = m
      <3>1. u # t /\ task'[u] = task[u] /\ AtLock(task[u]) /\ lockOf[task[u].ns] = m
        BY <1>t, <1>w, <2>1, <2>2
      <3>2. m # None /\ task[u].ns \in Namespace
        BY <3>1, NoneIsNothing DEF AtLock, IInv, TaskInv, TaskOK
      <3> QED BY <2>1, <3>1, <3>2
    <2>3. ASSUME NEW m \in Lock, NEW u \in Members(lockq'[m]) PROVE lockOf'[task'[u].ns] = m
      <3>1. u \in Members(lockq[m]) \/ (u = t /\ m = l)
        BY <2>1, <2>3
      <3> QED BY <1>q, <1>t, <2>1, <2>2, <3>1
    <2> QED BY <2>3 DEF InOwnLine
  <1>2. CASE Leaves(t, k)
    <2>1. PICK l \in Lock : Holds(t, l)
      BY <1>2 DEF Leaves, HasLock
    <2>2. /\ \A m \in Lock : m # l => lockq'[m] = lockq[m] /\ t \notin Members(lockq[m])
          /\ Members(lockq'[l]) = Members(lockq[l]) \ {t}
      BY <1>2, <2>1, LeftLine DEF Leaves, SectionInv
    <2>3. ASSUME NEW m \in Lock, NEW u \in Members(lockq'[m]) PROVE lockOf'[task'[u].ns] = m
      <3>1. u \in Members(lockq[m]) /\ u # t
        BY <2>2, <2>3
      <3> QED BY <1>2, <1>q, <1>t, <1>w, <3>1 DEF Leaves
    <2> QED BY <2>3 DEF InOwnLine
  <1>3. CASE Stays(t, k)
    <2>1. lockq' = lockq /\ lockOf' = lockOf
      BY <1>3 DEF Stays, lockVars
    <2> QED BY <1>3, <1>q, <1>t, <1>w, <2>1 DEF Stays, InOwnLine
  <1> QED BY <1>1, <1>2, <1>3 DEF LineMove

(* Nobody moves in any line. *)
LEMMA LinesKept ==
  ASSUME IInv, UNCHANGED lockVars,
         \A u \in Task : /\ task'[u].pc = task[u].pc /\ task'[u].op = task[u].op
                         /\ task'[u].ns = task[u].ns
  PROVE  /\ LinesInv => LinesInv'
         /\ InOwnLine => InOwnLine'
  <1>1. lockq' = lockq /\ lockOf' = lockOf
    BY DEF lockVars
  <1>2. \A l \in Lock : Members(lockq[l]) \subseteq Task
    BY MembersAreTasks DEF IInv, LockInv
  <1>3. \A u \in Task : /\ AtLock(task'[u]) <=> AtLock(task[u])
                        /\ InSection(task'[u]) <=> InSection(task[u])
                        /\ HasLock(u)' <=> HasLock(u)
    BY <1>1 DEF AtLock, InSection, HasLock, Holds
  <1>4. ASSUME LinesInv PROVE LinesInv'
    BY <1>1, <1>2, <1>3, <1>4, LinesFollow DEF LinesInv, Line
  <1>5. InOwnLine => InOwnLine'
    BY <1>1, <1>2 DEF InOwnLine
  <1> QED BY <1>4, <1>5

LEMMA LinesStep ==
  ASSUME IInv, PlaceInv, LinesInv, Next
  PROVE  /\ LinesInv'
         /\ "unregister" \notin Op /\ InOwnLine => InOwnLine'
  <1>1. ASSUME NEW r \in Runtime, NEW t \in Task, NEW k \in Coroutine, Turn(t, k), Answers(r, t, k)
        PROVE  LinesInv' /\ (InOwnLine => InOwnLine')
    BY <1>1, AnswerKeeps, LinesKept
  <1>2. ASSUME NEW r \in Runtime, Ends(r)
        PROVE  LinesInv' /\ (InOwnLine => InOwnLine')
    BY <1>2, EndKeeps, LinesKept
  <1>3. ASSUME ProcessGone
        PROVE  LinesInv' /\ InOwnLine'
    <2>1. \A l \in Lock : Members(lockq'[l]) = {} /\ Distinct(lockq'[l])
      BY <1>3, EmptyQueue DEF ProcessGone
    <2>2. \A u \in Task : ~InSection(task'[u])
      BY <1>3 DEF ProcessGone, Idle, InSection
    <2>3. LinesInv'
      BY <2>1, <2>2, LinesFollow
    <2> QED BY <2>1, <2>3 DEF InOwnLine
  <1>4. ASSUME NEW t \in Task, NEW k \in Coroutine, Turn(t, k), Shape(t, k)
        PROVE  LinesInv' /\ ("unregister" \notin Op /\ InOwnLine => InOwnLine')
    <2>1. LineMove(t, k)
      BY <1>4, LineMoves
    <2>2. LinesInv'
      BY <1>4, <2>1, LinesTurn
    <2>3. ASSUME "unregister" \notin Op PROVE task[t].op # "unregister"
      BY <2>3, NoOperation, NoneIsNothing DEF PlaceInv, PlaceOK, Operation
    <2>4. ASSUME "unregister" \notin Op, InOwnLine PROVE InOwnLine'
      BY <1>4, <2>1, <2>3, <2>4, LinkTurn DEF SectionInv
    <2> QED BY <2>2, <2>4
  <1> QED BY <1>1, <1>2, <1>3, <1>4, StepShapes

LEMMA SectionInit == Init => SectionInv
  <1> SUFFICES ASSUME Init PROVE SectionInv
    OBVIOUS
  <1>1. \A l \in Lock : Members(lockq[l]) = {} /\ Distinct(lockq[l])
    BY EmptyQueue DEF Init
  <1>2. \A t \in Task : ~InSection(task[t])
    BY DEF Init, Idle, InSection
  <1> QED BY <1>1, <1>2 DEF SectionInv, LinesInv, Line, InOwnLine

(* Whoever waits for a lock or holds it is in the queue of the lock that its *)
(* namespace maps to, as long as _namespace_locks forgets none.              *)
THEOREM SectionInvariant ==
  ASSUME "unregister" \notin Op
  PROVE  Spec => []SectionInv
  <1>1. ASSUME RuntimesInv, SectionInv, [Next]_vars PROVE SectionInv'
    <2>1. CASE UNCHANGED vars
      BY <1>1, <2>1 DEF vars, lockVars, SectionInv, LinesInv, Line, InOwnLine, HasLock, Holds
    <2>2. CASE Next
      BY <1>1, <2>2, LinesStep DEF RuntimesInv, SectionInv
    <2> QED BY <1>1, <2>1, <2>2
  <1>2. RuntimesInv /\ SectionInv /\ [Next]_vars => SectionInv'
    BY <1>1
  <1> QED BY <1>2, SectionInit, RuntimesInvariant, PTL DEF Spec

(* Two requests are never inside the locked section of one namespace, as    *)
(* long as nobody calls unregister_toolsets, which drops the lock others    *)
(* wait for.                                                                *)
THEOREM SectionsExclude ==
  ASSUME "unregister" \notin Op
  PROVE  Spec => []MutualExclusion
  <1>1. RuntimesInv /\ SectionInv => MutualExclusion
    BY Exclusion DEF RuntimesInv
  <1> QED BY <1>1, SectionInvariant, RuntimesInvariant, PTL

-----------------------------------------------------------------------------
(* Who uses a runtime.  Those who wait at one runtime are of one namespace, *)
(* at most one of them closes it, and who gave up waiting cancelled it.     *)

Uses(k) == k.pc \in {"calling", "probing", "closing"}

SameHome ==
  \A t, u \in Task :
    Uses(task[t]) /\ Uses(task[u]) /\ task[t].rt = task[u].rt =>
      /\ task[t].ns = task[u].ns
      /\ task[t].pc = "closing" /\ task[u].pc = "closing" => t = u

GaveUp(k) == Uses(k) /\ k.sig \in {"timeout", "cancelled"}

TimedOut ==
  \A t \in Task :
    GaveUp(task[t]) => runtime[task[t].rt].state \in {"aborting", "down"}

HomeInv == SameHome /\ TimedOut

(* What a request may do to a runtime that somebody knows.                  *)
LEMMA KnownMoves ==
  ASSUME IInv, NEW t \in Task, NEW k \in Coroutine, Turn(t, k), Shape(t, k),
         NEW x \in Runtime, ~UnusedRuntime(x)
  PROVE  /\ runtime'[x].state = "up" =>
              runtime[x].state = "up" /\ runtime'[x].tools = runtime[x].tools
         /\ runtime'[x].state = "aborting" =>
              runtime[x].state = "aborting" \/ (Expires(t, k) /\ x = task[t].rt)
         /\ runtime[x].state \in {"aborting", "down"} =>
              runtime'[x].state \in {"aborting", "down"}
  <1>m. /\ runtime \in [Runtime -> RuntimeState] /\ mounted \in [Namespace -> Runtime \cup {None}]
        /\ TaskOK(task[t])
    BY DEF IInv, TransportInv, TaskInv
  <1>n. task[t].pc \notin {"idle", "gone"} => task[t].ns \in Namespace
    BY <1>m DEF TaskOK
  <1>c. ASSUME NEW rts \in [Runtime -> RuntimeState], NEW y \in Runtime, rts[x] = runtime[x],
               runtime' = Closing(rts, y, t)
        PROVE  /\ runtime'[x].tools = runtime[x].tools
               /\ \/ runtime'[x].state = runtime[x].state
                  \/ runtime[x].state = "up" /\ runtime'[x].state = "closing"
    BY <1>c, ClosingQueue
  <1>1. CASE Begins(t, k) \/ Returns(t, k) \/ Opens(t, k) \/ Finishes(t, k) \/ CountsOut(t, k)
    BY <1>1 DEF Begins, Returns, Opens, Finishes, CountsOut, transportVars
  <1>2. CASE Mounts(t, k)
    BY <1>2, <1>m, NewRuntimeIs DEF Mounts, NewRuntime
  <1>3. CASE Replaces(t, k)
    <2>1. mounted[task[t].ns] \in Runtime
      BY <1>3, <1>m, <1>n DEF Replaces
    <2>2. PICK r \in Runtime, i \in Inventory :
            /\ NewRuntime(r)
            /\ runtime' = Closing([runtime EXCEPT ![r] = Fresh(i)], mounted[task[t].ns], t)
      BY <1>3 DEF Replaces
    <2>3. /\ [runtime EXCEPT ![r] = Fresh(i)] \in [Runtime -> RuntimeState]
          /\ [runtime EXCEPT ![r] = Fresh(i)][x] = runtime[x]
      BY <2>2, NewRuntimeIs DEF NewRuntime
    <2> QED BY <1>c, <2>1, <2>2, <2>3
  <1>4. CASE Unmounts(t, k)
    <2>1. mounted[task[t].ns] \in Runtime
      BY <1>4, <1>m, <1>n DEF Unmounts
    <2> QED BY <1>4, <1>c, <1>m, <2>1 DEF Unmounts
  <1>5. CASE Queues(t, k)
    <2>1. mounted[task[t].ns] \in Runtime
      BY <1>5, <1>m, <1>n DEF Queues, Live
    <2> QED BY <1>5, <2>1, EnqueuedQueue DEF Queues
  <1>6. CASE Expires(t, k)
    <2>1. task[t].rt \in Runtime
      BY <1>6, <1>m DEF Expires, TaskOK
    <2>2. /\ x # task[t].rt => runtime'[x] = runtime[x]
          /\ x = task[t].rt =>
               runtime'[x].state = IF runtime[x].state = "down" THEN "down" ELSE "aborting"
      BY <1>6, <1>m, <2>1 DEF Expires, RuntimeState
    <2> QED BY <1>6, <2>2
  <1> QED BY <1>1, <1>2, <1>3, <1>4, <1>5, <1>6 DEF Shape

(* A step after which everybody uses what he used keeps the homes.          *)
LEMMA HomeKept ==
  ASSUME SameHome,
         \A u \in Task : Uses(task'[u]) =>
           /\ Uses(task[u]) /\ task'[u].rt = task[u].rt /\ task'[u].ns = task[u].ns
           /\ task'[u].pc = "closing" => task[u].pc = "closing"
  PROVE  SameHome'
  BY DEF SameHome

(* A task that starts to use a mounted runtime is of its namespace.         *)
LEMMA HomeJoined ==
  ASSUME IInv, OwnInv, SameHome, NEW t \in Task, NEW k \in Coroutine, Turn(t, k),
         task[t].ns \in Namespace, k.ns = task[t].ns, k.rt = mounted[task[t].ns],
         mounted[task[t].ns] # None
  PROVE  SameHome'
  <1>t. task'[t] = k /\ \A u \in Task : u # t => task'[u] = task[u]
    BY TurnIs
  <1>1. ASSUME NEW u \in Task, Uses(task[u]), task[u].rt = k.rt
        PROVE  task[u].ns = k.ns /\ task[u].pc # "closing"
    BY <1>1 DEF OwnInv, ClosingUnmounted, UsedAtHome, Uses
  <1>2. ASSUME NEW u \in Task, NEW v \in Task, Uses(task'[u]), Uses(task'[v]),
               task'[u].rt = task'[v].rt
        PROVE  /\ task'[u].ns = task'[v].ns
               /\ task'[u].pc = "closing" /\ task'[v].pc = "closing" => u = v
    <2>1. CASE u = t
      BY <1>t, <1>1, <1>2, <2>1
    <2>2. CASE v = t
      BY <1>t, <1>1, <1>2, <2>2
    <2>3. CASE u # t /\ v # t
      BY <1>t, <1>2, <2>3 DEF SameHome
    <2> QED BY <2>1, <2>2, <2>3
  <1> QED BY <1>2 DEF SameHome

LEMMA HomeTurn ==
  ASSUME IInv, PlaceInv, OwnInv, HomeInv, NEW t \in Task, NEW k \in Coroutine, Turn(t, k),
         Shape(t, k)
  PROVE  HomeInv'
  <1>t. task'[t] = k /\ \A u \in Task : u # t => task'[u] = task[u]
    BY TurnIs
  <1>0. TaskOK(task[t])
    BY DEF IInv, TaskInv
  <1>n. task[t].pc \notin {"idle", "gone"} => task[t].ns \in Namespace
    BY <1>0 DEF TaskOK
  <1>1. SameHome'
    <2>1. CASE ~Uses(k)
      BY <1>t, <2>1, HomeKept DEF HomeInv
    <2>2. CASE Expires(t, k)
      BY <1>t, <2>2, HomeKept DEF HomeInv, Expires, Signalled, SameRequest, Uses
    <2>3. CASE Replaces(t, k) \/ Unmounts(t, k) \/ Queues(t, k)
      <3>1. /\ task[t].pc \notin {"idle", "gone"} /\ k.ns = task[t].ns /\ k.rt = mounted[task[t].ns]
            /\ mounted[task[t].ns] # None
        BY <2>3 DEF Replaces, Unmounts, Queues, Waits, SameRequest, Live
      <3> QED BY <1>n, <3>1, HomeJoined DEF HomeInv
    <2> QED BY <2>1, <2>2, <2>3
            DEF Shape, Begins, Returns, Opens, Mounts, Finishes, CountsOut, Idle, Uses
  <1>2. ASSUME NEW u \in Task, GaveUp(task[u])
        PROVE  runtime'[task[u].rt].state \in {"aborting", "down"}
    <2>1. task[u].rt \in Runtime /\ runtime[task[u].rt].state \in {"aborting", "down"}
      BY <1>2 DEF HomeInv, TimedOut, GaveUp, IInv, TaskInv, TaskOK, Uses
    <2>2. ~UnusedRuntime(task[u].rt)
      BY DEF UnusedRuntime
    <2> QED BY <2>1, <2>2, KnownMoves
  <1>3. ASSUME GaveUp(k)
        PROVE  runtime'[k.rt].state \in {"aborting", "down"}
    <2>1. CASE Expires(t, k)
      <3>1. task[t].rt \in Runtime /\ k.rt = task[t].rt
        BY <1>0, <2>1 DEF Expires, TaskOK, Signalled, SameRequest
      <3>2. runtime \in [Runtime -> RuntimeState]
        BY DEF IInv, TransportInv
      <3> QED BY <2>1, <3>1, <3>2 DEF Expires, RuntimeState
    <2>2. CASE Queues(t, k)
      <3>1. task[t].sig = None
        BY <2>2 DEF Queues, PlaceInv, PlaceOK
      <3> QED BY <1>3, <2>2, <3>1, NoneIsNothing DEF Queues, GaveUp
    <2>3. CASE Replaces(t, k) \/ Unmounts(t, k)
      <3>1. ~GaveUp(k)
        BY <2>3, NoneIsNothing DEF Replaces, Unmounts, Waits, CloseSignal, GaveUp
      <3> QED BY <1>3, <3>1
    <2> QED BY <1>3, <2>1, <2>2, <2>3
            DEF Shape, Begins, Returns, Opens, Mounts, Finishes, CountsOut, Idle, Uses, GaveUp
  <1>4. TimedOut'
    BY <1>t, <1>2, <1>3 DEF TimedOut
  <1> QED BY <1>1, <1>4 DEF HomeInv

LEMMA HomeStep ==
  ASSUME IInv, PlaceInv, QueueInv, OwnInv, HomeInv, Next
  PROVE  HomeInv'
  <1>1. ASSUME NEW r \in Runtime, NEW t \in Task, NEW k \in Coroutine, Turn(t, k), Answers(r, t, k)
        PROVE  HomeInv'
    <2>t. task'[t] = k /\ \A u \in Task : u # t => task'[u] = task[u]
      BY <1>1, TurnIs
    <2>1. \A u \in Task : /\ task'[u].pc = task[u].pc /\ task'[u].rt = task[u].rt
                          /\ task'[u].ns = task[u].ns
      BY <1>1, <2>t DEF Answers, Signalled, SameRequest
    <2>2. \A u \in Task : GaveUp(task'[u]) => GaveUp(task[u])
      BY <1>1, <2>t, <2>1 DEF Answers, Signalled, GaveUp, Uses
    <2>3. \A x \in Runtime : runtime[x].state \in {"aborting", "down"} => runtime'[x] = runtime[x]
      BY <1>1 DEF Answers, IInv, TransportInv
    <2>4. \A u \in Task : Uses(task[u]) => task[u].rt \in Runtime
      BY DEF IInv, TaskInv, TaskOK, Uses
    <2>5. SameHome'
      BY <2>1, HomeKept DEF HomeInv, Uses
    <2>6. TimedOut'
      BY <2>1, <2>2, <2>3, <2>4 DEF HomeInv, TimedOut, GaveUp
    <2> QED BY <2>5, <2>6 DEF HomeInv
  <1>2. ASSUME NEW r \in Runtime, Ends(r)
        PROVE  HomeInv'
    <2>1. \A u \in Task : /\ task'[u].pc = task[u].pc /\ task'[u].rt = task[u].rt
                          /\ task'[u].ns = task[u].ns
                          /\ GaveUp(task'[u]) => GaveUp(task[u])
      BY <1>2 DEF Ends, Signalled, SameRequest, GaveUp, Uses
    <2>2. \A x \in Runtime :
            runtime[x].state \in {"aborting", "down"} => runtime'[x].state \in {"aborting", "down"}
      BY <1>2, DownIs DEF Ends, IInv, TransportInv
    <2>4. \A u \in Task : Uses(task[u]) => task[u].rt \in Runtime
      BY DEF IInv, TaskInv, TaskOK, Uses
    <2>5. SameHome'
      BY <2>1, HomeKept DEF HomeInv, Uses
    <2>6. TimedOut'
      BY <2>1, <2>2, <2>4 DEF HomeInv, TimedOut, GaveUp
    <2> QED BY <2>5, <2>6 DEF HomeInv
  <1>3. CASE ProcessGone
    <2>1. \A u \in Task : ~Uses(task'[u])
      BY <1>3 DEF ProcessGone, Idle, Uses
    <2> QED BY <2>1 DEF HomeInv, SameHome, TimedOut, GaveUp
  <1> QED BY <1>1, <1>2, <1>3, StepShapes, HomeTurn

LEMMA HomeInit == Init => HomeInv
  <1> SUFFICES ASSUME Init PROVE HomeInv
    OBVIOUS
  <1>1. \A t \in Task : ~Uses(task[t])
    BY DEF Init, Idle, Uses
  <1> QED BY <1>1 DEF HomeInv, SameHome, TimedOut, GaveUp

(* Those who wait at one runtime are of one namespace, one of them at most  *)
(* closes it, and a runtime whose caller gave up is cancelled or over:      *)
(* for any operations and any faults.                                       *)
THEOREM HomeInvariant == Spec => []HomeInv
  <1>1. RuntimesInv /\ HomeInv /\ [Next]_vars => HomeInv'
    <2>1. ASSUME RuntimesInv, HomeInv, UNCHANGED vars PROVE HomeInv'
      BY <2>1 DEF vars, transportVars, HomeInv, SameHome, TimedOut, GaveUp
    <2> QED BY <2>1, HomeStep DEF RuntimesInv
  <1> QED BY <1>1, HomeInit, RuntimesInvariant, PTL DEF Spec
=============================================================================
