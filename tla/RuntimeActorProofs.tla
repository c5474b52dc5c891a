------------------------- MODULE RuntimeActorProofs -------------------------
(***************************************************************************)
(* One runtime actor, for every number of callers and closers: it has one  *)
(* command in hand at most and only while it serves, whoever waits for its *)
(* end sees it, and it treats commands as CommandChannel promises.         *)
(***************************************************************************)
EXTENDS RuntimeActorProperties, SequenceTheorems, TLAPS

Command == Caller \cup Closer

(* What has not been asked yet has no outcome. *)
Unasked == \A w \in Waiter : pc[w] = "new" => future[w] = "none"

IInv ==
  /\ TypeOK
  /\ handled # None <=> phase = "serving"
  /\ Unasked
  /\ StoppedWhenTimedOut
  /\ phase = "closing_streams" => process = "exited"

-----------------------------------------------------------------------------
(* The invariant *)

LEMMA IInvInit == Init => IInv
  <1> SUFFICES ASSUME Init PROVE IInv
    OBVIOUS
  <1>1. TypeOK
    <2>1. /\ future \in [Waiter -> {"none", "pending", "answer", "error", "cancelled"}]
          /\ pc \in [Waiter -> {"new", "waiting", "draining", "answered", "failed", "closed",
                               "timed_out", "cancelled", "refused"}]
      BY DEF Init
    <2>2. queue \in Seq(Caller \cup Closer)
      BY EmptySeq DEF Init
    <2> QED BY <2>1, <2>2 DEF Init, TypeOK
  <1>2. Unasked /\ StoppedWhenTimedOut
    BY DEF Init, Unasked, StoppedWhenTimedOut, Waiter
  <1> QED BY <1>1, <1>2 DEF Init, IInv

LEMMA CommandsWait == Command \subseteq Waiter /\ Opener \notin Command /\ Opener \in Waiter
  BY WaiterAssumption DEF Waiter, Command

LEMMA SettledFuture ==
  ASSUME TypeOK, NEW w \in Waiter, NEW result \in {"answer", "error", "cancelled"}
  PROVE  /\ Settled(w, result) \in [Waiter -> {"none", "pending", "answer", "error", "cancelled"}]
         /\ \A v \in Waiter : future[v] # "pending" => Settled(w, result)[v] = future[v]
         /\ \A v \in Waiter : v # w => Settled(w, result)[v] = future[v]
         /\ Settled(w, result)[w] = IF future[w] = "pending" THEN result ELSE future[w]
  BY DEF TypeOK, Settled

LEMMA FailedFuture ==
  ASSUME TypeOK, NEW queued
  PROVE  /\ Failed(queued) \in [Waiter -> {"none", "pending", "answer", "error", "cancelled"}]
         /\ \A v \in Waiter : future[v] # "pending" => Failed(queued)[v] = future[v]
  BY DEF TypeOK, Failed

(* What the actor ends with, and what it starts to unwind with. *)
LEMMA EndStep ==
  ASSUME IInv, End
  PROVE  IInv'
  <1>1. /\ phase' = "done" /\ queue' = <<>> /\ handled' = None /\ cancelling' = FALSE
        /\ future' = Failed(queue) /\ UNCHANGED <<process, closed, pc, scope>>
    BY DEF End, waiterVars
  <1>2. TypeOK'
    <2>1. future' \in [Waiter -> {"none", "pending", "answer", "error", "cancelled"}]
      BY <1>1, FailedFuture DEF IInv
    <2>2. queue' \in Seq(Caller \cup Closer)
      BY <1>1, EmptySeq
    <2> QED BY <1>1, <2>1, <2>2 DEF IInv, TypeOK
  <1>3. Unasked' /\ StoppedWhenTimedOut'
    BY <1>1, FailedFuture DEF IInv, Unasked, StoppedWhenTimedOut
  <1> QED BY <1>1, <1>2, <1>3 DEF IInv

LEMMA UnwindStep ==
  ASSUME IInv, phase # "done", NEW left \in Seq(Command), NEW settled, Unwind(left, settled),
         cancelling' \in BOOLEAN,
         settled \in [Waiter -> {"none", "pending", "answer", "error", "cancelled"}],
         \A v \in Waiter : future[v] # "pending" => settled[v] = future[v]
  PROVE  IInv'
  <1>1. /\ phase' = "closing_stdin" /\ queue' = left /\ handled' = None
        /\ future' = settled /\ UNCHANGED <<process, closed, pc, scope>>
    BY DEF Unwind, waiterVars
  <1>2. TypeOK'
    BY <1>1 DEF IInv, TypeOK, Command
  <1>3. Unasked' /\ StoppedWhenTimedOut'
    BY <1>1 DEF IInv, Unasked, StoppedWhenTimedOut, TypeOK
  <1> QED BY <1>1, <1>2, <1>3 DEF IInv

LEMMA ActorStep ==
  ASSUME IInv, Actor
  PROVE  IInv'
  <1>t. TypeOK /\ queue \in Seq(Command) /\ cancelling \in BOOLEAN
        /\ future \in [Waiter -> {"none", "pending", "answer", "error", "cancelled"}]
    BY DEF IInv, TypeOK, Command
  <1>1. CASE Spawn
    <2>1. /\ phase = "spawning" /\ phase' = "handshake" /\ process' = "running"
          /\ UNCHANGED <<handled, queue, cancelling, closed, future, pc, scope>>
      BY <1>1 DEF Spawn, waiterVars
    <2> QED BY <2>1 DEF IInv, TypeOK, Unasked, StoppedWhenTimedOut
  <1>2. CASE End
    BY <1>2, EndStep
  <1>3. CASE Handshake
    <2>1. CASE phase' = "idle"
      <3>1. /\ phase = "handshake" /\ future' = Settled(Opener, "answer")
            /\ UNCHANGED <<process, handled, queue, closed, pc, scope, cancelling>>
        BY <1>3, <2>1 DEF Handshake, Unwind, waiterVars
      <3>2. TypeOK' /\ Unasked'
        BY <1>t, <2>1, <3>1, SettledFuture, CommandsWait DEF IInv, TypeOK, Unasked
      <3> QED BY <2>1, <3>1, <3>2 DEF IInv, StoppedWhenTimedOut
    <2>2. CASE phase' # "idle"
      BY <1>3, <1>t, <2>2, UnwindStep DEF Handshake
    <2> QED BY <2>1, <2>2
  <1>4. CASE HandshakeFails
    BY <1>4, <1>t, UnwindStep DEF HandshakeFails
  <1>5. CASE Take
    <2>1. phase = "idle" /\ queue # <<>> /\ Head(queue) \in Command /\ Tail(queue) \in Seq(Command)
          /\ UNCHANGED cancelling
      BY <1>5, <1>t DEF Take
    <2>2. CASE Unwind(Tail(queue), Settled(Head(queue), "answer"))
      <3>1. Head(queue) \in Waiter
        BY <2>1, CommandsWait
      <3>2. /\ Settled(Head(queue), "answer") \in
                 [Waiter -> {"none", "pending", "answer", "error", "cancelled"}]
            /\ \A v \in Waiter :
                 future[v] # "pending" => Settled(Head(queue), "answer")[v] = future[v]
        BY <1>t, <3>1, SettledFuture
      <3>3. phase # "done" /\ cancelling' \in BOOLEAN
        BY <1>t, <2>1
      <3> QED BY <2>1, <2>2, <3>2, <3>3, UnwindStep
    <2>3. CASE /\ Head(queue) \in Caller
               /\ phase' = "serving" /\ handled' = Head(queue) /\ queue' = Tail(queue)
               /\ UNCHANGED <<process, closed, future, waiterVars>>
      <3>1. handled' # None
        BY <2>3, WaiterAssumption DEF Waiter
      <3>2. TypeOK'
        BY <1>t, <2>1, <2>3 DEF TypeOK, waiterVars, Command
      <3> QED BY <2>1, <2>3, <3>1, <3>2 DEF IInv, Unasked, StoppedWhenTimedOut, waiterVars
    <2> QED BY <1>5, <2>2, <2>3 DEF Take
  <1>6. CASE Serve
    <2>1. PICK result \in {"answer", "error"} : future' = Settled(handled, result)
      BY <1>6 DEF Serve
    <2>2. /\ phase = "serving" /\ phase' = "idle" /\ handled' = None
          /\ UNCHANGED <<process, queue, cancelling, closed, pc, scope>>
      BY <1>6 DEF Serve, waiterVars
    <2>3. handled \in Waiter
      BY <2>2, CommandsWait DEF IInv, TypeOK, Command
    <2>4. TypeOK' /\ Unasked'
      BY <1>t, <2>1, <2>2, <2>3, SettledFuture DEF IInv, TypeOK, Unasked
    <2> QED BY <2>2, <2>4 DEF IInv, StoppedWhenTimedOut
  <1>7. CASE Interrupt /\ Up
    <2>1. phase # "done" /\ (End \/ (Unwind(queue, future) /\ cancelling' = FALSE))
      BY <1>7 DEF Interrupt, Up
    <2> QED BY <1>t, <2>1, EndStep, UnwindStep
  <1>8. CASE CloseStdin \/ Exited \/ GraceOver \/ Terminate \/ Kill
    <2>1. /\ phase \in {"closing_stdin", "grace", "last_grace", "terminating", "killing"}
          /\ phase' \in {"grace", "closing_streams", "terminating", "killing", "last_grace"}
          /\ process' \in {process, "exited"}
          /\ phase' = "closing_streams" => process' = "exited"
          /\ UNCHANGED <<handled, queue, cancelling, closed, future, pc, scope>>
      BY <1>8 DEF CloseStdin, Exited, GraceOver, Terminate, Kill, waiterVars
    <2>2. TypeOK'
      BY <2>1 DEF IInv, TypeOK
    <2> QED BY <2>1, <2>2 DEF IInv, Unasked, StoppedWhenTimedOut
  <1> QED BY <1>1, <1>2, <1>3, <1>4, <1>5, <1>6, <1>7, <1>8
          DEF Actor, SpawnFails, Interrupt, TransportFails, Shutdown, Ended

LEMMA WaiterStep ==
  ASSUME IInv, NEW w \in Waiter, Step(w)
  PROVE  IInv'
  <1>t. TypeOK /\ queue \in Seq(Command) /\ cancelling \in BOOLEAN
    BY DEF IInv, TypeOK, Command
  <1>1. ASSUME Send(w), w \in Command, phase # "done", closed' \in BOOLEAN
        PROVE  IInv'
    <2>1. /\ queue' = Append(queue, w) /\ future' = [future EXCEPT ![w] = "pending"]
          /\ pc' = [pc EXCEPT ![w] = "waiting"]
          /\ UNCHANGED <<phase, process, handled, cancelling, scope>>
      BY <1>1 DEF Send, Moved
    <2>2. TypeOK'
      BY <1>1, <1>t, <2>1 DEF TypeOK, Command
    <2>3. Unasked' /\ StoppedWhenTimedOut'
      BY <1>t, <2>1 DEF IInv, Unasked, StoppedWhenTimedOut, TypeOK
    <2> QED BY <2>1, <2>2, <2>3 DEF IInv
  <1>2. ASSUME NEW place \in {"draining", "answered", "failed", "closed", "timed_out",
                              "cancelled", "refused"},
               Moved(w, place), place \in {"closed", "timed_out"} => phase = "done",
               UNCHANGED actorVars, closed' \in BOOLEAN, cancelling' \in BOOLEAN,
               scope' \subseteq Waiter,
               \/ UNCHANGED future
               \/ future' = Settled(w, "cancelled")
        PROVE  IInv'
    <2>1. UNCHANGED <<phase, process, handled, queue>> /\ pc' = [pc EXCEPT ![w] = place]
      BY <1>2 DEF actorVars, Moved
    <2>2. /\ future' \in [Waiter -> {"none", "pending", "answer", "error", "cancelled"}]
          /\ \A v \in Waiter : future[v] # "pending" => future'[v] = future[v]
      BY <1>t, <1>2, SettledFuture DEF TypeOK
    <2>3. TypeOK'
      BY <1>t, <1>2, <2>1, <2>2 DEF TypeOK
    <2>4. Unasked' /\ StoppedWhenTimedOut'
      BY <1>t, <1>2, <2>1, <2>2 DEF IInv, Unasked, StoppedWhenTimedOut, TypeOK
    <2> QED BY <2>1, <2>3, <2>4 DEF IInv
  <1>3. ASSUME UNCHANGED <<actorVars, future, pc>>, closed' \in BOOLEAN, cancelling' \in BOOLEAN,
               scope' \subseteq Waiter
        PROVE  IInv'
    BY <1>3 DEF actorVars, IInv, TypeOK, Unasked, StoppedWhenTimedOut
  <1>c. closed \in BOOLEAN /\ scope \subseteq Waiter
    BY <1>t DEF TypeOK
  <1>4. CASE Submit(w)
    BY <1>1, <1>2, <1>4, <1>c, <1>t DEF Submit, Command
  <1>5. CASE Close(w)
    BY <1>1, <1>2, <1>5, <1>c, <1>t DEF Close, Command
  <1>6. CASE Resume(w)
    <2>1. PICK place \in {"draining", "answered", "failed"} : Moved(w, place)
      BY <1>6 DEF Resume
    <2> QED BY <1>2, <1>6, <1>c, <1>t, <2>1 DEF Resume
  <1>7. CASE TimeOut(w)
    BY <1>2, <1>7, <1>c, <1>t DEF TimeOut, CancelTask
  <1>8. CASE Drained(w)
    <2>1. PICK place \in {"cancelled", "failed", "closed", "timed_out"} : Moved(w, place)
      BY <1>8 DEF Drained
    <2> QED BY <1>2, <1>8, <1>c, <1>t, <2>1 DEF Drained
  <1>9. CASE HostCancel(w)
    <2>1. scope' \subseteq Waiter /\ closed' = closed /\ UNCHANGED actorVars
      BY <1>9, <1>c DEF HostCancel
    <2>2. CASE pc[w] = "waiting"
      <3>1. /\ future' = Settled(w, "cancelled") /\ UNCHANGED cancelling
            /\ \E place \in {"draining", "cancelled"} : Moved(w, place)
        BY <1>9, <2>2 DEF HostCancel
      <3> QED BY <1>2, <1>c, <1>t, <2>1, <3>1
    <2>3. CASE pc[w] = "draining"
      BY <1>3, <1>9, <1>c, <1>t, <2>1, <2>3 DEF HostCancel, CancelTask
    <2> QED BY <1>9, <2>2, <2>3 DEF HostCancel
  <1>10. CASE CancelAgain(w)
    BY <1>3, <1>10, <1>c, <1>t DEF CancelAgain, CancelTask, waiterVars
  <1> QED BY <1>4, <1>5, <1>6, <1>7, <1>8, <1>9, <1>10 DEF Step

LEMMA IInvStep ==
  ASSUME IInv, [Next]_vars
  PROVE  IInv'
  <1>1. CASE ProcessExits
    <2>1. process' = "exited"
          /\ UNCHANGED <<phase, handled, queue, cancelling, closed, future, pc, scope>>
      BY <1>1 DEF ProcessExits, waiterVars
    <2> QED BY <2>1 DEF IInv, TypeOK, Unasked, StoppedWhenTimedOut
  <1>2. CASE UNCHANGED vars
    BY <1>2 DEF vars, actorVars, waiterVars, IInv, TypeOK, Unasked, StoppedWhenTimedOut
  <1> QED BY <1>1, <1>2, ActorStep, WaiterStep DEF Next

(* The actor has a command in hand exactly while it serves, its process is  *)
(* gone when it comes to close the streams, and who stopped it has waited.  *)
THEOREM ActorInvariant == Spec => []IInv
  <1>1. IInv /\ [Next]_vars => IInv'
    BY IInvStep
  <1> QED BY <1>1, IInvInit, PTL DEF Spec

(* Every variable has its type: above all, only commands are queued, and a  *)
(* future has one outcome of those asyncio knows.                           *)
THEOREM Types == Spec => []TypeOK
  BY ActorInvariant, PTL DEF IInv

(* A coroutine that timed out on its runtime, or closed it, has returned    *)
(* only after the actor ended (open_runtime, _abort, close).                *)
THEOREM StopsInTime == Spec => []StoppedWhenTimedOut
  BY ActorInvariant, PTL DEF IInv

(* A shutdown that is not interrupted leaves no process behind              *)
(* (_shutdown_process).                                                     *)
THEOREM ShutdownReaps == Spec => UndisturbedReaps
  <1>1. IInv /\ [Next]_vars =>
          [phase = "closing_streams" /\ phase' = "done" => process = "exited"]_vars
    BY DEF IInv
  <1> QED BY <1>1, ActorInvariant, PTL DEF Spec, UndisturbedReaps

-----------------------------------------------------------------------------
(* The actor implements CommandChannel *)

LEMMA LineIs ==
  ASSUME IInv
  PROVE  /\ Line \in Seq(Command)
         /\ handled = None => Line = queue
         /\ handled # None => /\ Line # <<>> /\ Len(Line) = Len(queue) + 1
                              /\ Head(Line) = handled /\ Tail(Line) = queue
                              /\ Line[1] = handled
                              /\ \A i \in 1 .. Len(queue) : Line[i + 1] = queue[i]
  <1>1. queue \in Seq(Command) /\ (handled # None => handled \in Command)
    BY DEF IInv, TypeOK, Command
  <1>2. CASE handled = None
    BY <1>1, <1>2, ConcatEmptySeq DEF Line
  <1>3. CASE handled # None
    <2>1. Line = <<handled>> \o queue
      BY <1>3 DEF Line
    <2> QED BY <1>1, <1>3, <2>1
  <1> QED BY <1>2, <1>3

LEMMA FateSettled ==
  ASSUME TypeOK, NEW w \in Command, NEW result \in {"answer", "error", "cancelled"},
         future' = Settled(w, result)
  PROVE  Channel!Decided({w}, result)
  <1>1. \A c \in Command : /\ c \in Waiter
                           /\ future'[c] = IF c = w /\ future[c] = "pending"
                                           THEN result ELSE future[c]
    BY SettledFuture, CommandsWait
  <1> QED BY <1>1 DEF Channel!Decided, Channel!Command, Command, Fate

LEMMA FateFailed ==
  ASSUME IInv, future' = Failed(queue)
  PROVE  \E first \in {1, 2} :
           /\ first = 2 => handled # None
           /\ Channel!Decided({Line[i] : i \in first .. Len(Line)}, "error")
  <1>1. PICK first \in {1, 2} : first = (IF handled = None THEN 1 ELSE 2)
    OBVIOUS
  <1>2. queue \in Seq(Command)
    BY DEF IInv, TypeOK, Command
  <1>3. PICK waiting : waiting = {Line[i] : i \in first .. Len(Line)}
    OBVIOUS
  <1>4. \A c : c \in waiting <=> \E i \in DOMAIN queue : queue[i] = c
    <2>1. CASE handled = None
      <3>1. first = 1 /\ Line = queue
        BY <1>1, <2>1, LineIs
      <3> QED BY <1>2, <1>3, <3>1
    <2>2. CASE handled # None
      <3>1. first = 2 /\ Len(Line) = Len(queue) + 1 /\ Len(queue) \in Nat
            /\ \A i \in 1 .. Len(queue) : Line[i + 1] = queue[i]
        BY <1>1, <1>2, <2>2, LineIs
      <3>2. ASSUME NEW i \in 2 .. Len(Line) PROVE i - 1 \in 1 .. Len(queue) /\ Line[i] = queue[i - 1]
        <4>1. i - 1 \in 1 .. Len(queue) /\ (i - 1) + 1 = i
          BY <3>1, <3>2
        <4> QED BY <3>1, <4>1
      <3>3. ASSUME NEW i \in 1 .. Len(queue) PROVE i + 1 \in 2 .. Len(Line)
        BY <3>1, <3>3
      <3>4. DOMAIN queue = 1 .. Len(queue)
        BY <1>2
      <3>5. ASSUME NEW c \in waiting PROVE \E i \in DOMAIN queue : queue[i] = c
        <4>1. PICK i \in 2 .. Len(Line) : Line[i] = c
          BY <1>3, <3>1
        <4> QED BY <3>2, <3>4, <4>1
      <3>6. ASSUME NEW i \in DOMAIN queue PROVE queue[i] \in waiting
        <4>1. i + 1 \in 2 .. Len(Line) /\ Line[i + 1] = queue[i]
          BY <3>1, <3>3, <3>4
        <4> QED BY <1>3, <3>1, <4>1
      <3> QED BY <3>5, <3>6
    <2> QED BY <2>1, <2>2
  <1>5. \A c \in Command :
          future'[c] = IF c \in waiting /\ future[c] = "pending" THEN "error" ELSE future[c]
    BY <1>4, CommandsWait DEF Failed
  <1>6. Channel!Decided({Line[i] : i \in first .. Len(Line)}, "error")
    BY <1>3, <1>5 DEF Channel!Decided, Channel!Command, Command, Fate
  <1>7. first = 2 => handled # None
    BY <1>1
  <1> WITNESS first \in {1, 2}
  <1> QED BY <1>6, <1>7

LEMMA ChannelInit == Init => Channel!Init
  <1> SUFFICES ASSUME Init PROVE Channel!Init
    OBVIOUS
  <1>1. Line = <<>>
    BY ConcatEmptySeq, EmptySeq DEF Init, Line
  <1>2. Fate = [c \in Command |-> "none"]
    BY CommandsWait DEF Init, Fate, Command
  <1> QED BY <1>1, <1>2
          DEF Init, Channel!Init, Channel!Command, Command, Accepting, Broken, Unwinding

Still == UNCHANGED <<Line, Fate, Accepting, Broken>>

LEMMA ChannelEnd ==
  ASSUME IInv, End
  PROVE  Channel!Finish
  <1>1. /\ phase' = "done" /\ queue' = <<>> /\ handled' = None /\ future' = Failed(queue)
    BY DEF End
  <1>2. Line' = <<>> /\ Accepting' = FALSE /\ Broken' = TRUE
    BY <1>1, ConcatEmptySeq, EmptySeq DEF Line, Accepting, Broken
  <1>3. handled # None => ~Broken
    BY DEF IInv, Broken, Unwinding
  <1> QED BY <1>1, <1>2, <1>3, FateFailed DEF Channel!Finish

LEMMA ChannelBreak ==
  ASSUME IInv, Up, Unwind(queue, future)
  PROVE  Channel!Break
  <1>1. /\ phase' = "closing_stdin" /\ queue' = queue /\ handled' = None
        /\ UNCHANGED <<future, closed>>
    BY DEF Unwind
  <1>2. Line' = queue
    BY <1>1, ConcatEmptySeq DEF Line, IInv, TypeOK
  <1>3. Fate' = Fate /\ Accepting' = Accepting /\ Broken' = TRUE /\ ~Broken
    BY <1>1 DEF Fate, Accepting, Broken, Unwinding, Up
  <1> QED BY <1>2, <1>3, LineIs DEF Channel!Break

LEMMA ChannelActor ==
  ASSUME IInv, Actor
  PROVE  Channel!Next \/ Still
  <1>t. TypeOK /\ queue \in Seq(Command)
    BY DEF IInv, TypeOK, Command
  <1>1. CASE Spawn
    BY <1>1 DEF Spawn, Still, Line, Fate, Accepting, Broken, Unwinding
  <1>2. CASE End
    BY <1>2, ChannelEnd DEF Channel!Next
  <1>3. CASE Up /\ Unwind(queue, future)
    BY <1>3, ChannelBreak DEF Channel!Next
  <1>4. CASE Handshake /\ phase' = "idle"
    <2>1. /\ phase = "handshake" /\ future' = Settled(Opener, "answer")
          /\ UNCHANGED <<handled, queue, closed>>
      BY <1>4 DEF Handshake, Unwind
    <2>2. \A c \in Command : future'[c] = future[c]
      BY <1>t, <2>1, SettledFuture, CommandsWait
    <2>3. Fate' = Fate
      BY <2>2 DEF Fate, Command
    <2> QED BY <1>4, <2>1, <2>3 DEF Still, Line, Accepting, Broken, Unwinding
  <1>5. CASE Take
    <2>1. phase = "idle" /\ queue # <<>> /\ Head(queue) \in Command /\ handled = None /\ Line = queue
      BY <1>5, <1>t, LineIs DEF Take, IInv
    <2>2. CASE Head(queue) \in Closer /\ Unwind(Tail(queue), Settled(Head(queue), "answer"))
      <3>1. /\ phase' = "closing_stdin" /\ queue' = Tail(queue) /\ handled' = None
            /\ future' = Settled(Head(queue), "answer") /\ closed' = closed
        BY <2>2 DEF Unwind
      <3>2. Line' = Tail(Line)
        BY <1>t, <2>1, <3>1, ConcatEmptySeq DEF Line
      <3>3. Channel!Decided({Head(Line)}, "answer")
        BY <1>t, <2>1, <3>1, FateSettled
      <3>4. ~Broken /\ Broken' = TRUE /\ Accepting' = Accepting
        BY <2>1, <3>1 DEF Broken, Accepting, Unwinding
      <3>5. Channel!Answer
        BY <2>1, <2>2, <3>2, <3>3, <3>4 DEF Channel!Answer
      <3> QED BY <3>5 DEF Channel!Next
    <2>3. CASE /\ Head(queue) \in Caller
               /\ phase' = "serving" /\ handled' = Head(queue) /\ queue' = Tail(queue)
               /\ UNCHANGED <<process, closed, future, waiterVars>>
      <3>1. handled' # None
        BY <2>3, WaiterAssumption DEF Waiter
      <3>2. Line' = <<Head(queue)>> \o Tail(queue)
        BY <2>3, <3>1 DEF Line
      <3>3. Line' = queue
        BY <1>t, <2>1, <3>2
      <3> QED BY <2>1, <2>3, <3>3 DEF Still, Fate, Accepting, Broken, Unwinding
    <2> QED BY <1>5, <2>2, <2>3 DEF Take
  <1>6. CASE Serve
    <2>1. PICK result \in {"answer", "error"} : future' = Settled(handled, result)
      BY <1>6 DEF Serve
    <2>2. /\ phase = "serving" /\ phase' = "idle" /\ handled' = None
          /\ UNCHANGED <<queue, closed>>
      BY <1>6 DEF Serve
    <2>3. handled # None /\ handled \in Caller /\ handled \in Command /\ handled \notin Closer
      BY <2>2, WaiterAssumption DEF IInv, TypeOK, Command
    <2>4. Line # <<>> /\ Head(Line) = handled /\ Tail(Line) = queue
      BY <2>3, LineIs
    <2>5. Line' = Tail(Line)
      BY <1>t, <2>2, <2>4, ConcatEmptySeq DEF Line
    <2>6. Channel!Decided({Head(Line)}, result)
      BY <1>t, <2>1, <2>3, <2>4, FateSettled
    <2>7. ~Broken /\ Broken' = FALSE /\ Accepting' = Accepting
      BY <2>2 DEF Broken, Accepting, Unwinding
    <2>8. Broken' = (Head(Line) \in Closer)
      BY <2>2, <2>3, <2>4 DEF Broken, Unwinding
    <2>9. Head(Line) \in Caller
      BY <2>3, <2>4
    <2>10. Channel!Answer
      BY <2>9, <2>4, <2>5, <2>6, <2>7, <2>8 DEF Channel!Answer
    <2> QED BY <2>10 DEF Channel!Next
  <1>7. CASE CloseStdin \/ Exited \/ GraceOver \/ Terminate \/ Kill
    <2>1. /\ Unwinding /\ phase # "done"
          /\ Unwinding' /\ phase' # "done"
          /\ UNCHANGED <<handled, queue, closed, future>>
      BY <1>7 DEF CloseStdin, Exited, GraceOver, Terminate, Kill, Unwinding
    <2> QED BY <2>1 DEF Still, Line, Fate, Accepting, Broken
  <1>8. CASE Handshake /\ phase' # "idle"
    BY <1>3, <1>8 DEF Handshake, Up
  <1> QED BY <1>1, <1>2, <1>3, <1>4, <1>5, <1>6, <1>7, <1>8
          DEF Actor, SpawnFails, HandshakeFails, Interrupt, TransportFails, Shutdown, Ended, Up

LEMMA ChannelSend ==
  ASSUME IInv, NEW w \in Command, pc[w] = "new", ~closed, phase # "done", Send(w),
         closed' <=> w \in Closer
  PROVE  Channel!Accept(w)
  <1>1. /\ queue' = Append(queue, w) /\ future' = [future EXCEPT ![w] = "pending"]
        /\ UNCHANGED <<phase, handled>>
    BY DEF Send
  <1>2. queue \in Seq(Command) /\ w \in Waiter
        /\ future \in [Waiter -> {"none", "pending", "answer", "error", "cancelled"}]
    BY CommandsWait DEF IInv, TypeOK, Command
  <1>3. Line' = Append(Line, w)
    <2>1. CASE handled = None
      <3>1. Line = queue /\ Line' = <<>> \o queue'
        BY <1>1, <2>1, LineIs DEF Line
      <3>2. queue' \in Seq(Command)
        BY <1>1, <1>2
      <3> QED BY <1>1, <3>1, <3>2, ConcatEmptySeq
    <2>2. CASE handled # None
      <3>1. Line = <<handled>> \o queue /\ Line' = <<handled>> \o Append(queue, w)
        BY <1>1, <2>2 DEF Line
      <3>2. handled \in Command
        BY <2>2 DEF IInv, TypeOK, Command
      <3> QED BY <1>2, <3>1, <3>2
    <2> QED BY <2>1, <2>2
  <1>4. Fate[w] = "none"
    BY <1>2 DEF IInv, Unasked, Fate, Command
  <1>5. Fate' = [Fate EXCEPT ![w] = "pending"]
    <2>1. \A c \in Command : future'[c] = IF c = w THEN "pending" ELSE future[c]
      BY <1>1, <1>2, CommandsWait
    <2> QED BY <2>1 DEF Fate, Command
  <1>6. Accepting /\ Accepting' = (w \notin Closer) /\ Broken' = Broken
    BY <1>1 DEF Accepting, Broken, Unwinding
  <1> QED BY <1>3, <1>4, <1>5, <1>6 DEF Channel!Accept

LEMMA ChannelGiveUp ==
  ASSUME IInv, NEW w \in Waiter, UNCHANGED actorVars, future' = Settled(w, "cancelled"),
         closed' = (closed \/ w # Opener) \/ closed' = closed
  PROVE  Channel!Next \/ Still
  <1>1. UNCHANGED <<phase, handled, queue>> /\ TypeOK
    BY DEF actorVars, IInv
  <1>2. Line' = Line /\ Broken' = Broken
    BY <1>1 DEF Line, Broken, Unwinding
  <1>3. CASE w = Opener
    <2>1. \A c \in Command : future'[c] = future[c]
      BY <1>1, <1>3, SettledFuture, CommandsWait
    <2>2. Fate' = Fate
      BY <2>1 DEF Fate, Command
    <2>3. closed' = closed
      BY <1>1, <1>3 DEF TypeOK
    <2> QED BY <1>1, <1>2, <2>2, <2>3 DEF Still, Accepting
  <1>4. CASE w # Opener
    <2>1. w \in Command
      BY <1>4 DEF Waiter, Command
    <2>2. Accepting' \in {Accepting, FALSE}
      <3>1. closed' = TRUE \/ closed' = closed
        BY <1>4
      <3>2. closed' = TRUE => Accepting' = FALSE
        BY DEF Accepting
      <3>3. closed' = closed => Accepting' = Accepting
        BY <1>1 DEF Accepting
      <3> QED BY <3>1, <3>2, <3>3
    <2>3. Channel!GiveUp(w)
      BY <1>1, <1>2, <2>1, <2>2, FateSettled DEF Channel!GiveUp
    <2> QED BY <2>1, <2>3 DEF Channel!Next, Channel!Command, Command
  <1> QED BY <1>3, <1>4

LEMMA ChannelWaiter ==
  ASSUME IInv, NEW w \in Waiter, Step(w)
  PROVE  Channel!Next \/ Still
  <1>1. ASSUME UNCHANGED <<actorVars, future>>, Accepting' = Accepting
        PROVE  Still
    BY <1>1 DEF actorVars, Still, Line, Fate, Broken, Unwinding
  <1>2. ASSUME UNCHANGED <<actorVars, future, closed>>
        PROVE  Still
    BY <1>1, <1>2 DEF actorVars, Accepting
  <1>3. CASE Submit(w)
    <2>1. CASE ~closed /\ phase # "done" /\ Send(w)
      <3>1. w \in Command /\ pc[w] = "new" /\ w \notin Closer /\ ~closed'
        BY <1>3, <2>1, WaiterAssumption DEF Submit, Command
      <3>2. Channel!Accept(w)
        BY <2>1, <3>1, ChannelSend
      <3> QED BY <3>1, <3>2 DEF Channel!Next, Channel!Command, Command
    <2>2. CASE UNCHANGED <<actorVars, cancelling, future, scope>>
      BY <1>2, <1>3, <2>2 DEF Submit
    <2> QED BY <1>3, <2>1, <2>2 DEF Submit
  <1>4. CASE Close(w)
    <2>1. CASE ~closed /\ phase # "done" /\ Send(w)
      <3>1. w \in Command /\ pc[w] = "new" /\ w \in Closer /\ closed' = TRUE
        BY <1>4 DEF Close, Command
      <3>2. Channel!Accept(w)
        BY <2>1, <3>1, ChannelSend
      <3> QED BY <3>1, <3>2 DEF Channel!Next, Channel!Command, Command
    <2>2. CASE (closed \/ phase = "done") /\ UNCHANGED <<actorVars, cancelling, future, scope>>
      <3>1. Accepting' = FALSE /\ Accepting = FALSE
        BY <1>4, <2>2 DEF Close, Accepting
      <3> QED BY <1>1, <2>2, <3>1
    <2> QED BY <1>4, <2>1, <2>2 DEF Close
  <1>5. CASE Resume(w) \/ Drained(w) \/ CancelAgain(w)
    BY <1>2, <1>5 DEF Resume, Drained, CancelAgain
  <1>6. CASE TimeOut(w)
    BY <1>6, ChannelGiveUp DEF TimeOut
  <1>7. CASE HostCancel(w)
    <2>1. UNCHANGED <<actorVars, closed>> /\ (future' = Settled(w, "cancelled") \/ future' = future)
      BY <1>7 DEF HostCancel
    <2> QED BY <1>2, <2>1, ChannelGiveUp
  <1> QED BY <1>3, <1>4, <1>5, <1>6, <1>7 DEF Step

LEMMA ChannelStep ==
  ASSUME IInv, [Next]_vars
  PROVE  [Channel!Next]_<<Line, Fate, Accepting, Broken>>
  <1>1. CASE ProcessExits \/ UNCHANGED vars
    BY <1>1 DEF ProcessExits, vars, actorVars, Line, Fate, Accepting, Broken, Unwinding
  <1>2. CASE Actor
    BY <1>2, ChannelActor DEF Still
  <1>3. CASE \E w \in Waiter : Step(w)
    BY <1>3, ChannelWaiter DEF Still
  <1> QED BY <1>1, <1>2, <1>3 DEF Next

(* Commands are answered in the order they were accepted, each once; a      *)
(* session that unwinds answers nothing more and at its end fails what      *)
(* waits; nothing is accepted behind a close (_run_runtime).                *)
THEOREM ActorKeepsPromise == Spec => ServedAsPromised
  <1>1. IInv /\ [Next]_vars => [Channel!Next]_<<Line, Fate, Accepting, Broken>>
    BY ChannelStep
  <1> QED BY <1>1, ChannelInit, ActorInvariant, PTL DEF Spec, ServedAsPromised, Channel!Spec

=============================================================================
