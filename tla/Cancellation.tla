---------------------------- MODULE Cancellation ----------------------------
(***************************************************************************)
(* The lifecycle when clients cancel their requests.  The host's           *)
(* notification cancels the scope a request runs in: the await it is       *)
(* suspended in raises CancelledError, which the handlers, written for     *)
(* Exception, do not catch, and so does every await that suspends on the   *)
(* way out, those of the finally blocks included.                          *)
(*                                                                         *)
(* A bootstrap under way is left behind; that actor is RuntimeActor's.     *)
(***************************************************************************)
EXTENDS Lifecycle, SequencesExt

CONSTANTS
  Cancellable,   \* the operations whose clients cancel them
  MaxInFlight    \* bound: calls counted in while another is cancelled

(* The request has returned, though its command may still be in a queue.    *)
Gone == [Idle EXCEPT !.pc = "gone", !.sig = "cancelled"]

Left(t) == task' = [task EXCEPT ![t] = Gone]

CanBeCancelled(t) ==
  /\ task[t].op \in Cancellable
  /\ task[t].op = "call" => inFlight[task[t].ns] <= MaxInFlight

Inside(t) ==
  \/ task[t].pc \in {"opening", "probing"}
  \/ task[t].pc = "closing" /\ task[t].op # "call"

(* The lock is held across an await.  One that is only being handed on is   *)
(* as good as free, and a wait for it is not cancelled.                     *)
Taken(n) == lockOf[n] # None /\ lockq[lockOf[n]] # <<>> /\ Inside(Head(lockq[lockOf[n]]))

(* A wait for the lock is over: the waiter is taken out of the queue.       *)
Withdrawn(t) == [l \in Lock |-> RemoveFirst(lockq[l], t)]

(* The finally block of call_mounted_tool: a free lock is taken without     *)
(* suspending, and the call counted out; a wait for it is cancelled again.  *)
CountedOut(n) ==
  inFlight' = IF Taken(n) THEN inFlight
              ELSE [inFlight EXCEPT ![n] = IF @ = 0 THEN 0 ELSE @ - 1]

-----------------------------------------------------------------------------
(* Waiting for the lock, to begin or to be counted out. *)
CancelWaiting(t) ==
  /\ CanBeCancelled(t)
  /\ task[t].pc \in {"entering", "finishing"}
  /\ ~HasLock(t) /\ Taken(task[t].ns)
  /\ lockq' = Withdrawn(t)
  /\ Left(t)
  /\ UNCHANGED <<fileVars, lockOf, transportVars, boot>>

(* Inside the section, waiting for a new runtime or an answer to a probe:   *)
(* what was written before the wait stays as it is.                         *)
CancelInside(t) ==
  /\ CanBeCancelled(t)
  /\ \/ task[t].pc = "opening"
     \/ task[t].pc = "probing" /\ task[t].sig = None
  /\ Release(t)
  /\ Left(t)
  /\ UNCHANGED <<fileVars, lockOf, transportVars, boot>>

CancelCall(t) ==
  /\ CanBeCancelled(t)
  /\ task[t].pc = "calling"
  /\ task[t].sig = None
  /\ CountedOut(task[t].ns)
  /\ Left(t)
  /\ UNCHANGED <<fileVars, lockVars, mounted, runtime, boot>>

CancelClosingPolitely(t) ==   \* mutation: the actor is waited for, not cancelled
  /\ CanBeCancelled(t)
  /\ \/ task[t].pc = "closing" /\ task[t].sig # "cancelled"
     \/ task[t].pc \in {"calling", "probing"} /\ task[t].sig = "timeout"
  /\ task' = [task EXCEPT ![t].sig = "cancelled"]
  /\ UNCHANGED <<fileVars, lockVars, transportVars, boot>>

CancelClosingCounted(t) ==   \* mutation: counted out before the actor has ended
  /\ CanBeCancelled(t)
  /\ \/ task[t].pc = "closing" /\ task[t].sig # "cancelled"
     \/ task[t].pc \in {"calling", "probing"} /\ task[t].sig = "timeout"
  /\ runtime' = [runtime EXCEPT ![task[t].rt].state = IF @ = "down" THEN @ ELSE "aborting"]
  /\ task' = [task EXCEPT ![t].sig = "cancelled"]
  /\ IF task[t].op = "call" THEN CountedOut(task[t].ns) ELSE UNCHANGED inFlight
  /\ UNCHANGED <<fileVars, lockVars, mounted, boot>>

(* close() and _abort() go on to wait for the actor, and that wait, when it *)
(* is cancelled, cancels the actor.                                         *)
CancelClosing(t) ==
  /\ CanBeCancelled(t)
  /\ \/ task[t].pc = "closing" /\ task[t].sig # "cancelled"
     \/ task[t].pc \in {"calling", "probing"} /\ task[t].sig = "timeout"
  /\ runtime' = [runtime EXCEPT ![task[t].rt].state = IF @ = "down" THEN @ ELSE "aborting"]
  /\ task' = [task EXCEPT ![t].sig = "cancelled"]
  /\ UNCHANGED <<fileVars, lockVars, mounted, inFlight, boot>>

CancelledKeepingLock(t) ==   \* mutation: the lock is not released on the way out
  /\ task[t].sig = "cancelled"
  /\ task[t].pc # "gone"
  /\ runtime[task[t].rt] = Down
  /\ \/ task[t].op = "call" /\ CountedOut(task[t].ns) /\ UNCHANGED lockq
     \/ task[t].op # "call" /\ UNCHANGED <<lockq, inFlight>>
  /\ Left(t)
  /\ UNCHANGED <<fileVars, lockOf, mounted, runtime, boot>>

Cancelled(t) ==
  /\ task[t].sig = "cancelled"
  /\ task[t].pc # "gone"
  /\ runtime[task[t].rt] = Down
  /\ \/ task[t].op = "call" /\ CountedOut(task[t].ns) /\ UNCHANGED lockq
     \/ task[t].op # "call" /\ Release(t) /\ UNCHANGED inFlight
  /\ Left(t)
  /\ UNCHANGED <<fileVars, lockOf, mounted, runtime, boot>>

(* The actor handles a command nobody waits for.                            *)
ServeAbandoned(r) ==
  /\ runtime[r].state \in {"up", "closing"}
  /\ runtime[r].queue # <<>>
  /\ task[Head(runtime[r].queue)].pc = "gone"
  /\ runtime' = [runtime EXCEPT ![r].queue = Tail(@)]
  /\ UNCHANGED <<fileVars, lockVars, mounted, inFlight, boot, task>>

Forgotten(t) ==
  /\ task[t].pc = "gone"
  /\ \A r \in Runtime : \A i \in DOMAIN runtime[r].queue : runtime[r].queue[i] # t
  /\ task' = [task EXCEPT ![t] = Idle]
  /\ UNCHANGED <<fileVars, lockVars, transportVars, boot>>

Cancel(t) == CancelWaiting(t) \/ CancelInside(t) \/ CancelCall(t) \/ CancelClosing(t)

CancellableNext ==
  \/ Next
  \/ \E t \in Task : Cancel(t) \/ Cancelled(t) \/ Forgotten(t)
  \/ \E r \in Runtime : ServeAbandoned(r)

CancellableSpec == Init /\ [][CancellableNext]_vars

(* As for Lifecycle; a cancelled wait ends.                                 *)
CancellableFairSpec ==
  /\ CancellableSpec
  /\ \A t \in Task :
       WF_vars(BootRestore(t) \/ Section(t) \/ Call(t) \/ TimeOut(t)
               \/ Cancelled(t) \/ Forgotten(t))
  /\ \A r \in Runtime : WF_vars(Unwind(r))
=============================================================================
