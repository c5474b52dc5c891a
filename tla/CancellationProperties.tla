----------------------- MODULE CancellationProperties -----------------------
(***************************************************************************)
(* What remains true of the lifecycle when clients cancel their requests   *)
(* at any await.                                                           *)
(***************************************************************************)
EXTENDS Cancellation, MCLifecycle

(* A cancelled request leaves nothing held: when no request is under way,   *)
(* every namespace lock is free, and every runtime that has not ended is    *)
(* mounted (async with in every handler, disconnect).                       *)
NothingHeld ==
  (\A t \in Task : task[t].pc \in {"idle", "gone"}) =>
    /\ \A l \in Lock : lockq[l] = <<>>
    /\ \A r \in Runtime : runtime[r] # Down => \E n \in Namespace : mounted[n] = r

(* Cancelled calls may leave the counter that guards deactivation too high  *)
(* (their finally block waits for a lock, and that wait is cancelled too),  *)
(* but never too low: no call in progress is left unprotected.              *)
NeverUndercounted ==
  \A n \in Namespace :
    inFlight[n] >= Cardinality({t \in Task : /\ task[t].ns = n
                                             /\ task[t].op = "call"
                                             /\ task[t].pc \notin {"idle", "entering"}})

(* A request returns, cancelled or not, even if no downstream server ever   *)
(* answers and its actor is busy for ever.                                  *)
EveryRequestEnds ==
  \A t \in Task : task[t].pc \notin {"idle", "gone"} ~> task[t].pc \in {"idle", "gone"}
=============================================================================
