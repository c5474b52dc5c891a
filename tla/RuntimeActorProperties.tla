----------------------- MODULE RuntimeActorProperties -----------------------
(***************************************************************************)
(* What a runtime actor should guarantee to the coroutines that use it and *)
(* to the host whose process it manages.                                   *)
(***************************************************************************)
EXTENDS RuntimeActor

(* Every variable has its type. *)
TypeOK ==
  /\ phase \in {"spawning", "handshake", "idle", "serving", "closing_stdin", "grace",
                "terminating", "last_grace", "killing", "closing_streams", "done"}
  /\ process \in {"none", "running", "exited"}
  /\ cancelling \in BOOLEAN
  /\ closed \in BOOLEAN
  /\ queue \in Seq(Caller \cup Closer)
  /\ handled \in Caller \cup {None}
  /\ future \in [Waiter -> {"none", "pending", "answer", "error", "cancelled"}]
  /\ pc \in [Waiter -> {"new", "waiting", "draining", "answered", "failed", "closed",
                        "timed_out", "cancelled", "refused"}]
  /\ scope \subseteq Waiter

(* Commands are served as CommandChannel promises, though callers abandon    *)
(* them at any time and send more while the actor is already unwinding.     *)
Line == (IF handled = None THEN <<>> ELSE <<handled>>) \o queue
Fate == [c \in Caller \cup Closer |-> future[c]]
Accepting == ~closed /\ phase # "done"
Broken == Unwinding \/ phase = "done"

Channel == INSTANCE CommandChannel WITH
  line <- Line, fate <- Fate, accepting <- Accepting, broken <- Broken

ServedAsPromised == Channel!Spec

(* A coroutine that got a timeout, or that closed the runtime, returns only *)
(* when the actor has ended: no later answer can act on its behalf.         *)
StoppedWhenTimedOut ==
  \A w \in Waiter : pc[w] \in {"timed_out", "closed"} => phase = "done"

(* A shutdown that comes to its end leaves no process behind, not even one  *)
(* that ignores the end of its input and every signal but a kill: only one  *)
(* that is interrupted does (_shutdown_process).                            *)
UndisturbedReaps ==
  [][phase = "closing_streams" /\ phase' = "done" => process = "exited"]_vars

(* Every coroutine returns, even if the downstream server never answers and *)
(* its process ignores everything but a kill.                               *)
EveryWaiterReturns ==
  \A w \in Waiter :
    pc[w] \in {"waiting", "draining"} ~> pc[w] \notin {"waiting", "draining"}

=============================================================================
