---------------------------- MODULE RuntimeActor ----------------------------
(***************************************************************************)
(* One runtime actor of toolbox/transport_manager.py from its start to its *)
(* end: the task that owns a downstream session, the command queue, the    *)
(* coroutines that await its futures, their timers, and the shutdown of    *)
(* the downstream process in toolbox/stdio_transport.py.                   *)
(*                                                                         *)
(* Lifecycle.tla has many such actors and knows of each only whether it is *)
(* up, closing, aborting or down; here one of them is looked into.         *)
(***************************************************************************)
EXTENDS Naturals, Sequences, FiniteSets

CONSTANTS
  None,
  Opener,    \* the coroutine in open_runtime; its future is bootstrap_future
  Caller,    \* coroutines in call_tool or probe
  Closer,    \* coroutines in close
  Fault      \* "cancel": the host cancels requests; "transport": a stream
             \* task of stdio_client raises; "exit": the server exits unasked

Waiter == {Opener} \cup Caller \cup Closer

ASSUME WaiterAssumption ==
  /\ Opener \notin Caller \cup Closer
  /\ Caller \cap Closer = {}
  /\ None \notin Waiter

VARIABLES
  phase,       \* where the actor's coroutine is suspended
  process,     \* the downstream process
  cancelling,  \* task.cancel() was called, CancelledError not yet thrown
  closed,      \* ManagedToolsetRuntime._closed
  queue,       \* the commands, each named by the coroutine that sent it
  handled,     \* the command whose future is current_future
  future,      \* of each waiter's future
  pc,          \* of each waiter, where it is or how it returned
  scope        \* the waiters whose cancel scope the host has cancelled

actorVars == <<phase, process, handled, queue>>
waiterVars == <<pc, scope>>
vars == <<actorVars, cancelling, closed, future, waiterVars>>

(* The downstream session is in use. *)
Up == phase \in {"handshake", "idle", "serving"}

(* The steps of _shutdown_process, each suspended in an await. *)
Unwinding ==
  phase \in {"closing_stdin", "grace", "terminating", "last_grace", "killing",
             "closing_streams"}

-----------------------------------------------------------------------------
(* The actor's end: its finally block fails the bootstrap future and the    *)
(* queued commands.  current_future is None again by now.                   *)
Failed(queued) ==
  [w \in Waiter |->
     IF future[w] = "pending" /\ (w = Opener \/ \E i \in DOMAIN queued : queued[i] = w)
     THEN "error" ELSE future[w]]

End ==
  /\ phase' = "done"
  /\ queue' = <<>>
  /\ handled' = None
  /\ cancelling' = FALSE
  /\ future' = Failed(queue)
  /\ UNCHANGED <<process, closed, waiterVars>>

(* The exit stack starts to unwind; a command in progress loses its future. *)
Unwind(left, settled) ==
  /\ phase' = "closing_stdin"
  /\ handled' = None
  /\ queue' = left
  /\ future' = settled
  /\ UNCHANGED <<process, closed, waiterVars>>

Settled(w, result) ==
  [future EXCEPT ![w] = IF @ = "pending" THEN result ELSE @]

-----------------------------------------------------------------------------
(* The actor's coroutine.  While a cancellation is pending, what it resumes *)
(* with is CancelledError.                                                  *)

Spawn ==
  /\ phase = "spawning" /\ ~cancelling
  /\ phase' = "handshake"
  /\ process' = "running"
  /\ UNCHANGED <<handled, queue, cancelling, closed, future, waiterVars>>

SpawnFails == phase = "spawning" /\ ~cancelling /\ End

(* initialize and list_tools are answered and the inventory is valid.  A    *)
(* bootstrap future nobody awaits any more refuses the result.              *)
Handshake ==
  /\ phase = "handshake" /\ ~cancelling
  /\ \/ /\ future[Opener] = "pending"
        /\ phase' = "idle"
        /\ future' = Settled(Opener, "answer")
        /\ UNCHANGED <<process, handled, queue, closed, waiterVars>>
     \/ future[Opener] # "pending" /\ Unwind(queue, future)
  /\ UNCHANGED cancelling

HandshakeFails ==
  /\ phase = "handshake" /\ ~cancelling
  /\ Unwind(queue, future)
  /\ UNCHANGED cancelling

(* mutation: the newest command is taken first *)
TakeNewest ==
  /\ phase = "idle" /\ ~cancelling
  /\ queue # <<>>
  /\ \/ /\ queue[Len(queue)] \in Closer
        /\ Unwind(SubSeq(queue, 1, Len(queue) - 1), Settled(queue[Len(queue)], "answer"))
     \/ /\ queue[Len(queue)] \in Caller
        /\ phase' = "serving"
        /\ handled' = queue[Len(queue)]
        /\ queue' = SubSeq(queue, 1, Len(queue) - 1)
        /\ UNCHANGED <<process, closed, future, waiterVars>>
  /\ UNCHANGED cancelling

(* queue.get(): a close command is answered and ends the actor. *)
Take ==
  /\ phase = "idle" /\ ~cancelling
  /\ queue # <<>>
  /\ \/ /\ Head(queue) \in Closer
        /\ Unwind(Tail(queue), Settled(Head(queue), "answer"))
     \/ /\ Head(queue) \in Caller
        /\ phase' = "serving"
        /\ handled' = Head(queue)
        /\ queue' = Tail(queue)
        /\ UNCHANGED <<process, closed, future, waiterVars>>
  /\ UNCHANGED cancelling

(* The session's answer, or its error, goes to the future if that is still  *)
(* awaited.                                                                 *)
Serve ==
  /\ phase = "serving" /\ ~cancelling
  /\ \E result \in {"answer", "error"} : future' = Settled(handled, result)
  /\ phase' = "idle"
  /\ handled' = None
  /\ UNCHANGED <<process, queue, cancelling, closed, waiterVars>>

(* CancelledError is thrown.  It unwinds the session, and a second one      *)
(* interrupts the unwinding: _shutdown_process catches TimeoutError only.   *)
Interrupt ==
  /\ cancelling
  /\ \/ phase = "spawning" /\ End
     \/ Up /\ Unwind(queue, future) /\ cancelling' = FALSE
     \/ Unwinding /\ End

(* A stream task raises.  The task group is cancelled, and in a cancelled   *)
(* scope every await of _shutdown_process is cancelled again.               *)
TransportFails ==
  /\ "transport" \in Fault
  /\ Up \/ Unwinding
  /\ End

-----------------------------------------------------------------------------
(* _shutdown_process *)

CloseStdin ==
  /\ phase = "closing_stdin" /\ ~cancelling
  /\ phase' = "grace"
  /\ UNCHANGED <<process, handled, queue, cancelling, closed, future, waiterVars>>

(* process.wait() returns within the grace period. *)
Exited ==
  /\ phase \in {"grace", "last_grace"} /\ ~cancelling
  /\ process = "exited"
  /\ phase' = "closing_streams"
  /\ UNCHANGED <<process, handled, queue, cancelling, closed, future, waiterVars>>

(* mutation: the last grace period is not followed by a kill *)
GraceOverOnce ==
  /\ phase \in {"grace", "last_grace"} /\ ~cancelling
  /\ process = "running"
  /\ phase' = IF phase = "grace" THEN "terminating" ELSE "closing_streams"
  /\ UNCHANGED <<process, handled, queue, cancelling, closed, future, waiterVars>>

GraceOver ==
  /\ phase \in {"grace", "last_grace"} /\ ~cancelling
  /\ process = "running"
  /\ phase' = IF phase = "grace" THEN "terminating" ELSE "killing"
  /\ UNCHANGED <<process, handled, queue, cancelling, closed, future, waiterVars>>

(* The process tree is asked to terminate, and may ignore it. *)
Terminate ==
  /\ phase = "terminating" /\ ~cancelling
  /\ phase' = "last_grace"
  /\ process' \in {process, "exited"}
  /\ UNCHANGED <<handled, queue, cancelling, closed, future, waiterVars>>

Kill ==
  /\ phase = "killing" /\ ~cancelling
  /\ phase' = "closing_streams"
  /\ process' = "exited"
  /\ UNCHANGED <<handled, queue, cancelling, closed, future, waiterVars>>

Ended == phase = "closing_streams" /\ ~cancelling /\ End

(* The process exits: when its stdin closes, or of itself. *)
ProcessExits ==
  /\ process = "running"
  /\ Up => "exit" \in Fault
  /\ process' = "exited"
  /\ UNCHANGED <<phase, handled, queue, cancelling, closed, future, waiterVars>>

-----------------------------------------------------------------------------
(* The coroutines that use the actor.  Returns are in the past tense.       *)

Moved(w, place) == pc' = [pc EXCEPT ![w] = place]

Send(w) ==
  /\ queue' = Append(queue, w)
  /\ future' = [future EXCEPT ![w] = "pending"]
  /\ Moved(w, "waiting")
  /\ UNCHANGED <<phase, process, handled, cancelling, scope>>

(* call_tool and probe.  is_running says nothing of an actor that unwinds.  *)
Submit(w) ==
  /\ w \in Caller
  /\ pc[w] = "new" /\ pc[Opener] = "answered"
  /\ \/ ~closed /\ phase # "done" /\ Send(w)
     \/ /\ closed \/ phase = "done"
        /\ Moved(w, "refused")
        /\ UNCHANGED <<actorVars, cancelling, future, scope>>
  /\ UNCHANGED closed

(* close *)
Close(w) ==
  /\ w \in Closer
  /\ pc[w] = "new" /\ pc[Opener] = "answered"
  /\ closed' = TRUE
  /\ \/ ~closed /\ phase # "done" /\ Send(w)
     \/ /\ closed \/ phase = "done"
        /\ Moved(w, "draining")
        /\ UNCHANGED <<actorVars, cancelling, future, scope>>

(* The awaited future is done.  A closer, and an opener that has failed,    *)
(* still wait for the task to end.                                          *)
Resume(w) ==
  /\ pc[w] = "waiting"
  /\ \/ /\ future[w] = "answer"
        /\ Moved(w, IF w \in Closer THEN "draining" ELSE "answered")
     \/ /\ future[w] = "error"
        /\ Moved(w, IF w \in Caller THEN "failed" ELSE "draining")
  /\ UNCHANGED <<actorVars, cancelling, closed, future, scope>>

CancelTask == cancelling' = (phase # "done")

(* mutation: the task is waited for without being cancelled *)
TimeOutUncancelled(w) ==
  /\ pc[w] = "waiting"
  /\ future' = Settled(w, "cancelled")
  /\ closed' = (closed \/ w # Opener)
  /\ Moved(w, "draining")
  /\ UNCHANGED <<actorVars, cancelling, scope>>

(* wait_for expires, and the task is cancelled: open_runtime, _abort.       *)
TimeOut(w) ==
  /\ pc[w] = "waiting"
  /\ future' = Settled(w, "cancelled")
  /\ closed' = (closed \/ w # Opener)
  /\ CancelTask
  /\ Moved(w, "draining")
  /\ UNCHANGED <<actorVars, scope>>

(* mutation: the task is cancelled but not waited for *)
DrainedAtOnce(w) ==
  /\ pc[w] = "draining"
  /\ Moved(w, IF w \in Closer THEN "closed" ELSE "timed_out")
  /\ UNCHANGED <<actorVars, cancelling, closed, future, scope>>

(* _drain_task returns. *)
Drained(w) ==
  /\ pc[w] = "draining"
  /\ phase = "done"
  /\ Moved(w, IF w \in scope THEN "cancelled"
              ELSE IF future[w] = "error" THEN "failed"
              ELSE IF w \in Closer THEN "closed" ELSE "timed_out")
  /\ UNCHANGED <<actorVars, cancelling, closed, future, scope>>

(* The host cancels the request: its wait is over, but a closer goes on to  *)
(* wait for the task, and whoever waits for the task cancels it.            *)
HostCancel(w) ==
  /\ "cancel" \in Fault
  /\ w \notin scope
  /\ scope' = scope \cup {w}
  /\ \/ /\ pc[w] = "waiting"
        /\ future' = Settled(w, "cancelled")
        /\ Moved(w, IF w \in Closer THEN "draining" ELSE "cancelled")
        /\ UNCHANGED cancelling
     \/ /\ pc[w] = "draining"
        /\ CancelTask
        /\ UNCHANGED <<future, pc>>
  /\ UNCHANGED <<actorVars, closed>>

(* A cancelled scope cancels its waits again until it is left. *)
CancelAgain(w) ==
  /\ w \in scope
  /\ pc[w] = "draining" /\ phase # "done"
  /\ ~cancelling
  /\ CancelTask
  /\ UNCHANGED <<actorVars, closed, future, waiterVars>>

-----------------------------------------------------------------------------
Init ==
  /\ phase = "spawning"
  /\ process = "none"
  /\ cancelling = FALSE
  /\ closed = FALSE
  /\ queue = <<>>
  /\ handled = None
  /\ future = [w \in Waiter |-> IF w = Opener THEN "pending" ELSE "none"]
  /\ pc = [w \in Waiter |-> IF w = Opener THEN "waiting" ELSE "new"]
  /\ scope = {}

Shutdown == CloseStdin \/ Exited \/ GraceOver \/ Terminate \/ Kill \/ Ended

Actor ==
  \/ Spawn \/ SpawnFails
  \/ Handshake \/ HandshakeFails
  \/ Take \/ Serve
  \/ Interrupt \/ TransportFails
  \/ Shutdown

Step(w) ==
  \/ Submit(w) \/ Close(w)
  \/ Resume(w) \/ TimeOut(w) \/ Drained(w)
  \/ HostCancel(w) \/ CancelAgain(w)

Next == Actor \/ ProcessExits \/ \E w \in Waiter : Step(w)

Spec == Init /\ [][Next]_vars

(* The actor goes on when it can; the event loop resumes every other        *)
(* coroutine that is ready, fires its timer, and goes on cancelling the     *)
(* waits of a cancelled scope until it is left; spawning is a system call.  *)
(* The downstream server need not answer or exit.                           *)
Fairness ==
  /\ WF_vars(Spawn \/ SpawnFails \/ Take \/ Interrupt \/ Shutdown)
  /\ \A w \in Waiter :
       WF_vars(Resume(w) \/ TimeOut(w) \/ Drained(w) \/ CancelAgain(w))

FairSpec == Spec /\ Fairness
=============================================================================
