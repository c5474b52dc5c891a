---------------------------- MODULE Compositions ----------------------------
(***************************************************************************)
(* The two requests of toolbox/server.py that compose mounted tools: a     *)
(* host makes one or the other, and both are to keep the promise of        *)
(* Composition.                                                            *)
(***************************************************************************)
EXTENDS ProgramRunProperties

CONSTANTS None, StepId, Tool, Batches, MaxChanges

ASSUME BatchesAssumption == Batches \subseteq Seq(StepId)

VARIABLES
  request,   \* "program" or "batch"
  ids, goOn, final, mounted, changes, results, call, pc, reply   \* of BatchRun

batchState == <<ids, goOn, final, mounted, changes, results, call, pc, reply>>
hostVars == <<request, vars, batchState>>

Batch == INSTANCE BatchRunProperties

-----------------------------------------------------------------------------
(* What belongs to the other kind of request is blank. *)

ProgramRequested ==
  /\ request = "program"
  /\ ids = <<>> /\ goOn = FALSE /\ final = None /\ mounted = {}
  /\ Batch!Init
  /\ Init

BatchRequested ==
  /\ request = "batch"
  /\ program = <<Simple>> /\ text = "fits"
  /\ Init
  /\ Batch!Init

HostInit == ProgramRequested \/ BatchRequested

run_tool_program == request = "program" /\ Next /\ UNCHANGED <<request, batchState>>
run_tool_batch == request = "batch" /\ Batch!Goes /\ UNCHANGED <<request, vars>>

(* Requests that change what is mounted, between the calls of a batch. *)
Meanwhile == request = "batch" /\ Batch!Remount /\ UNCHANGED <<request, vars>>

HostNext == run_tool_program \/ run_tool_batch \/ Meanwhile

HostSpec == HostInit /\ [][HostNext]_hostVars

(* The coroutine of the request goes on: a call it waits for returns or      *)
(* raises, since TransportManager bounds it with a timer.                   *)
HostFairSpec == HostSpec /\ WF_hostVars(run_tool_program \/ run_tool_batch)

-----------------------------------------------------------------------------
(* Of a batch, as BatchRunProperties states it: what a tool is called with  *)
(* is where the references lead in results that can be relied on.           *)
ProvenArguments == Batch!ProvenArguments

(* And its reply tells what happened.                                       *)
HonestReply == Batch!HonestReply

(* Programs and batches are both what the host knows a composition to be:   *)
(* one call at a time, no more than allowed, none after a failure unless    *)
(* the host asked to go on, and an honest verdict (Composition).            *)
BothCompose == ComposesAsPromised /\ Batch!ComposesAsPromised

(* The host gets its reply, whatever loops its program has and whichever    *)
(* steps of its batch fail.                                                 *)
EveryCompositionEnds == <>(Ended \/ pc = "done")
=============================================================================
