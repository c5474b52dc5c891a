------------------------ MODULE BatchRunProperties ------------------------
(***************************************************************************)
(* Properties of the batch runner (BatchRun).                              *)
(***************************************************************************)
EXTENDS BatchRun

(* The state of a batch: a batch that stepped is a valid one, the results   *)
(* are those of its first steps in order, and a call is out only while one  *)
(* of its steps is left (BatchStepResult, BatchRunResult of models.py).     *)
TypeOK ==
  /\ ids \in Batches
  /\ goOn \in BOOLEAN /\ final \in StepId \cup {None}
  /\ mounted \subseteq Tool /\ changes \in 0 .. MaxChanges
  /\ pc \in {"new", "stepping", "calling", "done"}
  /\ Len(results) <= Len(ids)
  /\ \A i \in DOMAIN results : results[i].id = ids[i] /\ results[i].failed \in BOOLEAN
  /\ pc \in {"stepping", "calling"} => IsInjective(ids) /\ Len(results) < Len(ids)
  /\ call # {} => pc = "calling"
  /\ (pc = "done") = (reply # None)

-----------------------------------------------------------------------------
(* Written apart from the code: where the paths lead in each kind of value. *)
Leads(value, path) ==
  CASE path = <<>> -> {value}
    [] value = Tree /\ path = <<"k">> -> {List(<<Number>>)}
    [] value = Tree /\ path = <<"k", "0">> -> {Number}
    [] OTHER -> {}

(* What a tool is called with comes out of results the batch may rely on:   *)
(* each reference names an earlier step that did not fail, and its value is *)
(* where the path leads in that step's answer, never a neighbour of it      *)
(* (_resolve_batch_value, _extract_batch_reference).                        *)
ProvenArguments ==
  \A used \in call :
    \E i \in DOMAIN results :
      /\ results[i].id = used.ref.step
      /\ ~results[i].failed
      /\ used.value \in Leads(Value(results[i]), used.ref.path)

(* The reply tells what happened: a success is a batch whose steps all ran  *)
(* and none failed; a batch that stopped early failed in its last step, and *)
(* only there; and the selected result is the one the host asked for or the *)
(* last one, never that of another step (run_tool_batch).                   *)
HonestReply ==
  pc = "done" /\ ~Invalid =>
    LET failures == {i \in DOMAIN results : results[i].failed} IN
    /\ reply.success <=> failures = {} /\ Len(results) = Len(ids)
    /\ reply.stopped <=> ~goOn /\ failures # {}
    /\ reply.stopped => failures = {Len(results)}
    /\ ~reply.stopped => Len(results) = Len(ids)
    /\ reply.completed = Len(results)
    /\ \A i \in DOMAIN results :
         (IF final = None THEN i = Len(results) ELSE final = results[i].id)
           => reply.data = results[i].data /\ reply.text = results[i].text

(* A batch is a composition as the host knows it: one call at a time, at    *)
(* most one per step, none after a failure unless the host asked to go on,  *)
(* and an honest verdict (Composition).                                     *)
Attempts == Len(results) + (IF pc = "calling" THEN 1 ELSE 0)
Waiting == pc = "calling"
Failed == (pc = "done" /\ Invalid) \/ \E i \in DOMAIN results : results[i].failed
Verdict == IF pc # "done" THEN "none" ELSE IF reply.success THEN "success" ELSE "failure"

Promise ==
  INSTANCE Composition WITH
    limit <- Len(ids), tolerant <- goOn, attempts <- Attempts, waiting <- Waiting,
    failed <- Failed, verdict <- Verdict

ComposesAsPromised == Promise!Spec
=============================================================================
