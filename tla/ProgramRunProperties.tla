----------------------- MODULE ProgramRunProperties -----------------------
(***************************************************************************)
(* Properties of the program runtime (ProgramRun).                         *)
(***************************************************************************)
EXTENDS ProgramRun

(* The interpreter's state: the frame of the module body is at the bottom   *)
(* until the program has succeeded, and the counters pass their budgets by  *)
(* no more than the iteration that is refused (ProgramRunResult).           *)
TypeOK ==
  /\ traces \in 0 .. MAX_TOOL_CALLS
  /\ iterations \in 0 .. MAX_LOOP_ITERATIONS + 1
  /\ outcome \in {"new", "running", "waiting", "success"} \cup Failure
  /\ outcome \in {"new", "running", "waiting"} => stack # <<>> /\ ~stack[1].loop
  /\ outcome = "success" => stack = <<>>
  /\ \A i \in DOMAIN stack : stack[i].items \in 0 .. MaxItems

-----------------------------------------------------------------------------
(* However loops nest and end, a program makes no more calls and begins no  *)
(* more passes than its budgets (_call_tool_builtin, _exec_for_loop).       *)
WithinBudgets == invoked <= MAX_TOOL_CALLS /\ passes <= MAX_LOOP_ITERATIONS

(* A program is a composition as the host knows it: one call at a time,     *)
(* within the budget, none after a failure, an honest verdict (Composition).*)
Ended == outcome \notin {"new", "running", "waiting"}
Waiting == outcome = "waiting"
Failed == erred \/ outcome \in Failure
Verdict == IF ~Ended THEN "none" ELSE IF outcome = "success" THEN "success" ELSE "failure"

Promise ==
  INSTANCE Composition WITH
    limit <- MAX_TOOL_CALLS, tolerant <- FALSE, attempts <- invoked, waiting <- Waiting,
    failed <- Failed, verdict <- Verdict

ComposesAsPromised == Promise!Spec

=============================================================================
