------------------------- MODULE CompositionsProofs -------------------------
(***************************************************************************)
(* The requests that compose mounted tools, for any programs and batches,  *)
(* any budgets and any number of steps: programs stay within their         *)
(* budgets, the reply of a batch is honest, and both keep the promise of   *)
(* Composition.                                                            *)
(***************************************************************************)
EXTENDS Compositions, SequenceTheorems, TLAPS

-----------------------------------------------------------------------------
(* Programs.  A call that is out is not traced yet, one that raised never   *)
(* is; each pass that was begun has been counted.                           *)
ProgramInv ==
  /\ traces \in Nat /\ invoked \in Nat /\ passes \in Nat /\ iterations \in Nat
  /\ erred \in BOOLEAN
  /\ outcome \in {"new", "running", "waiting", "success"} \cup Failure
  /\ outcome \in {"new", "running"} => invoked = traces
  /\ outcome = "waiting" => invoked = traces + 1
  /\ passes <= iterations
  /\ WithinBudgets
  /\ erred => outcome \in Failure

LEMMA ProgramInit == Init => ProgramInv
  <1> SUFFICES ASSUME Init PROVE ProgramInv
    OBVIOUS
  <1>1. traces = 0 /\ invoked = 0 /\ passes = 0 /\ iterations = 0 /\ erred = FALSE /\ outcome = "new"
    BY DEF Init
  <1>2. WithinBudgets
    BY <1>1, BudgetsAssumption DEF WithinBudgets
  <1>3. passes <= iterations
    BY <1>1
  <1> QED BY <1>1, <1>2, <1>3 DEF ProgramInv

LEMMA FailingStep ==
  ASSUME ProgramInv, NEW code \in Failure, Fails(code)
  PROVE  ProgramInv'
  BY DEF Fails, ProgramInv, WithinBudgets, history, Failure

LEMMA ContinuingStep ==
  ASSUME ProgramInv, outcome = "running", Continues
  PROVE  ProgramInv'
  BY DEF Continues, ProgramInv, WithinBudgets, history

LEMMA ProgramStep ==
  ASSUME ProgramInv, [Next]_vars
  PROVE  ProgramInv'
  <1>e. outcome \in {"running", "waiting"} => erred = FALSE
    BY DEF ProgramInv, Failure
  <1>1. CASE Parse
    BY <1>1 DEF Parse, ProgramInv, WithinBudgets, history, Failure
  <1>2. CASE Raise
    BY <1>2, FailingStep DEF Raise, Failure
  <1>3. CASE Leave
    <2>1. /\ outcome = "running" /\ outcome' \in {"success", "running"}
          /\ UNCHANGED <<traces, iterations, invoked, passes, erred>>
      BY <1>3 DEF Leave, Interpreting, history
    <2> QED BY <1>e, <2>1 DEF ProgramInv, WithinBudgets
  <1>4. CASE NextItem
    BY <1>4, BudgetsAssumption
       DEF NextItem, Interpreting, ProgramInv, WithinBudgets, Failure
  <1>5. CASE DoSimple \/ DoIf \/ DoFor
    BY <1>5, ContinuingStep DEF DoSimple, DoIf, DoFor, At, Interpreting
  <1>6. CASE DoBreak \/ DoContinue
    BY <1>6, ContinuingStep, FailingStep DEF DoBreak, DoContinue, At, Interpreting, Failure
  <1>7. CASE DoCall
    <2>1. CASE Fails("budget_exceeded") \/ Fails("invalid_program")
      BY <2>1, FailingStep DEF Failure
    <2>2. CASE /\ traces < MAX_TOOL_CALLS
               /\ outcome' = "waiting" /\ invoked' = invoked + 1
               /\ UNCHANGED <<input, stack, traces, iterations, passes, erred>>
      BY <1>7, <2>2, BudgetsAssumption
         DEF DoCall, At, Interpreting, ProgramInv, WithinBudgets, Failure
    <2> QED BY <1>7, <2>1, <2>2 DEF DoCall
  <1>8. CASE Return
    <2>1. /\ outcome = "waiting" /\ traces' = traces + 1
          /\ \/ outcome' = "running" /\ erred' = FALSE
             \/ outcome' \in Failure /\ outcome' = "tool_call_failed" /\ erred' = TRUE
          /\ UNCHANGED <<iterations, invoked, passes>>
      BY <1>8, <1>e DEF Return, Failure
    <2> QED BY <2>1 DEF ProgramInv, WithinBudgets
  <1>9. CASE CallRaises
    BY <1>9 DEF CallRaises, ProgramInv, WithinBudgets, Failure
  <1>10. CASE UNCHANGED vars
    BY <1>10 DEF vars, history, ProgramInv, WithinBudgets
  <1> QED BY <1>1, <1>2, <1>3, <1>4, <1>5, <1>6, <1>7, <1>8, <1>9, <1>10
          DEF Next, Interpret

(* A program keeps Composition's promise. *)
LEMMA PromiseInit == Init => Promise!Init
  BY BudgetsAssumption
     DEF Init, Promise!Init, Waiting, Failed, Verdict, Ended, Failure

LEMMA PromiseFails ==
  ASSUME ProgramInv, outcome \in {"new", "running"}, NEW code \in Failure, outcome' = code,
         UNCHANGED <<invoked, erred>>
  PROVE  Promise!Fail
  <1>1. ~Waiting /\ Waiting' = FALSE /\ Verdict = "none" /\ Verdict' = "failure" /\ Failed' = TRUE
    BY DEF Waiting, Verdict, Ended, Failed, Failure
  <1>2. ~Failed /\ invoked' = invoked /\ invoked <= MAX_TOOL_CALLS
    BY DEF ProgramInv, Failed, Failure, WithinBudgets
  <1>3. UNCHANGED <<MAX_TOOL_CALLS, FALSE, Waiting>>
    BY <1>1 DEF Waiting
  <1> QED BY <1>1, <1>2, <1>3 DEF Promise!Fail, Promise!MayGoOn, Promise!MayEnd,
             Promise!Verdict, Promise!request

LEMMA PromiseStep ==
  ASSUME ProgramInv, [Next]_vars
  PROVE  [Promise!Next]_(Promise!vars)
  <1>e. outcome \in {"running", "waiting"} => erred = FALSE
    BY DEF ProgramInv, Failure
  <1>1. CASE /\ outcome = outcome' \/ (outcome = "new" /\ outcome' = "running")
             /\ UNCHANGED <<invoked, erred>>
    BY <1>1 DEF Promise!vars, Promise!request, Waiting, Failed, Verdict, Ended, Failure
  <1>2. CASE /\ outcome \in {"new", "running"} /\ outcome' \in Failure
             /\ UNCHANGED <<invoked, erred>>
    BY <1>2, PromiseFails DEF Promise!Next
  <1>3. CASE Leave /\ outcome' = "success"
    <2>1. outcome = "running" /\ outcome' = "success" /\ invoked' = invoked /\ erred' = erred
      BY <1>3 DEF Leave, Interpreting, history
    <2>2. /\ Waiting = FALSE /\ Waiting' = FALSE /\ Failed = FALSE /\ Failed' = FALSE
          /\ Verdict = "none" /\ Verdict' = "success"
      BY <1>e, <2>1 DEF Waiting, Verdict, Ended, Failed, Failure
    <2>3. Promise!End
      BY <2>1, <2>2 DEF Promise!End, Promise!MayGoOn, Promise!Verdict, Promise!request
    <2> QED BY <2>3 DEF Promise!Next
  <1>4. CASE DoCall /\ outcome' = "waiting"
    <2>1. /\ outcome = "running" /\ traces < MAX_TOOL_CALLS /\ invoked' = invoked + 1
          /\ erred' = erred /\ invoked = traces
      BY <1>4 DEF DoCall, Fails, At, Interpreting, ProgramInv
    <2>2. /\ Waiting = FALSE /\ Waiting' = TRUE /\ Failed = FALSE /\ Failed' = FALSE
          /\ Verdict = "none" /\ Verdict' = "none"
      BY <1>4, <1>e, <2>1 DEF Waiting, Verdict, Ended, Failed, Failure
    <2>3. Promise!Call
      BY <2>1, <2>2 DEF Promise!Call, Promise!MayGoOn, Promise!request
    <2> QED BY <2>3 DEF Promise!Next
  <1>5. CASE Return \/ CallRaises
    <2>1. /\ outcome = "waiting" /\ invoked' = invoked
          /\ \/ outcome' = "running" /\ erred' = FALSE
             \/ outcome' \in Failure /\ erred' = TRUE
      BY <1>5, <1>e DEF Return, CallRaises, Failure
    <2>2. /\ Waiting = TRUE /\ Waiting' = FALSE /\ Failed = FALSE
          /\ Verdict = "none" /\ Failed' \in {FALSE, TRUE}
          /\ Verdict' = IF Failed' THEN "failure" ELSE "none"
      BY <1>e, <2>1 DEF Waiting, Verdict, Ended, Failed, Failure
    <2>3. Promise!Answer
      BY <2>1, <2>2 DEF Promise!Answer, Promise!MayEnd, Promise!Verdict, Promise!request
    <2> QED BY <2>3 DEF Promise!Next
  <1>6. CASE Parse
    BY <1>1, <1>2, <1>6 DEF Parse, history, Failure
  <1>7. CASE Raise \/ DoCall
    BY <1>2, <1>4, <1>7 DEF Raise, DoCall, At, Interpreting, Fails, history, Failure
  <1>8. CASE Leave
    BY <1>1, <1>3, <1>8 DEF Leave, Interpreting, history
  <1>9. CASE NextItem
    BY <1>1, <1>2, <1>9 DEF NextItem, Interpreting, Failure
  <1>10. CASE DoSimple \/ DoIf \/ DoFor \/ DoBreak \/ DoContinue
    BY <1>1, <1>2, <1>10 DEF DoSimple, DoIf, DoFor, DoBreak, DoContinue, At, Interpreting,
       Continues, Fails, history, Failure
  <1>11. CASE UNCHANGED vars
    BY <1>1, <1>11 DEF vars, history
  <1> QED BY <1>5, <1>6, <1>7, <1>8, <1>9, <1>10, <1>11 DEF Next, Interpret

-----------------------------------------------------------------------------
(* Batches *)

Outcomes == {Batch!Normalized(a) : a \in Batch!Answer} \cup {Batch!Nothing}
Result ==
  [id : StepId, failed : BOOLEAN, data : {o.data : o \in Outcomes}, text : {o.text : o \in Outcomes}]

(* A batch that goes on is valid, has steps left and has no failure it was  *)
(* not asked to tolerate.                                                   *)
BatchInv ==
  /\ ids \in Seq(StepId) /\ goOn \in BOOLEAN
  /\ results \in Seq(Result)
  /\ pc \in {"new", "stepping", "calling", "done"}
  /\ \A i \in 1 .. Len(results) : i <= Len(ids) /\ results[i].id = ids[i]
  /\ pc = "new" => results = <<>>
  /\ pc \in {"stepping", "calling"} =>
       /\ ~Batch!Invalid
       /\ Len(results) < Len(ids)
       /\ \A i \in 1 .. Len(results) : results[i].failed => goOn
  /\ HonestReply

LEMMA BatchInit ==
  ASSUME Batch!Init
  PROVE  BatchInv
  <1>1. ids \in Seq(StepId) /\ goOn \in BOOLEAN /\ pc = "new" /\ results = <<>>
    BY BatchesAssumption DEF Batch!Init
  <1>2. results \in Seq(Result) /\ Len(results) = 0
    BY <1>1, EmptySeq
  <1>3. HonestReply
    BY <1>1 DEF HonestReply, Batch!HonestReply
  <1> QED BY <1>1, <1>2, <1>3 DEF BatchInv

LEMMA ReplyTells ==
  ASSUME NEW rs \in Seq(Result), rs # <<>>, NEW stopped,
         \A i, j \in 1 .. Len(rs) : rs[i].id = rs[j].id => i = j
  PROVE  /\ Batch!Reply(rs, stopped).success = \A j \in 1 .. Len(rs) : ~rs[j].failed
         /\ Batch!Reply(rs, stopped).completed = Len(rs)
         /\ Batch!Reply(rs, stopped).stopped = stopped
         /\ \A k \in 1 .. Len(rs) :
              (IF final = None THEN k = Len(rs) ELSE final = rs[k].id)
                => /\ Batch!Reply(rs, stopped).data = rs[k].data
                   /\ Batch!Reply(rs, stopped).text = rs[k].text
  <1>1. DOMAIN rs = 1 .. Len(rs) /\ Len(rs) \in 1 .. Len(rs)
    OBVIOUS
  <1>2. ASSUME NEW k \in 1 .. Len(rs),
               IF final = None THEN k = Len(rs) ELSE final = rs[k].id
        PROVE  /\ Batch!Reply(rs, stopped).data = rs[k].data
               /\ Batch!Reply(rs, stopped).text = rs[k].text
    <2>1. PICK selected : selected = IF final # None THEN final ELSE rs[Len(rs)].id
      OBVIOUS
    <2>2. {i \in 1 .. Len(rs) : rs[i].id = selected} = {k}
      BY <1>2, <2>1
    <2>3. Batch!Min({k}) = k
      BY DEF Batch!Min
    <2>4. Batch!SelectInSeq(rs, LAMBDA r : r.id = selected) = k
      BY <2>2, <2>3 DEF Batch!SelectInSeq
    <2> QED BY <2>1, <2>4 DEF Batch!Reply
  <1> QED BY <1>1, <1>2 DEF Batch!Reply

(* A step that ends: its result is the last, and the batch goes on only if  *)
(* it may.                                                                  *)
LEMMA StepEnding ==
  ASSUME BatchInv, pc \in {"stepping", "calling"}, UNCHANGED <<ids, goOn, final>>,
         NEW failed \in BOOLEAN, NEW told \in Outcomes,
         Batch!StepEnds(Batch!StepResult(Batch!Current, failed, told))
  PROVE  /\ BatchInv'
         /\ pc' \in {"stepping", "done"} /\ ~Batch!Invalid'
         /\ Len(results') = Len(results) + 1
         /\ (\E i \in DOMAIN results' : results'[i].failed)
              <=> failed \/ \E i \in DOMAIN results : results[i].failed
         /\ pc' = "done" => reply'.success = ~\E i \in DOMAIN results' : results'[i].failed
  <1>1. PICK r : r = Batch!StepResult(Batch!Current, failed, told)
    OBVIOUS
  <1>2. /\ ids \in Seq(StepId) /\ results \in Seq(Result) /\ ~Batch!Invalid
        /\ Len(results) < Len(ids) /\ goOn \in BOOLEAN
        /\ \A i \in 1 .. Len(results) : results[i].id = ids[i]
        /\ \A i \in 1 .. Len(results) : results[i].failed => goOn
    BY DEF BatchInv
  <1>3. PICK n \in Nat : n = Len(results)
    BY <1>2
  <1>4. Batch!Current = n + 1 /\ n + 1 \in 1 .. Len(ids)
    BY <1>2, <1>3 DEF Batch!Current
  <1>5. r \in Result /\ r.id = ids[n + 1] /\ r.failed = failed
    BY <1>1, <1>2, <1>4 DEF Batch!StepResult, Result
  <1>6. results' = Append(results, r)
    BY <1>1 DEF Batch!StepEnds
  <1>7. /\ results' \in Seq(Result) /\ Len(results') = n + 1
        /\ DOMAIN results = 1 .. n /\ DOMAIN results' = 1 .. n + 1
        /\ results'[n + 1] = r /\ \A i \in 1 .. n : results'[i] = results[i]
    BY <1>2, <1>3, <1>5, <1>6
  <1>8. \A i \in 1 .. n + 1 : i = n + 1 \/ i \in 1 .. n
    BY <1>3
  <1>9. \A i \in 1 .. Len(results') : i <= Len(ids) /\ results'[i].id = ids[i]
    BY <1>2, <1>3, <1>4, <1>5, <1>7, <1>8
  <1>10. (\E i \in DOMAIN results' : results'[i].failed)
           <=> failed \/ \E i \in DOMAIN results : results[i].failed
    BY <1>3, <1>5, <1>7, <1>8
  <1>11. \A i, j \in 1 .. Len(ids) : ids[i] = ids[j] => i = j
    BY <1>2 DEF Batch!Invalid
  <1>12. ~Batch!Invalid'
    BY <1>2 DEF Batch!Invalid
  <1>13. PICK stops \in BOOLEAN : stops = (failed /\ ~goOn)
    OBVIOUS
  <1>14. IF stops \/ n + 1 = Len(ids)
         THEN pc' = "done" /\ reply' = Batch!Reply(results', stops)
         ELSE pc' = "stepping" /\ UNCHANGED reply
    BY <1>1, <1>4, <1>5, <1>13 DEF Batch!StepEnds
  <1>15. CASE stops \/ n + 1 = Len(ids)
    <2>1. pc' = "done" /\ reply' = Batch!Reply(results', stops)
      BY <1>14, <1>15
    <2>2. \A i, j \in 1 .. Len(results') : results'[i].id = results'[j].id => i = j
      BY <1>4, <1>7, <1>9, <1>11
    <2>3. results' # <<>>
      BY <1>3, <1>7
    <2>r. PICK rs : rs = results'
      OBVIOUS
    <2>s. reply' = Batch!Reply(rs, stops)
      BY <2>1, <2>r
    <2>t. /\ Batch!Reply(rs, stops).success = \A j \in 1 .. Len(rs) : ~rs[j].failed
          /\ Batch!Reply(rs, stops).completed = Len(rs)
          /\ Batch!Reply(rs, stops).stopped = stops
          /\ \A k \in 1 .. Len(rs) :
               (IF final = None THEN k = Len(rs) ELSE final = rs[k].id)
                 => /\ Batch!Reply(rs, stops).data = rs[k].data
                    /\ Batch!Reply(rs, stops).text = rs[k].text
      <3>1. /\ rs \in Seq(Result) /\ rs # <<>>
            /\ \A i, j \in 1 .. Len(rs) : rs[i].id = rs[j].id => i = j
        BY <1>7, <2>2, <2>3, <2>r
      <3> QED BY <3>1, ReplyTells, ZenonT(20)
    <2>4. /\ reply'.success = \A j \in 1 .. Len(results') : ~results'[j].failed
          /\ reply'.completed = Len(results')
          /\ reply'.stopped = stops
          /\ \A k \in 1 .. Len(results') :
               (IF final = None THEN k = Len(results') ELSE final = results'[k].id)
                 => reply'.data = results'[k].data /\ reply'.text = results'[k].text
      BY <2>r, <2>s, <2>t
    <2>5. PICK failures : failures = {i \in DOMAIN results' : results'[i].failed}
      OBVIOUS
    <2>f. /\ failures \subseteq 1 .. n + 1 /\ (n + 1 \in failures <=> failed)
          /\ \A i \in 1 .. n : i \in failures <=> results[i].failed
      BY <1>3, <1>5, <1>7, <2>5
    <2>g. ~goOn => failures \subseteq {n + 1}
      BY <1>2, <1>3, <1>8, <2>f
    <2>6. stops => failures = {n + 1}
      BY <1>13, <2>f, <2>g
    <2>7. stops <=> ~goOn /\ failures # {}
      BY <1>13, <2>f, <2>g
    <2>8. ~stops => Len(results') = Len(ids)
      BY <1>7, <1>15
    <2>9. reply'.success <=> failures = {} /\ Len(results') = Len(ids)
      BY <1>7, <2>4, <2>5, <2>7, <2>8
    <2>10. HonestReply'
      BY <1>7, <2>4, <2>5, <2>6, <2>7, <2>8, <2>9 DEF HonestReply, Batch!HonestReply
    <2> QED BY <1>2, <1>3, <1>7, <1>9, <1>10, <1>12, <2>1, <2>4, <2>10 DEF BatchInv
  <1>16. CASE ~stops /\ n + 1 # Len(ids)
    <2>1. pc' = "stepping"
      BY <1>14, <1>16
    <2>2. Len(results') < Len(ids)
      BY <1>4, <1>7, <1>16, <1>2, <1>3
    <2>3. \A i \in 1 .. Len(results') : results'[i].failed => goOn
      BY <1>2, <1>3, <1>5, <1>7, <1>8, <1>13, <1>16
    <2>4. HonestReply'
      BY <2>1 DEF HonestReply, Batch!HonestReply
    <2> QED BY <1>2, <1>3, <1>7, <1>9, <1>10, <1>12, <2>1, <2>2, <2>3, <2>4 DEF BatchInv
  <1> QED BY <1>15, <1>16

LEMMA BatchStays ==
  ASSUME BatchInv, UNCHANGED <<ids, goOn, final, results, reply>>,
         pc' = pc \/ (pc \in {"stepping", "calling"} /\ pc' \in {"stepping", "calling"})
  PROVE  BatchInv'
  <1>1. HonestReply'
    BY DEF BatchInv, HonestReply, Batch!HonestReply, Batch!Invalid
  <1>2. Batch!Invalid' = Batch!Invalid
    BY DEF Batch!Invalid
  <1> QED BY <1>1, <1>2 DEF BatchInv

(* What a step of a batch that ends does to it. *)
Ending(failed) ==
  \E told \in Outcomes : Batch!StepEnds(Batch!StepResult(Batch!Current, failed, told))

LEMMA BatchCases ==
  ASSUME [HostNext]_hostVars
  PROVE  \/ Batch!Validate
         \/ pc = "stepping" /\ UNCHANGED Batch!batchVars /\ Ending(TRUE)
         \/ pc = "calling" /\ UNCHANGED Batch!batchVars /\ \E failed \in BOOLEAN : Ending(failed)
         \/ Batch!StepCalls
         \/ UNCHANGED <<Batch!batchVars, results, call, pc, reply>>
  <1>n. Batch!Nothing \in Outcomes /\ \A a \in Batch!Answer : Batch!Normalized(a) \in Outcomes
    BY DEF Outcomes
  <1>1. CASE Batch!StepFails
    <2>1. Batch!StepEnds(Batch!StepResult(Batch!Current, TRUE, Batch!Nothing))
          /\ pc = "stepping" /\ UNCHANGED Batch!batchVars
      BY <1>1 DEF Batch!StepFails
    <2> QED BY <1>n, <2>1 DEF Ending
  <1>2. CASE Batch!CallReturns
    <2>1. pc = "calling" /\ UNCHANGED Batch!batchVars
      BY <1>2 DEF Batch!CallReturns
    <2>2. CASE Batch!StepEnds(Batch!StepResult(Batch!Current, TRUE, Batch!Nothing))
      BY <1>n, <2>1, <2>2 DEF Ending
    <2>3. CASE \E a \in Batch!Answer, isError \in BOOLEAN :
                 Batch!StepEnds(Batch!StepResult(Batch!Current, isError, Batch!Normalized(a)))
      BY <1>n, <2>1, <2>3 DEF Ending
    <2> QED BY <1>2, <2>2, <2>3 DEF Batch!CallReturns
  <1>3. CASE UNCHANGED batchState
    BY <1>3 DEF batchState, Batch!batchVars
  <1>4. CASE Batch!Remount
    BY <1>4 DEF Batch!Remount
  <1> QED BY <1>1, <1>2, <1>3, <1>4
          DEF HostNext, run_tool_program, run_tool_batch, Meanwhile, hostVars, Batch!Goes

LEMMA BatchStep ==
  ASSUME BatchInv, [HostNext]_hostVars
  PROVE  BatchInv'
  <1>1. CASE Batch!Validate
    <2>1. pc = "new" /\ results = <<>> /\ UNCHANGED <<ids, goOn, final, results>>
      BY <1>1 DEF Batch!Validate, Batch!batchVars, BatchInv
    <2>2. Batch!Invalid' = Batch!Invalid
      BY <2>1 DEF Batch!Invalid
    <2>3. CASE Batch!Invalid /\ pc' = "done"
      <3>1. HonestReply'
        BY <2>2, <2>3 DEF HonestReply, Batch!HonestReply
      <3> QED BY <2>1, <2>3, <3>1 DEF BatchInv
    <2>4. CASE ~Batch!Invalid /\ pc' = "stepping"
      <3>1. HonestReply'
        BY <2>4 DEF HonestReply, Batch!HonestReply
      <3>2. Len(results) < Len(ids) /\ Len(results) = 0
        BY <2>1, <2>4 DEF BatchInv, Batch!Invalid
      <3> QED BY <2>1, <2>2, <2>4, <3>1, <3>2 DEF BatchInv
    <2> QED BY <1>1, <2>3, <2>4 DEF Batch!Validate
  <1>2. CASE /\ pc \in {"stepping", "calling"} /\ UNCHANGED Batch!batchVars
             /\ \E failed \in BOOLEAN : Ending(failed)
    BY <1>2, StepEnding DEF Ending, Batch!batchVars
  <1>3. CASE Batch!StepCalls
    BY <1>3, BatchStays DEF Batch!StepCalls, Batch!batchVars
  <1>4. CASE UNCHANGED <<Batch!batchVars, results, call, pc, reply>>
    BY <1>4, BatchStays DEF Batch!batchVars
  <1> QED BY <1>1, <1>2, <1>3, <1>4, BatchCases

(* A batch keeps Composition's promise. *)
LEMMA BatchPromiseInit == Batch!Init => Batch!Promise!Init
  <1> SUFFICES ASSUME Batch!Init PROVE Batch!Promise!Init
    OBVIOUS
  <1>1. ids \in Seq(StepId) /\ goOn \in BOOLEAN /\ pc = "new" /\ results = <<>>
    BY BatchesAssumption DEF Batch!Init
  <1> QED BY <1>1
          DEF Batch!Promise!Init, Batch!Attempts, Batch!Waiting, Batch!Failed, Batch!Verdict

LEMMA BatchPromiseStep ==
  ASSUME BatchInv, [HostNext]_hostVars
  PROVE  [Batch!Promise!Next]_(Batch!Promise!vars)
  <1>t. ids \in Seq(StepId) /\ results \in Seq(Result) /\ Len(results) \in Nat /\ Len(ids) \in Nat
    BY DEF BatchInv
  <1>1. CASE Batch!Validate
    <2>1. /\ pc = "new" /\ results = <<>> /\ UNCHANGED <<ids, goOn, results>>
          /\ \/ Batch!Invalid /\ pc' = "done" /\ reply' = Batch!Refusal
             \/ ~Batch!Invalid /\ pc' = "stepping"
      BY <1>1 DEF Batch!Validate, Batch!batchVars, BatchInv
    <2>2. /\ Batch!Attempts = 0 /\ Batch!Attempts' = 0 /\ Batch!Waiting = FALSE
          /\ Batch!Waiting' = FALSE /\ Batch!Failed = FALSE /\ Batch!Verdict = "none"
          /\ Batch!Invalid' = Batch!Invalid
      BY <2>1 DEF Batch!Attempts, Batch!Waiting, Batch!Failed, Batch!Verdict, Batch!Invalid
    <2>3. CASE Batch!Invalid
      <3>1. Batch!Failed' = TRUE /\ Batch!Verdict' = "failure"
        BY <2>1, <2>2, <2>3 DEF Batch!Failed, Batch!Verdict, Batch!Refusal
      <3>2. Batch!Attempts' <= Len(ids)
        BY <1>t, <2>2
      <3>3. Batch!Promise!Fail
        BY <2>1, <2>2, <3>1, <3>2 DEF Batch!Promise!Fail, Batch!Promise!MayGoOn,
           Batch!Promise!MayEnd, Batch!Promise!Verdict, Batch!Promise!request
      <3> QED BY <3>3 DEF Batch!Promise!Next
    <2>4. CASE ~Batch!Invalid
      <3>1. Batch!Failed' = FALSE /\ Batch!Verdict' = "none"
        BY <2>1, <2>4 DEF Batch!Failed, Batch!Verdict
      <3> QED BY <2>1, <2>2, <3>1 DEF Batch!Promise!vars, Batch!Promise!request
    <2> QED BY <2>3, <2>4
  <1>2. ASSUME NEW failed \in BOOLEAN, pc \in {"stepping", "calling"},
               UNCHANGED Batch!batchVars, Ending(failed), pc = "stepping" => failed
        PROVE  Batch!Promise!Next
    <2>1. /\ pc' \in {"stepping", "done"} /\ ~Batch!Invalid' /\ UNCHANGED <<ids, goOn>>
          /\ Len(results') = Len(results) + 1
          /\ (\E i \in DOMAIN results' : results'[i].failed)
               <=> failed \/ \E i \in DOMAIN results : results[i].failed
          /\ pc' = "done" => reply'.success = ~\E i \in DOMAIN results' : results'[i].failed
      BY <1>2, StepEnding DEF Ending, Batch!batchVars
    <2>2. /\ Batch!Failed = \E i \in DOMAIN results : results[i].failed
          /\ Batch!Failed' = \E i \in DOMAIN results' : results'[i].failed
      BY <1>2, <2>1 DEF Batch!Failed
    <2>3. /\ Batch!Failed \in BOOLEAN /\ Batch!Failed' \in BOOLEAN
          /\ Batch!Failed' <=> failed \/ Batch!Failed
          /\ Batch!Failed => goOn
      <3>1. /\ Batch!Failed \in BOOLEAN /\ Batch!Failed' \in BOOLEAN
            /\ Batch!Failed' <=> failed \/ Batch!Failed
        BY <2>1, <2>2
      <3>2. DOMAIN results = 1 .. Len(results)
        BY <1>t
      <3>3. Batch!Failed => goOn
        BY <1>2, <2>2, <3>2 DEF BatchInv
      <3> QED BY <3>1, <3>3
    <2>4. /\ Batch!Verdict = "none"
          /\ Batch!Verdict' \in {"none", IF Batch!Failed' THEN "failure" ELSE "success"}
      BY <1>2, <2>1, <2>2 DEF Batch!Verdict
    <2>5. Batch!Waiting' = FALSE /\ Batch!Attempts' = Len(results) + 1 /\ Len(results) + 1 <= Len(ids)
      BY <1>2, <1>t, <2>1 DEF Batch!Waiting, Batch!Attempts, BatchInv
    <2>6. CASE pc = "calling"
      <3>1. Batch!Waiting = TRUE /\ Batch!Attempts = Len(results) + 1
        BY <2>6 DEF Batch!Waiting, Batch!Attempts
      <3>2. Batch!Promise!Answer
        BY <2>1, <2>3, <2>4, <2>5, <3>1 DEF Batch!Promise!Answer, Batch!Promise!MayEnd,
           Batch!Promise!Verdict, Batch!Promise!request
      <3> QED BY <3>2 DEF Batch!Promise!Next
    <2>7. CASE pc = "stepping"
      <3>1. Batch!Waiting = FALSE /\ Batch!Attempts = Len(results)
        BY <1>t, <2>7 DEF Batch!Waiting, Batch!Attempts
      <3>2. failed
        BY <1>2, <2>7
      <3>3. Batch!Promise!Fail
        BY <2>1, <2>3, <2>4, <2>5, <3>1, <3>2 DEF Batch!Promise!Fail, Batch!Promise!MayGoOn,
           Batch!Promise!MayEnd, Batch!Promise!Verdict, Batch!Promise!request
      <3> QED BY <3>3 DEF Batch!Promise!Next
    <2> QED BY <1>2, <2>6, <2>7
  <1>3. CASE Batch!StepCalls
    <2>1. /\ pc = "stepping" /\ pc' = "calling" /\ UNCHANGED <<ids, goOn, results, reply>>
      BY <1>3 DEF Batch!StepCalls, Batch!batchVars
    <2>2. /\ Batch!Waiting = FALSE /\ Batch!Waiting' = TRUE /\ Batch!Verdict = "none"
          /\ Batch!Verdict' = "none" /\ Batch!Attempts = Len(results)
          /\ Batch!Attempts' = Len(results) + 1 /\ Batch!Failed' = Batch!Failed
      BY <1>t, <2>1 DEF Batch!Waiting, Batch!Verdict, Batch!Attempts, Batch!Failed, Batch!Invalid
    <2>3. Batch!Failed => goOn
      BY <1>t, <2>1 DEF BatchInv, Batch!Failed
    <2>4. Len(results) < Len(ids)
      BY <2>1 DEF BatchInv
    <2>5. Batch!Promise!Call
      BY <2>1, <2>2, <2>3, <2>4
         DEF Batch!Promise!Call, Batch!Promise!MayGoOn, Batch!Promise!request
    <2> QED BY <2>5 DEF Batch!Promise!Next
  <1>4. CASE UNCHANGED <<Batch!batchVars, results, call, pc, reply>>
    BY <1>4 DEF Batch!batchVars, Batch!Promise!vars, Batch!Promise!request, Batch!Attempts,
       Batch!Waiting, Batch!Failed, Batch!Verdict, Batch!Invalid
  <1> QED BY <1>1, <1>2, <1>3, <1>4, BatchCases

-----------------------------------------------------------------------------
(* What a tool is called with *)

(* Following a path of no, one and two tokens.  A fold is the function that  *)
(* satisfies its recursion: it exists, so it is the one that is chosen.     *)
LEMMA FollowNone ==
  ASSUME NEW v
  PROVE  Batch!FoldLeft(Batch!Descend, v, <<>>) = v
  <1> DEFINE Is(f) == f = [s \in SUBSET (DOMAIN <<>>) |->
                             IF s = {} THEN v
                             ELSE LET x == Batch!Max(s) IN Batch!Descend(f[s \ {x}], <<>>[x])]
             fold == CHOOSE f : Is(f)
  <1>1. Is([s \in SUBSET (DOMAIN <<>>) |-> v])
    OBVIOUS
  <1>2. Is(fold)
    BY <1>1
  <1> HIDE DEF fold
  <1>3. DOMAIN <<>> = {}
    OBVIOUS
  <1>4. fold[{}] = v
    BY <1>2, <1>3
  <1>5. Batch!FoldLeft(Batch!Descend, v, <<>>) = fold[DOMAIN <<>>]
    BY DEF Batch!FoldLeft, Batch!MapThenFoldSet, fold
  <1> QED BY <1>3, <1>4, <1>5

LEMMA FollowOne ==
  ASSUME NEW v, NEW path, DOMAIN path = {1}
  PROVE  Batch!FoldLeft(Batch!Descend, v, path) = Batch!Descend(v, path[1])
  <1> DEFINE Is(f) == f = [s \in SUBSET (DOMAIN path) |->
                             IF s = {} THEN v
                             ELSE LET x == Batch!Max(s) IN Batch!Descend(f[s \ {x}], path[x])]
             fold == CHOOSE f : Is(f)
  <1>m. Batch!Max({1}) = 1
    BY DEF Batch!Max
  <1>1. PICK g : g = [s \in SUBSET {1} |-> IF s = {} THEN v ELSE Batch!Descend(v, path[1])]
    OBVIOUS
  <1>2. g[{}] = v
    BY <1>1
  <1>3. ASSUME NEW s \in SUBSET {1}
        PROVE  g[s] = IF s = {} THEN v ELSE Batch!Descend(g[s \ {Batch!Max(s)}], path[Batch!Max(s)])
    <2>1. CASE s = {}
      BY <1>2, <2>1
    <2>2. CASE s # {}
      <3>1. s = {1} /\ {1} \ {1} = {}
        BY <2>2
      <3> QED BY <1>1, <1>2, <1>m, <3>1
    <2> QED BY <2>1, <2>2
  <1>4. Is(g)
    BY <1>1, <1>3
  <1>5. Is(fold)
    BY <1>4
  <1> HIDE DEF fold
  <1>6. fold[{}] = v
    BY <1>5
  <1>7. fold[{1}] = Batch!Descend(fold[{1} \ {1}], path[1])
    BY <1>5, <1>m
  <1>8. {1} \ {1} = {}
    OBVIOUS
  <1>9. Batch!FoldLeft(Batch!Descend, v, path) = fold[DOMAIN path]
    BY DEF Batch!FoldLeft, Batch!MapThenFoldSet, fold
  <1> QED BY <1>6, <1>7, <1>8, <1>9

LEMMA FollowTwo ==
  ASSUME NEW v, NEW path, DOMAIN path = {1, 2}
  PROVE  Batch!FoldLeft(Batch!Descend, v, path) = Batch!Descend(Batch!Descend(v, path[1]), path[2])
  <1> DEFINE Is(f) == f = [s \in SUBSET (DOMAIN path) |->
                             IF s = {} THEN v
                             ELSE LET x == Batch!Max(s) IN Batch!Descend(f[s \ {x}], path[x])]
             fold == CHOOSE f : Is(f)
  <1>m. Batch!Max({1}) = 1 /\ Batch!Max({2}) = 2 /\ Batch!Max({1, 2}) = 2
    BY DEF Batch!Max
  <1>s. {1} \ {1} = {} /\ {2} \ {2} = {} /\ {1, 2} \ {2} = {1}
        /\ {1} # {2} /\ {1} # {1, 2} /\ {2} # {1, 2} /\ {1} # {} /\ {2} # {} /\ {1, 2} # {}
    OBVIOUS
  <1>1. PICK g : g = [s \in SUBSET {1, 2} |->
                        IF s = {} THEN v
                        ELSE IF s = {1} THEN Batch!Descend(v, path[1])
                        ELSE IF s = {2} THEN Batch!Descend(v, path[2])
                        ELSE Batch!Descend(Batch!Descend(v, path[1]), path[2])]
    OBVIOUS
  <1>2. /\ g[{}] = v /\ g[{1}] = Batch!Descend(v, path[1]) /\ g[{2}] = Batch!Descend(v, path[2])
        /\ g[{1, 2}] = Batch!Descend(Batch!Descend(v, path[1]), path[2])
    BY <1>1, <1>s
  <1>3. ASSUME NEW s \in SUBSET {1, 2}
        PROVE  g[s] = IF s = {} THEN v
                      ELSE Batch!Descend(g[s \ {Batch!Max(s)}], path[Batch!Max(s)])
    <2>1. s = {} \/ s = {1} \/ s = {2} \/ s = {1, 2}
      OBVIOUS
    <2>2. CASE s = {}
      BY <1>2, <2>2
    <2>3. CASE s = {1}
      BY <1>2, <1>m, <1>s, <2>3
    <2>4. CASE s = {2}
      BY <1>2, <1>m, <1>s, <2>4
    <2>5. CASE s = {1, 2}
      BY <1>2, <1>m, <1>s, <2>5
    <2> QED BY <2>1, <2>2, <2>3, <2>4, <2>5
  <1>4. Is(g)
    BY <1>1, <1>3
  <1>5. Is(fold)
    BY <1>4
  <1> HIDE DEF fold
  <1>6. fold[{}] = v
    BY <1>5
  <1>7. fold[{1}] = Batch!Descend(fold[{1} \ {1}], path[1])
    BY <1>5, <1>m
  <1>8. fold[{1, 2}] = Batch!Descend(fold[{1, 2} \ {2}], path[2])
    BY <1>5, <1>m
  <1>9. Batch!FoldLeft(Batch!Descend, v, path) = fold[DOMAIN path]
    BY DEF Batch!FoldLeft, Batch!MapThenFoldSet, fold
  <1> QED BY <1>6, <1>7, <1>8, <1>9, <1>s

Values == {Batch!Tree} \cup {Batch!Leaf(x) : x \in {None, "{k: [7]}", "null", "words"}}

LEMMA ValuesAre ==
  ASSUME NEW r \in Result
  PROVE  Batch!Value(r) \in Values
  <1>1. ASSUME NEW a \in Batch!Answer
        PROVE  /\ Batch!Normalized(a).data \in {None} \cup Values
               /\ Batch!Normalized(a).text \in {None} \cup Values
    <2>1. a.structured \in {None, Batch!Tree} /\ a.text \in {None, "json", "null", "words"}
      BY DEF Batch!Answer
    <2>2. \A t \in {"json", "null", "words"} :
            Batch!Text(t) \in Values /\ Batch!Parsed(t) \in {None} \cup Values
      BY DEF Batch!Text, Batch!Parsed, Values
    <2> QED BY <2>1, <2>2 DEF Batch!Normalized, Values
  <1>2. ASSUME NEW o \in Outcomes
        PROVE  o.data \in {None} \cup Values /\ o.text \in {None} \cup Values
    BY <1>1, <1>2 DEF Outcomes, Batch!Nothing
  <1>3. r.data \in {None} \cup Values /\ r.text \in {None} \cup Values
    BY <1>2 DEF Result
  <1>4. Batch!Leaf(None) \in Values
    BY DEF Values
  <1> QED BY <1>3, <1>4 DEF Batch!Value

LEMMA PathsLead ==
  ASSUME NEW v \in Values, NEW path \in Batch!Path,
         Batch!FoldLeft(Batch!Descend, v, path) # Batch!Missing
  PROVE  Batch!FoldLeft(Batch!Descend, v, path) \in Batch!Leads(v, path)
  <1> DEFINE kList == Batch!List(<<Batch!Number>>)
  <1>1. Batch!Descend(Batch!Tree, "k") = kList
    <2>1. Batch!IsObject(Batch!Tree)
      BY DEF Batch!Tree, Batch!Object, Batch!IsObject
    <2>2. "k" \in DOMAIN Batch!Tree.object /\ Batch!Tree.object["k"] = kList
      BY DEF Batch!Tree, Batch!Object
    <2>3. ~Batch!IsList(Batch!Tree)
      BY DEF Batch!Tree, Batch!Object, Batch!IsList
    <2> HIDE DEF kList
    <2> QED BY <2>1, <2>2, <2>3, Zenon DEF Batch!Descend
  <1>2. ASSUME NEW x, NEW token PROVE Batch!Descend(Batch!Leaf(x), token) = Batch!Missing
    BY DEF Batch!Descend, Batch!Leaf, Batch!IsObject, Batch!IsList
  <1>3. ASSUME NEW token PROVE Batch!Descend(Batch!Missing, token) = Batch!Missing
    BY DEF Batch!Descend, Batch!Missing, Batch!IsObject, Batch!IsList
  <1>k. ~Batch!IsObject(kList) /\ Batch!IsList(kList) /\ kList.list = <<Batch!Number>>
    BY DEF Batch!List, Batch!IsObject, Batch!IsList
  <1>i. DOMAIN Batch!Index = {"0", "1"} /\ Batch!Index["0"] = 0 /\ Batch!Index["1"] = 1
    BY DEF Batch!Index
  <1> HIDE DEF kList
  <1>4. Batch!Descend(kList, "0") = Batch!Number
    <2>1. "0" \in DOMAIN Batch!Index /\ Batch!Index["0"] < Len(kList.list)
          /\ kList.list[Batch!Index["0"] + 1] = Batch!Number
      BY <1>k, <1>i
    <2> QED BY <1>k, <2>1, Zenon DEF Batch!Descend
  <1>5. Batch!Descend(kList, "1") = Batch!Missing
    <2>1. ~(Batch!Index["1"] < Len(kList.list))
      BY <1>k, <1>i
    <2> QED BY <1>k, <2>1, Zenon DEF Batch!Descend
  <1>6. v = Batch!Tree \/ \E x : v = Batch!Leaf(x)
    BY DEF Values
  <1>7. CASE path = <<>>
    BY <1>7, FollowNone DEF Batch!Leads
  <1>8. CASE path = <<"k">>
    <2>1. Batch!FoldLeft(Batch!Descend, v, path) = Batch!Descend(v, "k")
      <3>1. DOMAIN path = {1} /\ path[1] = "k"
        BY <1>8
      <3> QED BY <3>1, FollowOne
    <2>2. v = Batch!Tree
      BY <1>2, <1>6, <2>1, Zenon
    <2> QED BY <1>1, <1>8, <2>1, <2>2 DEF Batch!Leads, kList
  <1>9. CASE path = <<"k", "0">>
    <2>1. Batch!FoldLeft(Batch!Descend, v, path) = Batch!Descend(Batch!Descend(v, "k"), "0")
      <3>1. DOMAIN path = {1, 2} /\ path[1] = "k" /\ path[2] = "0"
        BY <1>9
      <3> QED BY <3>1, FollowTwo
    <2>2. v = Batch!Tree
      BY <1>2, <1>3, <1>6, <2>1, Zenon
    <2> QED BY <1>1, <1>4, <1>9, <2>1, <2>2 DEF Batch!Leads
  <1>10. CASE path = <<"k", "1">>
    <2>1. Batch!FoldLeft(Batch!Descend, v, path) = Batch!Descend(Batch!Descend(v, "k"), "1")
      <3>1. DOMAIN path = {1, 2} /\ path[1] = "k" /\ path[2] = "1"
        BY <1>10
      <3> QED BY <3>1, FollowTwo
    <2> QED BY <1>1, <1>2, <1>3, <1>5, <1>6, <2>1, Zenon
  <1> QED BY <1>7, <1>8, <1>9, <1>10 DEF Batch!Path

LEMMA ExtractionIs ==
  ASSUME BatchInv, pc = "stepping", NEW ref \in Batch!Reference,
         Batch!Extracted(ref) # Batch!Missing
  PROVE  \E i \in DOMAIN results :
           /\ results[i].id = ref.step
           /\ ~results[i].failed
           /\ Batch!Extracted(ref) \in Batch!Leads(Batch!Value(results[i]), ref.path)
  <1>1. /\ results \in Seq(Result) /\ DOMAIN results = 1 .. Len(results)
        /\ \A i, j \in 1 .. Len(results) : results[i].id = results[j].id => i = j
    <2>1. ids \in Seq(StepId) /\ results \in Seq(Result)
          /\ \A i \in 1 .. Len(results) : i \in 1 .. Len(ids) /\ results[i].id = ids[i]
      BY DEF BatchInv
    <2>2. \A i, j \in 1 .. Len(ids) : ids[i] = ids[j] => i = j
      BY <2>1 DEF BatchInv, Batch!Invalid
    <2> QED BY <2>1, <2>2
  <1>2. CASE {i \in 1 .. Len(results) : results[i].id = ref.step} = {}
    <2>1. Batch!ById(ref.step) = 0
      BY <1>2 DEF Batch!ById, Batch!SelectInSeq
    <2> QED BY <2>1 DEF Batch!Extracted
  <1>3. CASE {i \in 1 .. Len(results) : results[i].id = ref.step} # {}
    <2>1. PICK k \in 1 .. Len(results) : results[k].id = ref.step
      BY <1>3
    <2>2. {i \in 1 .. Len(results) : results[i].id = ref.step} = {k}
      BY <1>1, <2>1
    <2>3. Batch!Min({k}) = k
      BY DEF Batch!Min
    <2>4. Batch!ById(ref.step) = k
      BY <2>2, <2>3 DEF Batch!ById, Batch!SelectInSeq
    <2>5. k # 0 /\ results[k] \in Result
      BY <1>1, <2>1
    <2>6. /\ ~results[k].failed
          /\ Batch!Extracted(ref) =
               Batch!FoldLeft(Batch!Descend, Batch!Value(results[k]), ref.path)
      BY <2>4, <2>5 DEF Batch!Extracted
    <2>7. Batch!Value(results[k]) \in Values /\ ref.path \in Batch!Path
      BY <2>5, ValuesAre DEF Batch!Reference
    <2>8. PICK v \in Values : v = Batch!Value(results[k])
      BY <2>7
    <2>9. PICK path \in Batch!Path : path = ref.path
      BY <2>7
    <2>10. Batch!FoldLeft(Batch!Descend, v, path) \in Batch!Leads(v, path)
      BY <2>6, <2>8, <2>9, PathsLead
    <2> QED BY <1>1, <2>1, <2>6, <2>8, <2>9, <2>10
  <1> QED BY <1>2, <1>3

CallInv ==
  /\ pc # "calling" => call = {}
  /\ ProvenArguments

LEMMA CallStep ==
  ASSUME BatchInv, CallInv, [HostNext]_hostVars
  PROVE  CallInv'
  <1>1. CASE call' = {}
    BY <1>1 DEF CallInv, ProvenArguments, Batch!ProvenArguments
  <1>2. CASE UNCHANGED <<call, results>> /\ (pc' = pc \/ pc' = "calling")
    <2>1. ProvenArguments'
      BY <1>2 DEF CallInv, ProvenArguments, Batch!ProvenArguments
    <2> QED BY <1>2, <2>1 DEF CallInv
  <1>3. CASE Batch!StepCalls
    <2>1. PICK args \in Batch!Arguments :
            /\ Batch!Resolves(args)
            /\ call' = {[ref |-> r, value |-> Batch!Extracted(r)] : r \in args.refs}
      BY <1>3 DEF Batch!StepCalls
    <2>2. pc = "stepping" /\ pc' = "calling" /\ results' = results
      BY <1>3 DEF Batch!StepCalls
    <2>3. args.refs \subseteq Batch!Reference
      <3>1. \/ args.refs \in {{}} \cup UNION {{{p, q} : q \in Batch!Reference} : p \in Batch!Reference}
            \/ args.refs \in {{p} : p \in Batch!Reference}
        BY DEF Batch!Arguments
      <3> QED BY <3>1
    <2>4. \A r \in args.refs : Batch!Extracted(r) # Batch!Missing
      BY <2>1 DEF Batch!Resolves
    <2>5. ASSUME NEW used \in call'
          PROVE  \E i \in DOMAIN results :
                   /\ results[i].id = used.ref.step
                   /\ ~results[i].failed
                   /\ used.value \in Batch!Leads(Batch!Value(results[i]), used.ref.path)
      <3>1. PICK r \in args.refs : used = [ref |-> r, value |-> Batch!Extracted(r)]
        BY <2>1, <2>5
      <3>2. used.ref = r /\ used.value = Batch!Extracted(r)
        BY <3>1
      <3>3. \E i \in DOMAIN results :
              /\ results[i].id = r.step
              /\ ~results[i].failed
              /\ Batch!Extracted(r) \in Batch!Leads(Batch!Value(results[i]), r.path)
        BY <2>2, <2>3, <2>4, ExtractionIs
      <3> QED BY <3>2, <3>3
    <2>6. ProvenArguments'
      BY <2>2, <2>5 DEF ProvenArguments, Batch!ProvenArguments
    <2> QED BY <2>2, <2>6 DEF CallInv
  <1>4. CASE Batch!Validate \/ Batch!StepFails
    <2>1. pc # "calling" /\ call' = call
      BY <1>4 DEF Batch!Validate, Batch!StepFails
    <2> QED BY <1>1, <2>1 DEF CallInv
  <1>5. CASE Batch!CallReturns
    BY <1>1, <1>5 DEF Batch!CallReturns
  <1>6. CASE Batch!Remount
    BY <1>2, <1>6 DEF Batch!Remount
  <1>7. CASE UNCHANGED batchState
    BY <1>2, <1>7 DEF batchState
  <1> QED BY <1>3, <1>4, <1>5, <1>6, <1>7
          DEF HostNext, run_tool_program, run_tool_batch, Meanwhile, hostVars, Batch!Goes

-----------------------------------------------------------------------------
(* The host's requests *)

LEMMA HostRunsProgram ==
  ASSUME [HostNext]_hostVars
  PROVE  [Next]_vars
  BY DEF HostNext, run_tool_program, run_tool_batch, Meanwhile, hostVars, vars

LEMMA HostBegins ==
  ASSUME HostInit
  PROVE  Init /\ Batch!Init
  BY DEF HostInit, ProgramRequested, BatchRequested

(* What was called is traced or out, and what was begun is counted.         *)
THEOREM ProgramInvariant == HostSpec => []ProgramInv
  <1>1. HostInit => ProgramInv
    BY HostBegins, ProgramInit
  <1>2. ProgramInv /\ [HostNext]_hostVars => ProgramInv'
    BY HostRunsProgram, ProgramStep
  <1> QED BY <1>1, <1>2, PTL DEF HostSpec

(* Whatever a program is made of, it makes no more calls and begins no more *)
(* passes than its budgets (_call_tool_builtin, _exec_for_loop).            *)
THEOREM BudgetsHold == HostSpec => []WithinBudgets
  BY ProgramInvariant, PTL DEF ProgramInv

(* A batch that goes on is valid, has steps left and no failure it was not  *)
(* asked to tolerate; and what it calls with can be accounted for.          *)
THEOREM BatchInvariant == HostSpec => [](BatchInv /\ CallInv)
  <1>1. HostInit => BatchInv /\ CallInv
    <2> SUFFICES ASSUME HostInit PROVE BatchInv /\ CallInv
      OBVIOUS
    <2>1. BatchInv
      BY HostBegins, BatchInit
    <2>2. call = {}
      BY HostBegins DEF Batch!Init
    <2> QED BY <2>1, <2>2 DEF CallInv, ProvenArguments, Batch!ProvenArguments
  <1>2. BatchInv /\ CallInv /\ [HostNext]_hostVars => (BatchInv /\ CallInv)'
    BY BatchStep, CallStep
  <1> QED BY <1>1, <1>2, PTL DEF HostSpec

(* What a tool is called with is where its references lead in the results   *)
(* of earlier steps that did not fail (_extract_batch_reference).           *)
THEOREM ArgumentsAreProven == HostSpec => []ProvenArguments
  BY BatchInvariant, PTL DEF CallInv

(* The reply of a batch tells what happened (run_tool_batch).               *)
THEOREM RepliesAreHonest == HostSpec => []HonestReply
  BY BatchInvariant, PTL DEF BatchInv

(* Programs and batches keep the promise of Composition: one call at a      *)
(* time, no more than allowed, none after a failure unless asked, and an    *)
(* honest verdict.                                                          *)
THEOREM CompositionsKeepPromise == HostSpec => BothCompose
  <1>1. HostInit => Promise!Init /\ Batch!Promise!Init
    BY HostBegins, PromiseInit, BatchPromiseInit
  <1>2. ProgramInv /\ [HostNext]_hostVars => [Promise!Next]_(Promise!vars)
    BY HostRunsProgram, PromiseStep
  <1>3. BatchInv /\ CallInv /\ [HostNext]_hostVars
          => [Batch!Promise!Next]_(Batch!Promise!vars)
    BY BatchPromiseStep
  <1> QED BY <1>1, <1>2, <1>3, ProgramInvariant, BatchInvariant, PTL
          DEF HostSpec, BothCompose, ComposesAsPromised, Promise!Spec,
              Batch!ComposesAsPromised, Batch!Promise!Spec

=============================================================================
