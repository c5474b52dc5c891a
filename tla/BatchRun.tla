------------------------------ MODULE BatchRun ------------------------------
(***************************************************************************)
(* run_tool_batch of toolbox/service.py: the steps of a batch run in order,*)
(* the arguments of a step may take values out of the results of earlier   *)
(* ones, and a failing step ends the batch unless the caller wants to go   *)
(* on.  Between two steps the mounted tools may change: the calls are made *)
(* like any other (Lifecycle.tla).                                         *)
(*                                                                         *)
(* What a step's arguments refer to is chosen when the step is reached.    *)
(***************************************************************************)
EXTENDS Naturals, Sequences, SequencesExt

CONSTANTS
  None,
  StepId,
  Tool,
  Batches,     \* sequences of step ids
  MaxChanges   \* bound: changes of the mounted tools during a batch

VARIABLES
  ids,       \* the ids of the steps
  goOn,      \* continue_on_error
  final,     \* final_step
  mounted,   \* the tools that are mounted
  changes,
  results,   \* results, in order
  call,      \* the references of the call that is out, with their values
  pc,        \* "new", "stepping", "calling", "done"
  reply      \* BatchRunResult

batchVars == <<ids, goOn, final>>
toolVars == <<mounted, changes>>
vars == <<batchVars, toolVars, results, call, pc, reply>>

-----------------------------------------------------------------------------
(* JSON values, as far as references look into them. *)

Leaf(x) == [leaf |-> x]
Object(f) == [object |-> f]
List(s) == [list |-> s]
Missing == [missing |-> TRUE]

IsObject(value) == "object" \in DOMAIN value
IsList(value) == "list" \in DOMAIN value

Index == [token \in {"0", "1"} |-> IF token = "0" THEN 0 ELSE 1]

(* One token of a reference's path: a key of an object, an index of a list. *)
Descend(value, token) ==
  CASE IsObject(value) /\ token \in DOMAIN value.object -> value.object[token]
    [] IsList(value) /\ token \in DOMAIN Index /\ Index[token] < Len(value.list) ->
         value.list[Index[token] + 1]
    [] OTHER -> Missing

(* A tool's answer: structured content, a text, or both. *)
Number == Leaf("7")
Tree == Object([k \in {"k"} |-> List(<<Number>>)])
Text(t) == IF t = "json" THEN Leaf("{k: [7]}") ELSE Leaf(t)
Parsed(t) == CASE t = "json" -> Tree [] t = "null" -> None [] OTHER -> Text(t)

Answer == [structured : {None, Tree}, text : {None, "json", "null", "words"}]

(* _normalize_call_result *)
Normalized(a) ==
  [ data |-> IF a.structured # None THEN a.structured
             ELSE IF a.text = None THEN None ELSE Parsed(a.text),
    text |-> IF a.text = None THEN None ELSE Text(a.text) ]

-----------------------------------------------------------------------------
(* References into earlier results *)

Path == {<<>>, <<"k">>, <<"k", "0">>, <<"k", "1">>}
Reference == [step : StepId, path : Path]

ById(id) == SelectInSeq(results, LAMBDA r : r.id = id)

(* What a reference starts from: the data, else the text, else JSON's null. *)
Value(r) == IF r.data # None THEN r.data ELSE IF r.text # None THEN r.text ELSE Leaf(None)

ExtractedUnchecked(ref) ==   \* mutation: a failed step's result is used
  LET i == ById(ref.step) IN
  IF i = 0 THEN Missing ELSE FoldLeft(Descend, Value(results[i]), ref.path)

(* _extract_batch_reference; what raises is Missing *)
Extracted(ref) ==
  LET i == ById(ref.step) IN
  IF i = 0 THEN Missing
  ELSE IF results[i].failed THEN Missing
  ELSE FoldLeft(Descend, Value(results[i]), ref.path)

(* Arguments hold references, or are one: then it must resolve to an object. *)
Arguments ==
  [refs : {{}} \cup UNION {{{p, q} : q \in Reference} : p \in Reference}, whole : {FALSE}]
  \cup [refs : {{p} : p \in Reference}, whole : {TRUE}]

Resolves(args) ==
  \A ref \in args.refs :
    /\ Extracted(ref) # Missing
    /\ args.whole => IsObject(Extracted(ref))

-----------------------------------------------------------------------------
StepResult(i, failed, outcome) ==
  [id |-> ids[i], failed |-> failed, data |-> outcome.data, text |-> outcome.text]

Nothing == [data |-> None, text |-> None]
Current == Len(results) + 1

(* The batch is refused before any step runs. *)
Invalid == ids = <<>> \/ \E i, j \in DOMAIN ids : i # j /\ ids[i] = ids[j]

Refusal ==
  [success |-> FALSE, completed |-> 0, stopped |-> FALSE, selected |-> None,
   data |-> None, text |-> None]

Validate ==
  /\ pc = "new"
  /\ \/ Invalid /\ pc' = "done" /\ reply' = Refusal
     \/ ~Invalid /\ pc' = "stepping" /\ UNCHANGED reply
  /\ UNCHANGED <<batchVars, toolVars, results, call>>

Reply(rs, stopped) ==
  LET selected == IF final # None THEN final ELSE rs[Len(rs)].id
      i == SelectInSeq(rs, LAMBDA r : r.id = selected)
  IN [ success   |-> \A j \in DOMAIN rs : ~rs[j].failed,
       completed |-> Len(rs),
       stopped   |-> stopped,
       selected  |-> selected,
       data      |-> IF i = 0 THEN None ELSE rs[i].data,
       text      |-> IF i = 0 THEN None ELSE rs[i].text ]

StepEndsRegardless(r) ==   \* mutation: only the last failure stops the batch
  /\ results' = Append(results, r)
  /\ IF Current = Len(ids)
     THEN pc' = "done" /\ reply' = Reply(results', r.failed)
     ELSE pc' = "stepping" /\ UNCHANGED reply

(* The step's result is noted, and the batch goes on or returns. *)
StepEnds(r) ==
  /\ results' = Append(results, r)
  /\ LET stops == r.failed /\ ~goOn IN
     IF stops \/ Current = Len(ids)
     THEN pc' = "done" /\ reply' = Reply(results', stops)
     ELSE pc' = "stepping" /\ UNCHANGED reply

(* A step that cannot call its tool fails where it stands. *)
StepFails ==
  /\ pc = "stepping"
  /\ \E args \in Arguments, tool \in Tool :
       /\ ~Resolves(args) \/ tool \notin mounted
       /\ StepEnds(StepResult(Current, TRUE, Nothing))
  /\ UNCHANGED <<batchVars, toolVars, call>>

StepCalls ==
  /\ pc = "stepping"
  /\ \E args \in Arguments, tool \in mounted :
       /\ Resolves(args)
       /\ call' = {[ref |-> r, value |-> Extracted(r)] : r \in args.refs}
  /\ pc' = "calling"
  /\ UNCHANGED <<batchVars, toolVars, results, reply>>

(* The call returns, with isError or without, or raises. *)
CallReturns ==
  /\ pc = "calling"
  /\ call' = {}
  /\ \/ \E a \in Answer, isError \in BOOLEAN :
          StepEnds(StepResult(Current, isError, Normalized(a)))
     \/ StepEnds(StepResult(Current, TRUE, Nothing))
  /\ UNCHANGED <<batchVars, toolVars>>

(* Other requests activate and deactivate toolsets meanwhile. *)
Remount ==
  /\ pc \in {"stepping", "calling"}
  /\ changes < MaxChanges
  /\ changes' = changes + 1
  /\ mounted' \in SUBSET Tool
  /\ UNCHANGED <<batchVars, results, call, pc, reply>>

Init ==
  /\ ids \in Batches
  /\ goOn \in BOOLEAN
  /\ final \in StepId \cup {None}
  /\ mounted \in SUBSET Tool
  /\ changes = 0
  /\ results = <<>>
  /\ call = {}
  /\ pc = "new"
  /\ reply = None

(* The coroutine of the request goes on. *)
Goes == Validate \/ StepFails \/ StepCalls \/ CallReturns

Next == Goes \/ Remount

Spec == Init /\ [][Next]_vars
=============================================================================
