---------------------------- MODULE ProgramRun ----------------------------
(***************************************************************************)
(* ToolProgramRuntime of toolbox/program_runtime.py, which run_tool_program*)
(* runs: an interpreter of loops, conditionals and calls of mounted tools, *)
(* within a budget of calls and one of loop iterations.  The interpreter's *)
(* recursion is a stack of frames, and its exceptions cut that stack.      *)
(*                                                                         *)
(* The program's data is left out: a condition may hold or not, an iterable*)
(* has some number of items, and an expression may raise.  The calls within*)
(* an expression stand before the statement it belongs to, which is where  *)
(* the code makes them (those it may skip, behind a condition).            *)
(***************************************************************************)
EXTENDS Integers, Sequences, SequencesExt

CONSTANTS
  Program,             \* blocks of statements
  MAX_TOOL_CALLS,
  MAX_LOOP_ITERATIONS,
  MaxItems             \* bound: items of an iterable

ASSUME BudgetsAssumption ==
  MAX_TOOL_CALLS \in Nat /\ MAX_LOOP_ITERATIONS \in Nat /\ MaxItems \in Nat

VARIABLES
  program,     \* the parsed program, once it is one
  text,        \* what is wrong with its text: "fits", "too_long", "malformed", "too_large"
  stack,       \* frames, the innermost last
  traces,      \* how many calls are traced (call_count)
  iterations,  \* _loop_iterations
  outcome,     \* "new", "running", "waiting" for a call, "success" or an error code
  invoked,     \* history: how many calls were made
  passes,      \* history: how often the body of any loop was begun
  erred        \* history: a call answered with an error, or raised

input == <<program, text>>
history == <<invoked, passes, erred>>
vars == <<input, stack, traces, iterations, outcome, history>>

Failure ==
  {"budget_exceeded", "invalid_program", "program_runtime_error", "tool_timeout",
   "tool_invocation_failed", "tool_call_failed"}

-----------------------------------------------------------------------------
(* Statements.  Assignments, expressions and pass are all simple.           *)

Simple == [do |-> "simple"]
CallTool == [do |-> "call"]
Break == [do |-> "break"]
Continue == [do |-> "continue"]
If(then, else) == [do |-> "if", then |-> then, else |-> else]
For(body) == [do |-> "for", body |-> body]

(* Frames: what is left of a block, and of the loop it is the body of.      *)
Block(statements) == [loop |-> FALSE, items |-> 0, body |-> <<>>, rest |-> statements]
Loop(items, body) == [loop |-> TRUE, items |-> items, body |-> body, rest |-> <<>>]

Top == Last(stack)
Statement == Head(Top.rest)

(* The statement is done with; further frames may follow from it.           *)
Advanced == Front(stack) \o <<[Top EXCEPT !.rest = Tail(@)]>>

LoopsAround == {i \in DOMAIN stack : stack[i].loop}
InnermostLoop == SelectLastInSeq(stack, LAMBDA f : f.loop)

Interpreting == outcome = "running"
At(do) == Interpreting /\ Top.rest # <<>> /\ Statement.do = do

Fails(code) ==
  /\ outcome' = code
  /\ UNCHANGED <<input, stack, traces, iterations, history>>

-----------------------------------------------------------------------------
(* run: the program's text is measured and parsed. *)
Parse ==
  /\ outcome = "new"
  /\ \/ text = "fits" /\ outcome' = "running"
     \/ text \in {"too_long", "too_large"} /\ outcome' = "budget_exceeded"
     \/ text = "malformed" /\ outcome' \in {"invalid_program", "program_runtime_error"}
  /\ UNCHANGED <<input, stack, traces, iterations, history>>

(* Evaluating may raise, for a reason the interpreter knows or another.     *)
Raise ==
  /\ At("simple") \/ At("if") \/ At("for")
  /\ Fails("invalid_program") \/ Fails("program_runtime_error")

Continues ==
  /\ outcome' = "running"
  /\ UNCHANGED <<input, traces, iterations, history>>

DoSimple == At("simple") /\ stack' = Advanced /\ Continues

DoIf ==
  /\ At("if")
  /\ \E branch \in {Statement.then, Statement.else} : stack' = Append(Advanced, Block(branch))
  /\ Continues

DoFor ==
  /\ At("for")
  /\ \E items \in 0 .. MaxItems : stack' = Append(Advanced, Loop(items, Statement.body))
  /\ Continues

BreakBlock ==   \* mutation: only the innermost block is left
  /\ At("break")
  /\ \/ LoopsAround = {} /\ Fails("program_runtime_error")
     \/ LoopsAround # {} /\ stack' = Front(stack) /\ Continues

(* _LoopBreakSignal ends the innermost loop; outside of one it is an error. *)
DoBreak ==
  /\ At("break")
  /\ \/ LoopsAround = {} /\ Fails("program_runtime_error")
     \/ LoopsAround # {} /\ stack' = SubSeq(stack, 1, InnermostLoop - 1) /\ Continues

ContinueAgain ==   \* mutation: the pass starts over
  /\ At("continue")
  /\ \/ LoopsAround = {} /\ Fails("program_runtime_error")
     \/ /\ LoopsAround # {}
        /\ stack' = [SubSeq(stack, 1, InnermostLoop) EXCEPT ![InnermostLoop].rest =
                       stack[InnermostLoop].body]
        /\ Continues

(* _LoopContinueSignal ends this pass of it.                                *)
DoContinue ==
  /\ At("continue")
  /\ \/ LoopsAround = {} /\ Fails("program_runtime_error")
     \/ /\ LoopsAround # {}
        /\ stack' = [SubSeq(stack, 1, InnermostLoop) EXCEPT ![InnermostLoop].rest = <<>>]
        /\ Continues

-----------------------------------------------------------------------------
(* _call_tool_builtin *)

DoCall ==
  /\ At("call")
  /\ \/ traces >= MAX_TOOL_CALLS /\ Fails("budget_exceeded")
     \/ traces < MAX_TOOL_CALLS /\ Fails("invalid_program")   \* unusable arguments
     \/ /\ traces < MAX_TOOL_CALLS
        /\ outcome' = "waiting" /\ invoked' = invoked + 1
        /\ UNCHANGED <<input, stack, traces, iterations, passes, erred>>

ReturnTolerant ==   \* mutation: an error is traced, and the program goes on
  /\ outcome = "waiting"
  /\ traces' = traces + 1
  /\ stack' = Advanced /\ outcome' = "running"
  /\ erred' \in BOOLEAN
  /\ UNCHANGED <<input, iterations, invoked, passes>>

(* The call returned: its result is traced, and an error ends the program. *)
Return ==
  /\ outcome = "waiting"
  /\ traces' = traces + 1
  /\ \/ stack' = Advanced /\ outcome' = "running" /\ UNCHANGED erred
     \/ outcome' = "tool_call_failed" /\ erred' = TRUE /\ UNCHANGED stack
  /\ UNCHANGED <<input, iterations, invoked, passes>>

(* The call raised: nothing is traced. *)
CallRaises ==
  /\ outcome = "waiting"
  /\ outcome' \in {"tool_timeout", "tool_invocation_failed"}
  /\ erred' = TRUE
  /\ UNCHANGED <<input, stack, traces, iterations, invoked, passes>>

-----------------------------------------------------------------------------
NextItemPerLoop ==   \* mutation: each loop has a budget of its own
  /\ Interpreting /\ Top.rest = <<>> /\ Top.loop /\ Top.items > 0
  /\ IF Top.items > MAX_LOOP_ITERATIONS
     THEN outcome' = "budget_exceeded" /\ UNCHANGED <<stack, iterations, passes>>
     ELSE /\ stack' = Front(stack) \o <<[Top EXCEPT !.items = @ - 1, !.rest = Top.body]>>
          /\ passes' = passes + 1
          /\ UNCHANGED <<outcome, iterations>>
  /\ UNCHANGED <<input, traces, invoked, erred>>

(* _exec_for_loop: one budget for the iterations of all loops. *)
NextItem ==
  /\ Interpreting /\ Top.rest = <<>> /\ Top.loop /\ Top.items > 0
  /\ iterations' = iterations + 1
  /\ \/ /\ iterations' > MAX_LOOP_ITERATIONS
        /\ outcome' = "budget_exceeded" /\ UNCHANGED <<stack, passes>>
     \/ /\ iterations' <= MAX_LOOP_ITERATIONS
        /\ stack' = Front(stack) \o <<[Top EXCEPT !.items = @ - 1, !.rest = Top.body]>>
        /\ passes' = passes + 1
        /\ UNCHANGED outcome
     \/ /\ iterations' <= MAX_LOOP_ITERATIONS   \* the item does not fit the target
        /\ outcome' = "invalid_program" /\ UNCHANGED <<stack, passes>>
  /\ UNCHANGED <<input, traces, invoked, erred>>

(* A block, or a loop without items left, is done. *)
Leave ==
  /\ Interpreting /\ Top.rest = <<>> /\ Top.items = 0
  /\ stack' = Front(stack)
  /\ outcome' = IF Len(stack) = 1 THEN "success" ELSE "running"
  /\ UNCHANGED <<input, traces, iterations, history>>

Init ==
  /\ program \in Program
  /\ text \in {"fits", "too_long", "malformed", "too_large"}
  /\ stack = <<Block(program)>>
  /\ traces = 0 /\ iterations = 0
  /\ outcome = "new"
  /\ invoked = 0 /\ passes = 0 /\ erred = FALSE

Interpret ==
  \/ Parse \/ Raise \/ Leave \/ NextItem
  \/ DoSimple \/ DoIf \/ DoFor \/ DoBreak \/ DoContinue \/ DoCall

Next == Interpret \/ Return \/ CallRaises

Spec == Init /\ [][Next]_vars
=============================================================================
