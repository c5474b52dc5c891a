--------------------------- MODULE MCCompositions ---------------------------
(***************************************************************************)
(* The programs and the batches TLC runs in Compositions, and what the     *)
(* language says a program does, defined by the structure of the program.  *)
(***************************************************************************)
EXTENDS Compositions

(* Programs: one statement out of a loop, or a loop of up to two of them,   *)
(* with and without a call after it, or loops and a conditional three deep. *)
Leaf == {Simple, CallTool, Break, Continue}
Nested ==
  {If(<<x>>, else) : x \in Leaf, else \in {<<>>, <<CallTool>>}}
  \cup {For(<<x, y>>) : x \in Leaf, y \in Leaf}
Inner == Leaf \cup Nested
Blocks == {<<x>> : x \in Inner} \cup {<<x, y>> : x \in Inner, y \in Inner}
Programs ==
  {<<x>> : x \in Inner} \cup {<<For(b)>> : b \in Blocks} \cup {<<For(b), CallTool>> : b \in Blocks}
  \cup {<<For(<<For(<<If(<<x>>, <<>>), y>>), z>>)>> : x \in Leaf, y \in Leaf, z \in Leaf}

(* No, one, two and three steps, with and without a repeated id. *)
BatchIds ==
  {<<>>, <<"s1">>, <<"s1", "s1">>, <<"s1", "s2">>, <<"s1", "s2", "s1">>, <<"s1", "s2", "s3">>}

-----------------------------------------------------------------------------
(* What the language says a block does, written by its structure: how many  *)
(* calls it makes, how many passes of loops it begins, and how it is left.  *)
Does(calls, begun, left) == [calls |-> calls, begun |-> begun, left |-> left]
Then(a, b) == Does(a.calls + b.calls, a.begun + b.begun, b.left)

RECURSIVE Runs(_), RunsLoop(_, _)
RunsOne(s) ==
  CASE s.do = "simple" -> {Does(0, 0, "end")}
    [] s.do = "call" -> {Does(1, 0, "end")}
    [] s.do \in {"break", "continue"} -> {Does(0, 0, s.do)}
    [] s.do = "if" -> Runs(s.then) \cup Runs(s.else)
    [] s.do = "for" -> UNION {RunsLoop(s.body, n) : n \in 0 .. MaxItems}
Runs(block) ==
  IF block = <<>> THEN {Does(0, 0, "end")}
  ELSE LET first == RunsOne(Head(block)) IN
       {a \in first : a.left # "end"}
         \cup {Then(a, b) : a \in {x \in first : x.left = "end"}, b \in Runs(Tail(block))}
RunsLoop(body, n) ==
  IF n = 0 THEN {Does(0, 0, "end")}
  ELSE LET pass == {Then(Does(0, 1, "end"), a) : a \in Runs(body)} IN
       {Does(a.calls, a.begun, "end") : a \in {x \in pass : x.left = "break"}}
         \cup {Then(a, b) : a \in {x \in pass : x.left # "break"}, b \in RunsLoop(body, n - 1)}

(* A program that succeeds did what the language says it does, statement by *)
(* statement: nothing is skipped behind a signal, and nothing runs twice.   *)
RunsAsWritten == outcome = "success" => Does(invoked, passes, "end") \in Runs(program)
=============================================================================
