---------------------------- MODULE Composition ----------------------------
(***************************************************************************)
(* What run_tool_batch and run_tool_program of toolbox/service.py promise  *)
(* to the host that composes mounted tools in one request.  The tools are  *)
(* called one at a time, a bounded number of times; once something failed, *)
(* nothing is called any more unless the host asked to go on; and the      *)
(* verdict is a success exactly if nothing failed.                         *)
(***************************************************************************)
EXTENDS Naturals

VARIABLES
  limit,      \* calls the request may make
  tolerant,   \* the host asked to go on after a failure
  attempts,   \* calls tried so far
  waiting,    \* a call is out
  failed,     \* something failed
  verdict     \* "none", "success" or "failure"

request == <<limit, tolerant>>
vars == <<request, attempts, waiting, failed, verdict>>

Init ==
  /\ limit \in Nat
  /\ tolerant \in BOOLEAN
  /\ attempts = 0
  /\ waiting = FALSE
  /\ failed = FALSE
  /\ verdict = "none"

Verdict(broken) == IF broken THEN "failure" ELSE "success"

(* The request may end with what happens, and then it says so honestly. *)
MayEnd == verdict' \in {verdict, Verdict(failed')}

MayGoOn == verdict = "none" /\ ~waiting /\ (failed => tolerant)

Call ==
  /\ MayGoOn
  /\ attempts < limit
  /\ attempts' = attempts + 1
  /\ waiting' = TRUE
  /\ UNCHANGED <<request, failed, verdict>>

Answer ==
  /\ waiting
  /\ waiting' = FALSE
  /\ failed' \in {failed, TRUE}
  /\ MayEnd
  /\ UNCHANGED <<request, attempts>>

(* Something fails without a call, in place of one or beside them. *)
Fail ==
  /\ MayGoOn
  /\ failed' = TRUE
  /\ attempts' \in {attempts, attempts + 1}
  /\ attempts' <= limit
  /\ MayEnd
  /\ UNCHANGED <<request, waiting>>

End ==
  /\ MayGoOn
  /\ verdict' = Verdict(failed)
  /\ UNCHANGED <<request, attempts, waiting, failed>>

Next == Call \/ Answer \/ Fail \/ End

Spec == Init /\ [][Next]_vars
=============================================================================
