---------------------------- MODULE MCLifecycle -----------------------------
(***************************************************************************)
(* Small instances of Lifecycle for TLC: the sets the .cfg files name.     *)
(***************************************************************************)
EXTENDS LifecycleProperties, TLC

(* Two contracts a downstream server may report: the second adds a tool.   *)
TwoContracts == {{"ping"}, {"ping", "scan"}}
OneContract == {{"ping"}}
NoTools == {}

MCPolicy(default, supported, restorable, identity, explicit) ==
  [ default_scope                     |-> default,
    supported_scopes                  |-> supported,
    restorable_scopes                 |-> restorable,
    restore_requires_identity         |-> identity,
    restore_requires_explicit_request |-> explicit ]

(* A toolset of one scope that is not restorable. *)
ThreadOnly == {MCPolicy("thread", {"thread"}, {}, TRUE, TRUE)}

(* Two scopes, of which the session is restored freely. *)
Sessions == {MCPolicy("thread", {"thread", "session"}, {"session"}, FALSE, FALSE)}

(* The policies registration must tell apart: three valid ones that differ  *)
(* in what a restore needs, and three the validator rejects.                *)
Assorted ==
  Sessions \cup
  { MCPolicy("session", {"session"}, {"session"}, TRUE, FALSE),
    MCPolicy("session", {"session"}, {"session"}, FALSE, TRUE),
    MCPolicy("global", {"thread"}, {}, TRUE, TRUE),
    MCPolicy("thread", {"thread"}, {"thread"}, TRUE, TRUE),
    MCPolicy("thread", {"thread"}, {"session"}, TRUE, TRUE) }

(* Requests are interchangeable. *)
Requests == Permutations(Task)

AllOperations == Operation
NoFault == {}
=============================================================================
