---------------------------- MODULE ScopeRegistry ---------------------------
(***************************************************************************)
(* What a caller may rely on about the scopes of a toolset: each one is    *)
(* granted, regained or dropped by one indivisible step for that purpose,  *)
(* and nothing else -- no failed call, refresh, health check or late write *)
(* of another request -- ever adds a scope or takes one away.              *)
(***************************************************************************)
CONSTANTS Namespace, Scope, Policy, None

VARIABLE reg    \* namespace -> None, or its policy and its two scope sets

Entry(policy, loaded, recoverable) ==
  [policy |-> policy, loaded |-> loaded, recoverable |-> recoverable]

Register(n) ==
  /\ reg[n] = None
  /\ \E policy \in Policy : reg' = [reg EXCEPT ![n] = Entry(policy, {}, {})]

Unregister(n) ==
  /\ reg[n] # None
  /\ reg' = [reg EXCEPT ![n] = None]

(* A scope is granted on request; it becomes recoverable if it may be.      *)
Granted(e, s) ==
  Entry(e.policy, e.loaded \cup {s},
        e.recoverable \cup ({s} \cap e.policy.restorable_scopes))

Grant(n, s) ==
  /\ reg[n] # None
  /\ s \in reg[n].policy.supported_scopes
  /\ reg' = [reg EXCEPT ![n] = Granted(reg[n], s)]

(* Recoverable scopes are loaded again. *)
Regain(n, S) ==
  /\ reg[n] # None
  /\ S \subseteq reg[n].recoverable
  /\ reg' = [reg EXCEPT ![n].loaded = @ \cup S]

(* A loaded scope is dropped, and will not be recovered. *)
Drop(n, s) ==
  /\ reg[n] # None
  /\ s \in reg[n].loaded
  /\ reg' = [reg EXCEPT ![n].loaded = @ \ {s}, ![n].recoverable = @ \ {s}]

(* A new process starts: nothing is loaded, all that may be is recoverable. *)
Kept(e) ==
  Entry(e.policy, {}, IF e.recoverable # {} THEN e.recoverable
                      ELSE e.loaded \cap e.policy.restorable_scopes)

New(e) == e = None \/ \E p \in Policy : e = Entry(p, {}, {})

Reboot(found) ==
  /\ reg' = [n \in Namespace |-> reg'[n]]
  /\ \A n \in Namespace :
       IF found[n] # None THEN reg'[n] = Kept(found[n]) ELSE New(reg'[n])

(* The old process ended when it had noted a grant but told nobody yet. *)
RebootAfterGrant(n, s) ==
  /\ reg[n] # None
  /\ s \in reg[n].policy.supported_scopes
  /\ Reboot([reg EXCEPT ![n] = Granted(reg[n], s)])

Init ==
  /\ reg = [n \in Namespace |-> reg[n]]
  /\ \A n \in Namespace : New(reg[n])

Next ==
  \/ \E n \in Namespace :
       \/ Register(n)
       \/ Unregister(n)
       \/ \E s \in Scope : Grant(n, s) \/ Drop(n, s) \/ RebootAfterGrant(n, s)
       \/ \E S \in SUBSET Scope : Regain(n, S)
  \/ Reboot(reg)

Spec == Init /\ [][Next]_reg
=============================================================================
