------------------------------ MODULE Toolsets ------------------------------
(***************************************************************************)
(* The toolset record of toolbox/models.py, the scope arithmetic of        *)
(* toolbox/scope_manager.py, and the ways toolbox/service.py rewrites a    *)
(* record.  Everything here is a pure operator on records; Lifecycle.tla   *)
(* says which request applies which operator, and when.                    *)
(*                                                                         *)
(* Scope lists are sets: every list the code builds is deduplicated and    *)
(* kept in one order, so only membership tells two of them apart.  A       *)
(* schema hash is the inventory it digests.  Timestamps, titles, reasons   *)
(* and error texts are left out; of last_error only its presence is kept.  *)
(***************************************************************************)
CONSTANTS
  Tool,        \* the names a downstream server may give its tools
  Inventory,   \* the inventories a downstream server may report
  None         \* Python's None

ASSUME InventoryAssumption == Inventory \subseteq SUBSET Tool
ASSUME NoneAssumption == None \notin Inventory

Scope == {"thread", "session", "global"}

TransportState ==
  {"inactive", "connecting", "connected", "stale", "failed"}

HealthStatus == {"healthy", "stale", "failed"}

(* What the caller of register_toolset decides once and for all. *)
Policy ==
  [ default_scope                     : Scope,
    supported_scopes                  : SUBSET Scope,
    restorable_scopes                 : SUBSET Scope,
    restore_requires_identity         : BOOLEAN,
    restore_requires_explicit_request : BOOLEAN ]

ToolsetRecord ==
  [ policy               : Policy,
    loaded_scopes        : SUBSET Scope,
    recoverable_scopes   : SUBSET Scope,
    transport_state      : TransportState,
    stale                : BOOLEAN,
    schema_hash          : Inventory \cup {None},
    previous_schema_hash : Inventory \cup {None},
    last_health_status   : HealthStatus \cup {None},
    last_error           : BOOLEAN ]

-----------------------------------------------------------------------------
(* ToolsetRecord.validate_scope_policy: every load of the state file runs   *)
(* it on every record of the file, and one rejection fails the whole load.  *)

ValidScopePolicy(rec) ==
  /\ rec.policy.default_scope \in rec.policy.supported_scopes
  /\ rec.loaded_scopes \subseteq rec.policy.supported_scopes
  /\ rec.policy.restorable_scopes \subseteq rec.policy.supported_scopes
  /\ "thread" \notin rec.policy.restorable_scopes
  /\ rec.recoverable_scopes \subseteq rec.policy.supported_scopes
  /\ rec.recoverable_scopes \subseteq rec.policy.restorable_scopes

NewRecord(policy) ==
  [ policy               |-> policy,
    loaded_scopes        |-> {},
    recoverable_scopes   |-> {},
    transport_state      |-> "inactive",
    stale                |-> FALSE,
    schema_hash          |-> None,
    previous_schema_hash |-> None,
    last_health_status   |-> None,
    last_error           |-> FALSE ]

(* The record _bootstrap_defaults seeds on an empty state file. *)
DefaultPolicy ==
  [ default_scope                     |-> "thread",
    supported_scopes                  |-> Scope,
    restorable_scopes                 |-> {},
    restore_requires_identity         |-> TRUE,
    restore_requires_explicit_request |-> TRUE ]

-----------------------------------------------------------------------------
(* ScopeManager *)

(* mutation: the explicit-request gate is forgotten *)
RecoveryScopesUnasked(rec, identity, explicit) ==
  IF rec.policy.restore_requires_identity /\ ~identity THEN {}
  ELSE rec.recoverable_scopes

RecoveryScopes(rec, identity, explicit) ==
  IF \/ rec.policy.restore_requires_identity /\ ~identity
     \/ rec.policy.restore_requires_explicit_request /\ ~explicit
  THEN {}
  ELSE rec.recoverable_scopes \cap rec.policy.restorable_scopes
                              \cap rec.policy.supported_scopes

(* add_scope for every scope of S *)
AddScopes(rec, S) ==
  [rec EXCEPT !.loaded_scopes = @ \cup S]

(* mutation: every activated scope is recoverable *)
AddRecoverableAnyScope(rec, S) ==
  [rec EXCEPT !.recoverable_scopes = @ \cup S]

(* add_recoverable_scope for every scope of S *)
AddRecoverableScopes(rec, S) ==
  [rec EXCEPT !.recoverable_scopes = @ \cup (S \cap rec.policy.restorable_scopes)]

RemoveLoadedScope(rec, s) ==   \* mutation: it stays recoverable
  [rec EXCEPT !.loaded_scopes = @ \ {s}]

RemoveScope(rec, s) ==
  [rec EXCEPT !.loaded_scopes = @ \ {s}, !.recoverable_scopes = @ \ {s}]

-----------------------------------------------------------------------------
(* The rewrites of a record that the service's requests share. *)

InState(rec, state) == [rec EXCEPT !.transport_state = state]

(* A further scope on a runtime that is already mounted. *)
Reused(rec, S) ==
  InState(AddScopes(rec, S), IF rec.stale THEN "stale" ELSE "connected")

(* mutation: the hash of the replaced contract is dropped *)
ConnectedForgetful(rec, hash, previous) ==
  [rec EXCEPT !.transport_state = "connected",
              !.stale = FALSE,
              !.schema_hash = hash,
              !.last_health_status = None,
              !.last_error = FALSE]

(* A new runtime was mounted with inventory hash; previous is its forerunner. *)
Connected(rec, hash, previous) ==
  [rec EXCEPT !.transport_state = "connected",
              !.stale = FALSE,
              !.schema_hash = hash,
              !.previous_schema_hash = previous,
              !.last_health_status = None,
              !.last_error = FALSE]

(* activate_toolsets: the handler that catches a failed open or swap. *)
ActivationFailed(rec) ==
  [rec EXCEPT !.transport_state = "failed", !.last_error = TRUE]

(* restore_toolsets: the same handler marks the record stale too. *)
RestoreFailed(rec) ==
  [rec EXCEPT !.transport_state = "failed", !.stale = TRUE, !.last_error = TRUE]

(* refresh_toolsets and _record_runtime_failure: live is has_connection. *)
RuntimeFailed(rec, live) ==
  [rec EXCEPT !.transport_state = IF live THEN "stale" ELSE "failed",
              !.stale = TRUE,
              !.last_error = TRUE]

(* mutation: the state is cleared *)
DeactivatedStateless(rec) ==
  [rec EXCEPT !.transport_state = None, !.stale = FALSE, !.last_error = FALSE]

Deactivated(rec) ==
  [rec EXCEPT !.transport_state = "inactive", !.stale = FALSE, !.last_error = FALSE]

(* _record_health_observation: only a healthy probe touches the state. *)
Observed(rec, status, live) ==
  [rec EXCEPT !.last_health_status = status,
              !.transport_state = IF status = "healthy" /\ live
                                  THEN "connected" ELSE @]

(* clear_stale_toolsets skips a record with nothing to clear.  A health     *)
(* error accompanies exactly the statuses "stale" and "failed".             *)
NeedsClearing(rec) ==
  rec.stale \/ rec.last_error \/ rec.last_health_status \in {"stale", "failed"}

StaleCleared(rec, live) ==
  [rec EXCEPT !.stale = FALSE,
              !.last_error = FALSE,
              !.last_health_status = None,
              !.transport_state = IF rec.loaded_scopes = {} THEN "inactive"
                                  ELSE IF live THEN "connected" ELSE "failed"]

MarkedStale(rec) == [rec EXCEPT !.stale = TRUE, !.transport_state = "stale"]

(* mutation: recoverable scopes are cleared with the loaded ones *)
ReconciledToNothing(rec) ==
  [rec EXCEPT !.recoverable_scopes = {},
              !.loaded_scopes = {},
              !.transport_state = "inactive"]

(* _reconcile_scope_state_on_startup *)
Reconciled(rec) ==
  [rec EXCEPT !.recoverable_scopes =
                IF @ = {} THEN rec.loaded_scopes \cap rec.policy.restorable_scopes
                          ELSE @,
              !.loaded_scopes = {},
              !.transport_state = "inactive"]
=============================================================================
