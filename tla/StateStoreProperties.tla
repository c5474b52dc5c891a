------------------------ MODULE StateStoreProperties ------------------------
(***************************************************************************)
(* What the files should guarantee, whenever the process crashes.          *)
(***************************************************************************)
EXTENDS StateStore

(* Every variable has its type; above all the state file is never partial.  *)
TypeOK ==
  /\ file \in Document \cup {None}
  /\ temp \in Document \cup {Torn, None}
  /\ key \in {"absent", "torn", "whole", "strange"}
  /\ up \in BOOLEAN
  /\ step \in {"boot", "idle", "load", "new_key", "fill_key", "write", "fill", "replace",
               "halted"}
  /\ Len(todo) <= 4
  /\ draft \in Document \cup {None}
  /\ crashes \in 0 .. MaxCrashes

(* What is sealed in the state file can be opened: the key that sealed it    *)
(* was on disk, whole, before the file that needs it.                       *)
SealedHasKey == file # None /\ UsesKey(file) => key = "whole"

(* Once the process serves, no plaintext transport is left in a file it      *)
(* found, and none reaches a file it writes.                                *)
NothingPlain ==
  /\ up => Carrying(file, "plain") = {} /\ file.version = Version
  /\ temp \notin {Torn, None} => Carrying(temp, "plain") = {}

(* A contract is cached only for a registered toolset: a crash in the middle *)
(* of an unregistration leaves nothing that a later registration of the     *)
(* same namespace would inherit.                                            *)
SnapshotsOwned ==
  file # None =>
    \A n \in Namespace :
      file.cache[n] # None \/ file.previous[n] # None => file.toolsets[n] # None

(* What an event says of the document it is logged in. *)
Shows(d, e) ==
  /\ e.kind = "register" => e.ns \in Registered(d)
  /\ e.kind = "activate" =>
       e.ns \in Registered(d) /\ d.toolsets[e.ns].hash = d.cache[e.ns]
  /\ e.kind = "unregister" =>
       /\ e.ns \notin Registered(d)
       /\ d.cache[e.ns] = None /\ d.previous[e.ns] = None

(* An event of success is logged only when the file shows its effect. *)
EventsFollowEffects ==
  [][file # None /\ file'.next > file.next =>
       Shows(file', file'.log[Len(file'.log)].event)]_vars

(* The log is what AuditLog promises, though every write of anything else    *)
(* rewrites it too.                                                         *)
Appended == IF file = None THEN 0 ELSE file.next - 1
Kept == IF file = None THEN <<>> ELSE file.log

Log == INSTANCE AuditLog WITH
  Event <- Event, Limit <- RetentionLimit, appended <- Appended, kept <- Kept

AuditAsPromised == Log!Spec

(* Whatever file a process finds, its own or an older one, and wherever the *)
(* last one crashed, it can start: no file is left whose key was never kept, *)
(* and only a key file that was truncated and not filled, which             *)
(* _load_or_create_key writes in place, keeps a process from starting.      *)
HaltsOnTornKeyOnly == step = "halted" => key = "torn"
=============================================================================
