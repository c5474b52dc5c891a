------------------------ MODULE ContractsProperties ------------------------
(***************************************************************************)
(* What the contract surfaces of a toolset (Contracts) should say.         *)
(***************************************************************************)
EXTENDS Contracts, TLC

Names == Permutations(Name)

(* Every variable has its type: contracts are inventories without           *)
(* duplicates, and only a registered toolset is active or being opened.     *)
TypeOK ==
  /\ cache \in Inventory \cup {None}
  /\ previous \in Inventory \cup {None}
  /\ mounted \in Inventory \cup {None}
  /\ active \in BOOLEAN
  /\ record \in Contract \cup {None}
  /\ opening # None \/ active => record # None

-----------------------------------------------------------------------------
(* A diff turns the one inventory into the other: what it does not name is  *)
(* the same in both.                                                        *)
Turns(before, diff, after) ==
  /\ DOMAIN after = (DOMAIN before \ diff.removed) \cup diff.added
  /\ diff.added \cap DOMAIN before = {}
  /\ diff.removed \subseteq DOMAIN before
  /\ diff.changed \subseteq DOMAIN before \cap DOMAIN after
  /\ \A n \in DOMAIN after \ diff.added : n \in diff.changed <=> after[n] # before[n]

(* Whatever the history of activations, refreshes and failures, each diff a *)
(* host can ask for turns the previous snapshot into the inspected contract,*)
(* and says that there are changes exactly if the two differ                *)
(* (diff_cached_contracts, diff_mounted_contracts).                         *)
DiffsTurn ==
  \A source \in {"cached", "mounted"} :
    LET diff == ContractDiff(source) IN
    diff.available =>
      /\ Turns(previous, diff.changes, Tools(source))
      /\ diff.hasChanges <=> Tools(source) # previous

(* The record names the previous snapshot by its hash, though one is taken  *)
(* from the record and the other from the cache, in two writes: status and  *)
(* diff tell the same story, and nothing of an earlier registration.        *)
PreviousNamed == record # None /\ previous # None => record.previous = previous

(* What a refresh reported stands: until the next contract is installed, the*)
(* cached diff repeats it, with the same hashes (RefreshResult).            *)
ReportStands ==
  reported # None =>
    LET diff == ContractDiff("cached") IN
    /\ diff.available /\ diff.changes = reported.diff
    /\ diff.before = reported.old /\ diff.now = reported.tools

(* A toolset that is reported healthy was seen with the contract that is    *)
(* stored for it now, not with one that has been replaced since.            *)
HealthOfThisContract ==
  record # None /\ record.health = "healthy" => record.observed = record.hash
=============================================================================
