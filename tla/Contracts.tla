----------------------------- MODULE Contracts -----------------------------
(***************************************************************************)
(* The tool contracts of one toolset: what its server lists, what is       *)
(* mounted, the snapshots that are kept of it, and what the inspection,    *)
(* diff and health surfaces say of them (toolbox/validation.py             *)
(* and toolbox/service.py).  A tool is what its hash is taken of, apart    *)
(* from its name: its description, or None.  SHA-256 is taken to be        *)
(* injective, so the hash of an inventory is the inventory.                *)
(*                                                                         *)
(* Lifecycle.tla models the locks, runtimes and scopes behind this; here   *)
(* an opening of the toolset is a mount and, when the old runtime has      *)
(* closed, the store.                                                      *)
(***************************************************************************)
EXTENDS Naturals, Sequences, SequencesExt

CONSTANTS
  None,
  Name,       \* tool names
  Words,      \* what tools say of themselves
  MaxListed   \* bound: tools a server lists

ASSUME ContractsAssumption == None \notin Words /\ MaxListed \in Nat

VARIABLES
  record,    \* the stored record's view of the contract, or None
  cache,     \* the schema_cache entry, or None
  previous,  \* the previous_schema_cache entry, or None
  mounted,   \* the tools of the mounted runtime, or None
  active,    \* loaded_scopes is not empty
  opening,   \* the request between mount and store, or None
  reported   \* what the last refresh told its host, or None

stored == <<record, cache, previous>>
vars == <<stored, mounted, active, opening, reported>>

Description == Words \cup {None}
Inventory == UNION {[names -> Description] : names \in SUBSET Name}
Listing == SeqOf([name : Name, text : Description], MaxListed)

-----------------------------------------------------------------------------
(* toolbox/validation.py *)

Duplicates(listing) ==
  {n \in Name : \E i, j \in DOMAIN listing :
                   i # j /\ listing[i].name = n /\ listing[j].name = n}

(* validate_tool_inventory *)
Valid(listing) == Duplicates(listing) = {}

(* normalize_tool: the inventory a listing stands for *)
Normalized(listing) ==
  [n \in {listing[i].name : i \in DOMAIN listing} |->
     (CHOOSE tool \in ToSet(listing) : tool.name = n).text]

(* diff_toolsets *)
Diff(before, after) ==
  [ added   |-> DOMAIN after \ DOMAIN before,
    removed |-> DOMAIN before \ DOMAIN after,
    changed |-> {n \in DOMAIN after \cap DOMAIN before : after[n] # before[n]} ]

NoDiff == [added |-> {}, removed |-> {}, changed |-> {}]

-----------------------------------------------------------------------------
(* The read-only surfaces of toolbox/service.py *)

Tools(source) == IF source = "cached" THEN cache ELSE mounted

(* _contract_source_details: the hash of what is inspected *)
SchemaHash(source) ==
  IF source = "mounted" /\ mounted # None /\ DOMAIN mounted = {} THEN None ELSE Tools(source)

(* _build_contract_diff *)
ContractDiff(source) ==
  LET available == Tools(source) # None /\ previous # None
      diff == IF available THEN Diff(previous, Tools(source)) ELSE NoDiff
  IN [ available  |-> available,
       now        |-> SchemaHash(source),
       before     |-> IF previous # None THEN previous
                      ELSE IF record # None THEN record.previous ELSE None,
       changes    |-> diff,
       hasChanges |-> diff # NoDiff ]

-----------------------------------------------------------------------------
(* The part of a ToolsetRecord that is about the contract *)
Contract ==
  [ hash : Inventory \cup {None}, previous : Inventory \cup {None},
    health : {"unknown", "healthy", "stale", "failed"}, observed : Inventory \cup {None} ]

ASSUME NoneAssumption == None \notin Inventory /\ None \notin Contract

Fresh ==
  [hash |-> None, previous |-> None, health |-> "unknown", observed |-> None]

Unlocked == opening = None

Register ==
  /\ Unlocked /\ record = None
  /\ record' = Fresh
  /\ UNCHANGED <<cache, previous, mounted, active, opening, reported>>

UnregisterRecordOnly ==   \* mutation: the previous snapshot survives
  /\ Unlocked /\ record # None
  /\ record' = None /\ cache' = None
  /\ mounted' = None /\ active' = FALSE /\ reported' = None
  /\ UNCHANGED <<previous, opening>>

(* unregister_toolset, forced or of an inactive toolset *)
Unregister ==
  /\ Unlocked /\ record # None
  /\ record' = None /\ cache' = None /\ previous' = None
  /\ mounted' = None /\ active' = FALSE /\ reported' = None
  /\ UNCHANGED opening

(* activate_toolsets, restore_toolsets, refresh_toolsets: the new runtime   *)
(* has started and told its tools, and is mounted.  One that does not start,*)
(* or names a tool twice, changes nothing here.                             *)
Mount(request) ==
  /\ Unlocked /\ record # None
  /\ request = "refresh" => active
  /\ \E listing \in Listing :
       /\ Valid(listing)
       /\ mounted' = Normalized(listing)
       /\ opening' =
            [ request |-> request, tools |-> mounted',
              old |-> cache,
              diff |-> Diff(IF cache = None THEN <<>> ELSE cache, mounted') ]
  /\ UNCHANGED <<stored, active, reported>>

(* mutation: the health seen of the replaced contract is kept *)
InstallUnhealed ==
  /\ opening # None
  /\ record' =
       [record EXCEPT
          !.hash = opening.tools,
          !.previous = IF opening.request = "refresh" THEN opening.old ELSE record.hash]
  /\ cache' = opening.tools
  /\ previous' = IF cache # None THEN cache ELSE previous
  /\ active' = TRUE
  /\ reported' = IF opening.request = "refresh" THEN opening ELSE None
  /\ opening' = None
  /\ UNCHANGED mounted

(* mutation: replace_schema_snapshot only fills an empty previous entry *)
InstallFirstPrevious ==
  /\ opening # None
  /\ record' =
       [record EXCEPT
          !.hash = opening.tools, !.health = "unknown", !.observed = None,
          !.previous = IF opening.request = "refresh" THEN opening.old ELSE record.hash]
  /\ cache' = opening.tools
  /\ previous' = IF previous = None THEN cache ELSE previous
  /\ active' = TRUE
  /\ reported' = IF opening.request = "refresh" THEN opening ELSE None
  /\ opening' = None
  /\ UNCHANGED mounted

(* The old runtime has closed: record and snapshots are stored.             *)
Install ==
  /\ opening # None
  /\ record' =
       [record EXCEPT
          !.hash = opening.tools, !.health = "unknown", !.observed = None,
          !.previous = IF opening.request = "refresh" THEN opening.old ELSE record.hash]
  /\ cache' = opening.tools
  /\ previous' = IF cache # None THEN cache ELSE previous
  /\ active' = TRUE
  /\ reported' = IF opening.request = "refresh" THEN opening ELSE None
  /\ opening' = None
  /\ UNCHANGED mounted

(* The old runtime's close raises: the new one stays mounted all the same.  *)
InstallFails ==
  /\ opening # None
  /\ opening' = None
  /\ UNCHANGED <<stored, mounted, active, reported>>

Deactivate ==
  /\ Unlocked /\ active
  /\ active' = FALSE /\ mounted' = None
  /\ UNCHANGED <<stored, opening, reported>>

-----------------------------------------------------------------------------
(* health_check_toolsets: the mounted server lists its tools again.         *)
Observed(health, hash) ==
  /\ record' = [record EXCEPT !.health = health, !.observed = hash]
  /\ UNCHANGED <<cache, previous, active, opening, reported>>

Probe ==
  /\ Unlocked /\ active
  /\ \/ mounted' = None /\ Observed("failed", None)
     \/ /\ mounted # None /\ UNCHANGED mounted
        /\ \E listing \in Listing :
             /\ Valid(listing)
             /\ LET drifted == record.hash # None /\ Normalized(listing) # record.hash IN
                Observed(IF drifted THEN "stale" ELSE "healthy", Normalized(listing))

(* clear_stale_toolsets *)
ClearStale ==
  /\ Unlocked /\ record # None
  /\ Observed("unknown", None)
  /\ UNCHANGED mounted

(* call_mounted_tool fails: the runtime is taken down, without the lock.    *)
CallFails ==
  /\ mounted # None
  /\ mounted' = None
  /\ UNCHANGED <<stored, active, opening, reported>>

Init ==
  /\ record = None /\ cache = None /\ previous = None
  /\ mounted = None /\ active = FALSE
  /\ opening = None /\ reported = None

Next ==
  \/ Register \/ Unregister \/ Deactivate
  \/ \E request \in {"open", "refresh"} : Mount(request)
  \/ Install \/ InstallFails
  \/ Probe \/ ClearStale \/ CallFails

Spec == Init /\ [][Next]_vars
=============================================================================
