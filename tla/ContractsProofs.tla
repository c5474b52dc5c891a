-------------------------- MODULE ContractsProofs --------------------------
(***************************************************************************)
(* Proofs about the contract surfaces: for any tools and any listings, and *)
(* any history of registrations, activations, refreshes and failures, the  *)
(* diffs are right and repeat what the refreshes reported.                 *)
(***************************************************************************)
EXTENDS ContractsProperties, TLAPS

(* The types the steps rest on.                                            *)
Typed ==
  /\ TypeOK
  /\ opening # None => opening.tools \in Inventory /\ opening.old \in Inventory \cup {None}

(* How record, snapshots, the request that is under way and the last report *)
(* go together.                                                            *)
Consistent ==
  /\ record = None => cache = None /\ opening = None /\ reported = None
  /\ record # None => record.hash = cache
  /\ cache = None => previous = None /\ ~active
  /\ opening # None =>
       /\ opening.old = cache
       /\ opening.request = "refresh" =>
            cache # None /\ opening.diff = Diff(cache, opening.tools)
  /\ reported # None =>
       /\ previous # None /\ cache # None
       /\ reported.tools = cache /\ reported.old = previous
       /\ reported.diff = Diff(previous, cache)

IInv == Typed /\ Consistent /\ PreviousNamed /\ HealthOfThisContract

-----------------------------------------------------------------------------
(* A diff of any two inventories turns the one into the other, and is empty *)
(* only if they are equal (diff_toolsets).                                  *)
LEMMA DiffIsRight ==
  ASSUME NEW before \in Inventory, NEW after \in Inventory
  PROVE  /\ Turns(before, Diff(before, after), after)
         /\ Diff(before, after) # NoDiff <=> after # before
<1>1. Turns(before, Diff(before, after), after)
  BY DEF Turns, Diff
<1>2. ASSUME Diff(before, after) = NoDiff PROVE after = before
  <2>1. /\ DOMAIN after \ DOMAIN before = {}
        /\ DOMAIN before \ DOMAIN after = {}
        /\ {n \in DOMAIN after \cap DOMAIN before : after[n] # before[n]} = {}
    BY <1>2 DEF Diff, NoDiff
  <2>2. DOMAIN after = DOMAIN before /\ \A n \in DOMAIN after : after[n] = before[n]
    BY <2>1
  <2> QED BY <2>2 DEF Inventory
<1>3. after = before => Diff(before, after) = NoDiff
  BY DEF Diff, NoDiff
<1> QED BY <1>1, <1>2, <1>3

(* A listing without duplicates stands for an inventory                     *)
(* (validate_tool_inventory, normalize_tool).                               *)
LEMMA ListingIsInventory ==
  ASSUME NEW listing \in Listing
  PROVE  Normalized(listing) \in Inventory
<1> DEFINE names == {listing[i].name : i \in DOMAIN listing}
           Told(n) == CHOOSE tool \in ToSet(listing) : tool.name = n
<1>1. PICK m \in 0 .. MaxListed : listing \in [1 .. m -> [name : Name, text : Description]]
  BY DEF Listing, SeqOf
<1>2. \A i \in DOMAIN listing : listing[i] \in [name : Name, text : Description]
  BY <1>1
<1>3. names \in SUBSET Name
  BY <1>2
<1>4. ASSUME NEW n \in names PROVE Told(n).text \in Description
  <2>1. PICK i \in DOMAIN listing : listing[i].name = n
    BY <1>4
  <2>2. \E tool \in ToSet(listing) : tool.name = n
    BY <2>1 DEF ToSet
  <2>3. Told(n) \in ToSet(listing)
    BY <2>2
  <2>4. Told(n) \in [name : Name, text : Description]
    BY <2>3, <1>2 DEF ToSet
  <2> QED BY <2>4
<1>5. Normalized(listing) \in [names -> Description]
  BY <1>4 DEF Normalized
<1> QED BY <1>3, <1>5 DEF Inventory

-----------------------------------------------------------------------------
LEMMA InitIInv == Init => IInv
BY DEF Init, IInv, Typed, TypeOK, Consistent, PreviousNamed, HealthOfThisContract

(* One lemma for each group of steps. *)
LEMMA RegistrationKeepsIInv ==
  ASSUME IInv, Register \/ Unregister
  PROVE  IInv'
<1> USE NoneAssumption DEF IInv, Typed, TypeOK, Consistent, PreviousNamed,
        HealthOfThisContract, Unlocked, stored
<1>1. CASE Register
  <2>1. Fresh \in Contract /\ Fresh.hash = None /\ Fresh.previous = None /\ Fresh.health = "unknown"
    BY DEF Fresh, Contract
  <2> QED BY <1>1, <2>1 DEF Register
<1>2. CASE Unregister
  BY <1>2 DEF Unregister
<1> QED BY <1>1, <1>2

LEMMA MountKeepsIInv ==
  ASSUME IInv, NEW request \in {"open", "refresh"}, Mount(request)
  PROVE  IInv'
<1> USE DEF IInv, Typed, TypeOK, Consistent, PreviousNamed, HealthOfThisContract,
        Unlocked, stored
<1>1. PICK listing \in Listing :
        /\ mounted' = Normalized(listing)
        /\ opening' =
             [ request |-> request, tools |-> mounted', old |-> cache,
               diff |-> Diff(IF cache = None THEN <<>> ELSE cache, mounted') ]
  BY DEF Mount
<1>2. mounted' \in Inventory
  BY <1>1, ListingIsInventory
<1>3. /\ record # None /\ (request = "refresh" => active)
      /\ UNCHANGED <<record, cache, previous, active, reported>>
  BY DEF Mount
<1>4. Typed'
  BY <1>1, <1>2, <1>3
<1>5. opening'.request = "refresh" =>
        cache # None /\ opening'.diff = Diff(cache, opening'.tools)
  BY <1>1, <1>3
<1>6. (\A a, b : Diff(a, b)' = Diff(a, b)) /\ opening'.old = cache
  BY <1>1 DEF Diff
<1>7. Consistent'
  BY <1>3, <1>5, <1>6 DEF Diff
<1> QED BY <1>3, <1>4, <1>7

LEMMA InstallKeepsIInv ==
  ASSUME IInv, Install
  PROVE  IInv'
<1> USE NoneAssumption DEF IInv, Typed, TypeOK, Consistent, PreviousNamed,
        HealthOfThisContract
<1>1. /\ record \in Contract /\ record # None
      /\ opening.tools \in Inventory /\ opening.old = cache
      /\ cache' = opening.tools /\ cache' # None /\ opening' = None
      /\ previous' = IF cache # None THEN cache ELSE previous
      /\ mounted' = mounted /\ active' = TRUE
  BY DEF Install
<1>2. record' =
        [record EXCEPT
           !.hash = opening.tools, !.health = "unknown", !.observed = None,
           !.previous = IF opening.request = "refresh" THEN opening.old ELSE record.hash]
  BY DEF Install
<1>3. /\ record' \in Contract /\ record' # None
      /\ record'.hash = opening.tools /\ record'.health = "unknown"
      /\ record'.previous = cache
  BY <1>1, <1>2 DEF Contract
<1>4. \/ reported' = None
      \/ opening.request = "refresh" /\ reported' = opening
  BY DEF Install
<1>5. Typed'
  BY <1>1, <1>3
<1>6. PreviousNamed' /\ HealthOfThisContract'
  BY <1>1, <1>3
<1>7. reported' # None =>
        /\ previous' # None /\ cache' # None
        /\ reported'.tools = cache' /\ reported'.old = previous'
        /\ reported'.diff = Diff(previous', cache')
  BY <1>1, <1>4 DEF Install
<1>8. Consistent'
  BY <1>1, <1>3, <1>7 DEF Diff
<1> QED BY <1>5, <1>6, <1>8

LEMMA HealthKeepsIInv ==
  ASSUME IInv, Probe \/ ClearStale
  PROVE  IInv'
<1> USE NoneAssumption DEF IInv, Typed, TypeOK, Consistent, PreviousNamed,
        HealthOfThisContract, Unlocked
<1>1. ASSUME NEW health \in {"unknown", "healthy", "stale", "failed"},
             NEW hash \in Inventory \cup {None},
             Observed(health, hash), record # None,
             health = "healthy" => hash = record.hash,
             mounted' \in {mounted, None}
      PROVE  IInv'
  <2>1. /\ record' \in Contract /\ record' # None
        /\ record'.hash = record.hash /\ record'.previous = record.previous
        /\ record'.health = health /\ record'.observed = hash
    BY <1>1 DEF Observed, Contract
  <2>2. UNCHANGED <<cache, previous, active, opening, reported>>
    BY <1>1 DEF Observed
  <2>3. Typed' /\ PreviousNamed' /\ HealthOfThisContract'
    BY <1>1, <2>1, <2>2
  <2>4. Consistent'
    BY <1>1, <2>1, <2>2 DEF Diff
  <2> QED BY <2>3, <2>4
<1>2. CASE Probe
  <2>1. record # None
    BY <1>2 DEF Probe
  <2>2. CASE mounted' = None /\ Observed("failed", None)
    BY <2>1, <2>2, <1>1
  <2>3. CASE \E listing \in Listing :
               /\ mounted' = mounted
               /\ Observed(IF record.hash # None /\ Normalized(listing) # record.hash
                           THEN "stale" ELSE "healthy", Normalized(listing))
    <3>1. PICK listing \in Listing :
            /\ mounted' = mounted
            /\ Observed(IF record.hash # None /\ Normalized(listing) # record.hash
                        THEN "stale" ELSE "healthy", Normalized(listing))
      BY <2>3
    <3>2. Normalized(listing) \in Inventory
      BY ListingIsInventory
    <3>3. record.hash # None
      BY <1>2, <2>1 DEF Probe
    <3>4. CASE Normalized(listing) # record.hash
      BY <2>1, <3>1, <3>2, <3>3, <3>4, <1>1
    <3>5. CASE Normalized(listing) = record.hash
      BY <2>1, <3>1, <3>2, <3>5, <1>1
    <3> QED BY <3>4, <3>5
  <2> QED BY <1>2, <2>2, <2>3 DEF Probe
<1>3. CASE ClearStale
  BY <1>3, <1>1 DEF ClearStale
<1> QED BY <1>2, <1>3

LEMMA OthersKeepIInv ==
  ASSUME IInv,
         \/ InstallFails \/ Deactivate \/ CallFails
         \/ UNCHANGED vars
  PROVE  IInv'
<1>1. /\ UNCHANGED <<record, cache, previous, reported>>
      /\ opening' = opening \/ opening' = None
      /\ mounted' = mounted \/ mounted' = None
      /\ active' = active \/ active' = FALSE
  BY DEF InstallFails, Deactivate, CallFails, stored, vars
<1>2. /\ record' = record /\ cache' = cache /\ previous' = previous
      /\ reported' = reported
  BY <1>1
<1>3. PreviousNamed' /\ HealthOfThisContract'
  BY <1>2 DEF IInv, PreviousNamed, HealthOfThisContract
<1>4. Typed'
  <2>1. opening' # None => opening' = opening
    BY <1>1
  <2>2. active' => active
    BY <1>1
  <2>3. active' \in BOOLEAN
    BY <1>1 DEF IInv, Typed, TypeOK
  <2> QED BY <1>1, <1>2, <2>1, <2>2, <2>3 DEF IInv, Typed, TypeOK
<1>5. Consistent'
  <2>1. opening' # None => opening' = opening
    BY <1>1
  <2>2. active' => active
    BY <1>1
  <2> QED BY <1>1, <1>2, <2>1, <2>2 DEF IInv, Consistent, Diff
<1> QED BY <1>3, <1>4, <1>5 DEF IInv

(* The invariant is inductive. *)
LEMMA StepKeepsIInv == IInv /\ [Next]_vars => IInv'
<1> SUFFICES ASSUME IInv, [Next]_vars PROVE IInv'
  OBVIOUS
<1>1. CASE \E request \in {"open", "refresh"} : Mount(request)
  BY <1>1, MountKeepsIInv
<1>2. CASE Install
  BY <1>2, InstallKeepsIInv
<1>3. CASE Register \/ Unregister
  BY <1>3, RegistrationKeepsIInv
<1>4. CASE Probe \/ ClearStale
  BY <1>4, HealthKeepsIInv
<1>5. CASE \/ InstallFails \/ Deactivate \/ CallFails
           \/ UNCHANGED vars
  BY <1>5, OthersKeepIInv
<1> QED BY <1>1, <1>2, <1>3, <1>4, <1>5 DEF Next

LEMMA Invariance == Spec => []IInv
BY InitIInv, StepKeepsIInv, PTL DEF Spec

-----------------------------------------------------------------------------
(* Contracts are inventories without duplicates, whatever servers list.     *)
THEOREM ContractsTyped == Spec => []TypeOK
<1>1. IInv => TypeOK
  BY DEF IInv, Typed
<1> QED BY <1>1, Invariance, PTL

(* Each diff a host can ask for turns the previous snapshot into what is    *)
(* inspected, and says so (diff_cached_contracts, diff_mounted_contracts).  *)
THEOREM DiffsAreRight == Spec => []DiffsTurn
<1>1. IInv => DiffsTurn
  <2> SUFFICES ASSUME IInv, NEW source \in {"cached", "mounted"},
                      Tools(source) # None, previous # None
               PROVE  /\ Turns(previous, Diff(previous, Tools(source)), Tools(source))
                      /\ Diff(previous, Tools(source)) # NoDiff <=> Tools(source) # previous
    BY DEF DiffsTurn, ContractDiff
  <2>1. previous \in Inventory /\ Tools(source) \in Inventory
    BY DEF IInv, Typed, TypeOK, Tools
  <2> QED BY <2>1, DiffIsRight
<1> QED BY <1>1, Invariance, PTL

(* Status and diff name the same previous contract, and none of an earlier  *)
(* registration.                                                            *)
THEOREM PreviousIsNamed == Spec => []PreviousNamed
<1>1. IInv => PreviousNamed
  BY DEF IInv
<1> QED BY <1>1, Invariance, PTL

(* The cached diff repeats what the last refresh reported (RefreshResult).  *)
THEOREM ReportsStand == Spec => []ReportStands
<1>1. IInv => ReportStands
  BY DEF IInv, Consistent, ReportStands, ContractDiff, Tools, SchemaHash
<1> QED BY <1>1, Invariance, PTL

(* A toolset reported healthy was seen with the contract stored for it now. *)
THEOREM HealthIsOfThisContract == Spec => []HealthOfThisContract
<1>1. IInv => HealthOfThisContract
  BY DEF IInv
<1> QED BY <1>1, Invariance, PTL
=============================================================================
