----------------------- MODULE LifecycleRecordsProofs -----------------------
(***************************************************************************)
(* The records of the state file, for every set of namespaces, tasks,      *)
(* policies and contracts: which scopes a step may add or take away, what  *)
(* a restart keeps, what the hashes of a record name, and how what is      *)
(* mounted relates to what is recorded and cached.                         *)
(*                                                                         *)
(* The difficulty is the copy of a record that a request reads before an   *)
(* await and writes back after it.  A first lemma (RecordShapes) says what *)
(* each action may do to the records and to the copies; the invariants say *)
(* how a carried copy relates to the record that is stored meanwhile.      *)
(***************************************************************************)
EXTENDS LifecycleSafetyProofs

-----------------------------------------------------------------------------
(* Two records that agree on what is promised of scopes, and of hashes.     *)

SameScopes(a, b) ==
  /\ a.policy = b.policy
  /\ a.loaded_scopes = b.loaded_scopes
  /\ a.recoverable_scopes = b.recoverable_scopes

SameHashes(a, b) ==
  /\ a.schema_hash = b.schema_hash
  /\ a.previous_schema_hash = b.previous_schema_hash

Same(a, b) == SameScopes(a, b) /\ SameHashes(a, b)

(* A record that keeps both, or none where there was none. *)
Touched(a, b) == IF a = None THEN b = None ELSE b \in ToolsetRecord /\ Same(b, a)

LEMMA SoundIsRecord ==
  ASSUME IInv, NEW n \in Namespace, store[n] # None
  PROVE  store[n] \in ToolsetRecord /\ Sound(store[n])
  BY DEF IInv, FileInv, Sound

LEMMA RecordIsSomething == \A rec \in ToolsetRecord : rec # None
  BY NoneIsNothing

(* The rewrites that touch neither scopes nor hashes. *)
LEMMA StateRewrites ==
  ASSUME NEW rec \in ToolsetRecord, NEW live \in BOOLEAN
  PROVE  /\ \A state \in TransportState :
              InState(rec, state) \in ToolsetRecord /\ Same(InState(rec, state), rec)
         /\ ActivationFailed(rec) \in ToolsetRecord /\ Same(ActivationFailed(rec), rec)
         /\ RestoreFailed(rec) \in ToolsetRecord /\ Same(RestoreFailed(rec), rec)
         /\ RuntimeFailed(rec, live) \in ToolsetRecord /\ Same(RuntimeFailed(rec, live), rec)
  BY DEF ToolsetRecord, TransportState, Same, SameScopes, SameHashes,
     InState, ActivationFailed, RestoreFailed, RuntimeFailed

LEMMA HealthRewrites ==
  ASSUME NEW rec \in ToolsetRecord, NEW live \in BOOLEAN
  PROVE  /\ \A status \in HealthStatus :
              Observed(rec, status, live) \in ToolsetRecord /\ Same(Observed(rec, status, live), rec)
         /\ Deactivated(rec) \in ToolsetRecord /\ Same(Deactivated(rec), rec)
         /\ StaleCleared(rec, live) \in ToolsetRecord /\ Same(StaleCleared(rec, live), rec)
         /\ MarkedStale(rec) \in ToolsetRecord /\ Same(MarkedStale(rec), rec)
  BY DEF ToolsetRecord, TransportState, Same, SameScopes, SameHashes,
     Observed, Deactivated, StaleCleared, MarkedStale

LEMMA SameTransitive ==
  ASSUME NEW a, NEW b, NEW c, Same(a, b), Same(b, c)
  PROVE  Same(a, c)
  BY DEF Same, SameScopes, SameHashes

(* A record without scope s. *)
Less(rec, from, s) ==
  /\ rec.policy = from.policy
  /\ rec.loaded_scopes = from.loaded_scopes \ {s}
  /\ rec.recoverable_scopes = from.recoverable_scopes \ {s}
  /\ SameHashes(rec, from)

LEMMA RemovingRewrites ==
  ASSUME NEW rec \in ToolsetRecord, NEW s
  PROVE  RemoveScope(rec, s) \in ToolsetRecord /\ Less(RemoveScope(rec, s), rec, s)
  BY DEF ToolsetRecord, RemoveScope, Less, SameHashes

(* The rewrites that grant or regain scopes. *)
LEMMA ScopeRewrites ==
  ASSUME NEW rec \in ToolsetRecord, NEW S \in SUBSET Scope
  PROVE  /\ Reused(rec, S) \in ToolsetRecord
         /\ Reused(rec, S).policy = rec.policy
         /\ Reused(rec, S).loaded_scopes = rec.loaded_scopes \cup S
         /\ Reused(rec, S).recoverable_scopes = rec.recoverable_scopes
         /\ SameHashes(Reused(rec, S), rec)
         /\ AddScopes(rec, S) \in ToolsetRecord
         /\ AddScopes(rec, S).policy = rec.policy
         /\ AddScopes(rec, S).loaded_scopes = rec.loaded_scopes \cup S
         /\ AddScopes(rec, S).recoverable_scopes = rec.recoverable_scopes
         /\ SameHashes(AddScopes(rec, S), rec)
         /\ AddRecoverableScopes(rec, S) \in ToolsetRecord
         /\ AddRecoverableScopes(rec, S).policy = rec.policy
         /\ AddRecoverableScopes(rec, S).loaded_scopes = rec.loaded_scopes
         /\ AddRecoverableScopes(rec, S).recoverable_scopes
              = rec.recoverable_scopes \cup (S \cap rec.policy.restorable_scopes)
         /\ SameHashes(AddRecoverableScopes(rec, S), rec)
  <1>1. /\ AddScopes(rec, S) \in ToolsetRecord
        /\ AddScopes(rec, S).policy = rec.policy
        /\ AddScopes(rec, S).loaded_scopes = rec.loaded_scopes \cup S
        /\ AddScopes(rec, S).recoverable_scopes = rec.recoverable_scopes
        /\ SameHashes(AddScopes(rec, S), rec)
    BY DEF ToolsetRecord, AddScopes, SameHashes
  <1>2. /\ AddRecoverableScopes(rec, S) \in ToolsetRecord
        /\ AddRecoverableScopes(rec, S).policy = rec.policy
        /\ AddRecoverableScopes(rec, S).loaded_scopes = rec.loaded_scopes
        /\ AddRecoverableScopes(rec, S).recoverable_scopes
             = rec.recoverable_scopes \cup (S \cap rec.policy.restorable_scopes)
        /\ SameHashes(AddRecoverableScopes(rec, S), rec)
    BY DEF ToolsetRecord, AddRecoverableScopes, SameHashes
  <1> DEFINE a == AddScopes(rec, S)
  <1> HIDE DEF a
  <1>4. ASSUME a \in ToolsetRecord, NEW state \in TransportState
        PROVE  InState(a, state) \in ToolsetRecord /\ Same(InState(a, state), a)
    BY <1>4, StateRewrites
  <1>5. Reused(rec, S) = InState(a, IF rec.stale THEN "stale" ELSE "connected")
    BY DEF Reused, a
  <1>6. Reused(rec, S) \in ToolsetRecord /\ Same(Reused(rec, S), a)
    BY <1>1, <1>4, <1>5 DEF TransportState, a
  <1> QED BY <1>1, <1>2, <1>6 DEF Same, SameScopes, SameHashes, a

(* The record of a runtime that was mounted for copy k. *)
LEMMA InstalledRecord ==
  ASSUME NEW k \in Coroutine, k.rec \in ToolsetRecord, NEW hash \in Inventory
  PROVE  LET rec == Installed(k, hash) IN
         /\ rec \in ToolsetRecord
         /\ rec.policy = k.rec.policy
         /\ rec.loaded_scopes = k.rec.loaded_scopes \cup k.grant
         /\ rec.recoverable_scopes =
              IF k.op = "activate"
              THEN k.rec.recoverable_scopes \cup (k.grant \cap k.rec.policy.restorable_scopes)
              ELSE k.rec.recoverable_scopes
         /\ rec.schema_hash = hash
         /\ rec.previous_schema_hash = IF k.op = "refresh" THEN k.old ELSE k.rec.schema_hash
  <1> DEFINE prev == IF k.op = "refresh" THEN k.old ELSE k.rec.schema_hash
             c == Connected(k.rec, hash, prev)
             a == AddScopes(c, k.grant)
  <1>1. prev \in Inventory \cup {None} /\ k.grant \in SUBSET Scope
    BY DEF Coroutine, ToolsetRecord
  <1> HIDE DEF prev
  <1>2. /\ c \in ToolsetRecord /\ SameScopes(c, k.rec)
        /\ c.schema_hash = hash /\ c.previous_schema_hash = prev
    BY <1>1 DEF Connected, ToolsetRecord, TransportState, SameScopes
  <1> HIDE DEF c
  <1>3. /\ a \in ToolsetRecord
        /\ a.policy = c.policy
        /\ a.loaded_scopes = c.loaded_scopes \cup k.grant
        /\ a.recoverable_scopes = c.recoverable_scopes
        /\ SameHashes(a, c)
    BY <1>1, <1>2, ScopeRewrites
  <1> HIDE DEF a
  <1>4. CASE k.op = "activate"
    <2>1. Installed(k, hash) = AddRecoverableScopes(a, k.grant)
      BY <1>4 DEF Installed, a, c, prev
    <2>2. /\ AddRecoverableScopes(a, k.grant) \in ToolsetRecord
          /\ AddRecoverableScopes(a, k.grant).policy = a.policy
          /\ AddRecoverableScopes(a, k.grant).loaded_scopes = a.loaded_scopes
          /\ AddRecoverableScopes(a, k.grant).recoverable_scopes
               = a.recoverable_scopes \cup (k.grant \cap a.policy.restorable_scopes)
          /\ SameHashes(AddRecoverableScopes(a, k.grant), a)
      BY <1>1, <1>3, ScopeRewrites
    <2> QED BY <1>2, <1>3, <1>4, <2>1, <2>2 DEF SameScopes, SameHashes, prev
  <1>5. CASE k.op # "activate"
    <2>1. Installed(k, hash) = a
      BY <1>5 DEF Installed, a, c, prev
    <2> QED BY <1>2, <1>3, <1>5, <2>1 DEF SameScopes, SameHashes, prev
  <1> QED BY <1>4, <1>5

-----------------------------------------------------------------------------
(* What a step does to the records, to the copies and to what is mounted.   *)

(* A copy that will be written with its scopes granted, or one dropped.     *)
Swaps(k) == k.pc = "opening" \/ (k.pc = "closing" /\ k.op \in SwapOp)
Drops(k) == k.pc = "closing" /\ k.op = "deactivate"
Blank(k) == ~Swaps(k) /\ ~Drops(k)

SameCopy(k, j) ==
  /\ SameRequest(k, j)
  /\ k.rec = j.rec /\ k.grant = j.grant /\ k.old = j.old
  /\ Swaps(k) <=> Swaps(j)
  /\ Drops(k) <=> Drops(j)

Touches ==
  /\ \A n \in Namespace : Touched(store[n], store'[n])
  /\ UNCHANGED <<cached, previous>>

UnmountsOnly == \A n \in Namespace : mounted'[n] # None => mounted[n] # None

Alone(t) == \A u \in Task : u # t => task'[u] = task[u]

Rests ==
  /\ Touches /\ UnmountsOnly
  /\ \A u \in Task : Blank(task'[u]) \/ SameCopy(task'[u], task[u])

EnteredFor(t, ops) ==
  task[t].pc = "entering" /\ HasLock(t) /\ task[t].op \in ops /\ store[task[t].ns] # None

CopiesToSwap(t) ==
  LET k == task'[t]  n == task[t].ns IN
  /\ EnteredFor(t, SwapOp)
  /\ SameRequest(k, task[t]) /\ k.pc = "opening" /\ Same(k.rec, store[n])
  /\ \/ /\ k.op = "activate"
        /\ \E s \in store[n].policy.supported_scopes : k.grant = {s}
     \/ /\ k.op \in {"restore", "boot_restore"} /\ k.grant # {}
        /\ \E identity \in BOOLEAN :
             /\ k.op = "boot_restore" => identity = StableIdentity
             /\ k.grant = RecoveryScopes(store[n], identity, k.op = "restore")
     \/ /\ k.op = "refresh"
        /\ k.grant = {} /\ k.old = cached[n] /\ store[n].loaded_scopes # {}
  /\ Touches /\ UnmountsOnly /\ Alone(t)

CopiesToDrop(t) ==
  LET k == task'[t]  n == task[t].ns IN
  /\ EnteredFor(t, {"deactivate"})
  /\ SameRequest(k, task[t]) /\ Drops(k)
  /\ \E s \in store[n].loaded_scopes : Less(k.rec, store[n], s)
  /\ k.rec.loaded_scopes = {}
  /\ mounted'[n] = None
  /\ Touches /\ UnmountsOnly /\ Alone(t)

Writes(t, rec) ==
  /\ Put(task[t].ns, rec)
  /\ task'[t] = Idle /\ Alone(t)

WritesOnly(t, rec) ==
  Writes(t, rec) /\ UNCHANGED <<cached, previous>> /\ UnmountsOnly

Registers(t) ==
  /\ task[t].pc = "entering" /\ HasLock(t)
  /\ task[t].op = "register" /\ store[task[t].ns] = None
  /\ \E policy \in Policies : WritesOnly(t, NewRecord(policy))

Forgets(t) ==
  /\ task[t].op = "unregister"
  /\ Writes(t, None) /\ UnmountsOnly
  /\ cached' = [cached EXCEPT ![task[t].ns] = None]
  /\ previous' = [previous EXCEPT ![task[t].ns] = None]

Grants(t) ==
  LET from == store[task[t].ns] IN
  /\ EnteredFor(t, {"activate"})
  /\ from.loaded_scopes # {}
  /\ \E rec \in ToolsetRecord, s \in from.policy.supported_scopes :
       /\ rec.policy = from.policy
       /\ rec.loaded_scopes = from.loaded_scopes \cup {s}
       /\ rec.recoverable_scopes
            = from.recoverable_scopes \cup ({s} \cap from.policy.restorable_scopes)
       /\ SameHashes(rec, from)
       /\ WritesOnly(t, rec)

Regains(t) ==
  LET from == store[task[t].ns] IN
  /\ EnteredFor(t, {"restore", "boot_restore"})
  /\ mounted[task[t].ns] # None
  /\ \E rec \in ToolsetRecord, identity \in BOOLEAN :
       /\ task[t].op = "boot_restore" => identity = StableIdentity
       /\ rec.policy = from.policy
       /\ rec.loaded_scopes
            = from.loaded_scopes \cup RecoveryScopes(from, identity, task[t].op = "restore")
       /\ rec.recoverable_scopes = from.recoverable_scopes
       /\ SameHashes(rec, from)
       /\ WritesOnly(t, rec)

DropsScope(t) ==
  LET from == store[task[t].ns] IN
  /\ EnteredFor(t, {"deactivate"})
  /\ \E rec \in ToolsetRecord, s \in from.loaded_scopes :
       /\ Less(rec, from, s)
       /\ rec.loaded_scopes # {} \/ mounted[task[t].ns] = None
       /\ WritesOnly(t, rec)

Installs(t) ==
  /\ Swaps(task[t])
  /\ \E hash \in Inventory :
       /\ Writes(t, Installed(task[t], hash))
       /\ ReplaceSnapshot(task[t].ns, hash)
  /\ \A n \in Namespace : n # task[t].ns => mounted'[n] = mounted[n]

Fails(t) ==
  /\ Swaps(task[t])
  /\ \E rec \in ToolsetRecord : Same(rec, task[t].rec) /\ WritesOnly(t, rec)

DropsCopy(t) ==
  /\ Drops(task[t])
  /\ \E rec \in ToolsetRecord : Same(rec, task[t].rec) /\ WritesOnly(t, rec)

RecordShape(t) ==
  \/ CopiesToSwap(t) \/ CopiesToDrop(t)
  \/ Registers(t) \/ Forgets(t) \/ Grants(t) \/ Regains(t) \/ DropsScope(t)
  \/ Installs(t) \/ Fails(t) \/ DropsCopy(t)

(* A new process finds the records as they were, but for one that a request *)
(* had just written when the old process died.                              *)
Finds(found) ==
  \/ \A n \in Namespace : Touched(store[n], found[n])
  \/ \E t \in Task, hash \in Inventory :
       /\ Crash(t) /\ Swaps(task[t])
       /\ found = [store EXCEPT ![task[t].ns] = Installed(task[t], hash)]

Removes(t) == task[t].op = "unregister" /\ task[t].pc \notin {"idle", "gone"}

Reboots ==
  /\ \E found : Reboot(found) /\ Finds(found)
  /\ ProcessGone
  /\ UNCHANGED <<cached, previous>> \/ \E t \in Task : Removes(t)

LEMMA TouchesNothing ==
  ASSUME IInv, UNCHANGED <<store, cached, previous>>
  PROVE  Touches
  <1>1. ASSUME NEW n \in Namespace PROVE Touched(store[n], store'[n])
    BY SoundIsRecord DEF Touched, Same, SameScopes, SameHashes
  <1> QED BY <1>1 DEF Touches

LEMMA TouchesOne ==
  ASSUME IInv, NEW n \in Namespace, NEW rec, Put(n, rec), Touched(store[n], rec),
         UNCHANGED <<cached, previous>>
  PROVE  Touches
  <1>1. \A m \in Namespace : store'[m] = IF m = n THEN rec ELSE store[m]
    BY DEF Put, IInv, FileInv
  <1>2. ASSUME NEW m \in Namespace PROVE Touched(store[m], store'[m])
    <2>1. CASE m = n
      BY <1>1, <2>1
    <2>2. CASE m # n
      BY <1>1, <2>2, SoundIsRecord DEF Touched, Same, SameScopes, SameHashes
    <2> QED BY <2>1, <2>2
  <1> QED BY <1>2 DEF Touches

LEMMA ReturnIs ==
  ASSUME IInv, NEW t \in Task, Return(t)
  PROVE  task'[t] = Idle /\ Alone(t)
  BY DEF IInv, TaskInv, Return, Alone

LEMMA IdleBlank == Blank(Idle)
  BY DEF Blank, Swaps, Drops, Idle

LEMMA RestsAlone ==
  ASSUME Touches, UnmountsOnly, NEW t \in Task, Alone(t),
         Blank(task'[t]) \/ SameCopy(task'[t], task[t])
  PROVE  Rests
  <1>1. \A u \in Task : SameCopy(task[u], task[u])
    BY DEF SameCopy, SameRequest
  <1>2. \A u \in Task : Blank(task'[u]) \/ SameCopy(task'[u], task[u])
    BY <1>1 DEF Alone
  <1> QED BY <1>2 DEF Rests

LEMMA RestsReturned ==
  ASSUME IInv, Touches, NEW t \in Task, Return(t), UNCHANGED mounted
  PROVE  Rests
  <1>1. UnmountsOnly
    BY DEF UnmountsOnly
  <1> QED BY <1>1, ReturnIs, IdleBlank, RestsAlone

(* disconnect unmounts one runtime and keeps the request's copy. *)
LEMMA DisconnectIs ==
  ASSUME IInv, NEW t \in Task, NEW n \in Namespace, NEW next \in Coroutine,
         Disconnect(t, n, next), mounted[n] # None
  PROVE  /\ Alone(t) /\ UnmountsOnly /\ mounted'[n] = None
         /\ SameRequest(task'[t], next) /\ task'[t].pc = "closing"
         /\ task'[t].rec = next.rec /\ task'[t].grant = next.grant /\ task'[t].old = next.old
  <1>1. mounted[n] \in Runtime /\ CloseSignal(mounted[n]) \in {"ok", None}
    BY DEF IInv, TransportInv, CloseSignal
  <1> DEFINE k == [next EXCEPT !.pc = "closing", !.rt = mounted[n],
                               !.sig = CloseSignal(mounted[n])]
  <1>2. /\ SameRequest(k, next) /\ k.pc = "closing"
        /\ k.rec = next.rec /\ k.grant = next.grant /\ k.old = next.old
    BY <1>1 DEF Coroutine, SameRequest
  <1>3. task' = [task EXCEPT ![t] = k] /\ mounted' = [mounted EXCEPT ![n] = None]
    BY DEF Disconnect
  <1> HIDE DEF k
  <1> QED BY <1>2, <1>3 DEF Alone, UnmountsOnly, IInv, TaskInv, TransportInv

(* A request under the lock leaves scopes and hashes alone, or has a shape. *)
LEMMA SectionRecords ==
  ASSUME IInv, PlaceInv, NEW t \in Task, Section(t)
  PROVE  Rests \/ RecordShape(t)
  <1> DEFINE n == task[t].ns
  <1> USE DEF n
  <1>0. task[t] \in Coroutine /\ TaskOK(task[t]) /\ PlaceOK(task[t])
    BY DEF IInv, TaskInv, PlaceInv
  <1>n. ASSUME task[t].pc \notin {"idle", "gone"} PROVE n \in Namespace
    BY <1>0, <1>n DEF TaskOK
  <1>s. ASSUME n \in Namespace, store[n] # None
        PROVE  /\ store[n] \in ToolsetRecord /\ Sound(store[n])
               /\ store[n].policy.supported_scopes \subseteq Scope
    BY <1>s, SoundIsRecord DEF ToolsetRecord, Policy
  <1>l. \A m : Live(m) \in BOOLEAN
    BY DEF Live
  <1>t. ASSUME NEW rec, n \in Namespace, Put(n, rec), Touched(store[n], rec),
               UNCHANGED <<cached, previous, mounted>>, Return(t)
        PROVE  Rests
    BY <1>t, TouchesOne, RestsReturned
  <1>w. ASSUME NEW rec, n \in Namespace, Put(n, rec),
               UNCHANGED <<cached, previous, mounted>>, Return(t)
        PROVE  WritesOnly(t, rec)
    BY <1>w, ReturnIs DEF WritesOnly, Writes, UnmountsOnly
  <1>1. CASE Refuse(t) \/ RestoreSkip(t) \/ DisconnectRaised(t)
    <2>1. Return(t) /\ UNCHANGED <<store, cached, previous, mounted>>
      BY <1>1 DEF Refuse, RestoreSkip, DisconnectRaised, fileVars, transportVars
    <2> QED BY <2>1, TouchesNothing, RestsReturned
  <1>2. CASE Register(t)
    <2>1. /\ n \in Namespace /\ store[n] = None
          /\ task[t].pc = "entering" /\ HasLock(t) /\ task[t].op = "register"
          /\ Return(t) /\ UNCHANGED <<cached, previous, mounted>>
      BY <1>2, <1>n DEF Register, Entering, transportVars
    <2>2. PICK policy \in Policies : Put(n, NewRecord(policy))
      BY <1>2 DEF Register
    <2>3. WritesOnly(t, NewRecord(policy))
      BY <2>1, <2>2, <1>w
    <2>4. Registers(t)
      BY <2>1, <2>3 DEF Registers
    <2> QED BY <2>4 DEF RecordShape
  <1>f. ASSUME Forget(t, n), task[t].op = "unregister" PROVE Forgets(t)
    BY <1>f, ReturnIs DEF Forget, Forgets, Writes, UnmountsOnly, transportVars
  <1>d. ASSUME task[t].pc \notin {"idle", "gone"}, mounted[n] # None, NEW next \in Coroutine,
               SameRequest(next, task[t]), next.op \notin SwapOp \cup {"deactivate"},
               Disconnect(t, n, next), UNCHANGED fileVars
        PROVE  Rests
    <2>1. n \in Namespace
      BY <1>d, <1>n
    <2>2. /\ Alone(t) /\ UnmountsOnly
          /\ SameRequest(task'[t], next) /\ task'[t].pc = "closing"
      BY <1>d, <2>1, DisconnectIs
    <2>3. Blank(task'[t])
      BY <1>d, <2>2 DEF Blank, Swaps, Drops, SameRequest
    <2>4. Touches
      BY <1>d, TouchesNothing DEF fileVars
    <2> QED BY <2>2, <2>3, <2>4, RestsAlone
  <1>3. CASE Unregister(t)
    <2>1. task[t].op = "unregister" /\ task[t].pc = "entering"
      BY <1>3 DEF Unregister, Entering
    <2>2. CASE Forget(t, n)
      BY <2>1, <2>2, <1>f DEF RecordShape
    <2>3. CASE /\ mounted[n] # None
               /\ Disconnect(t, n, [task[t] EXCEPT !.force = TRUE])
               /\ UNCHANGED <<fileVars, lockVars, inFlight, boot>>
      <3> DEFINE next == [task[t] EXCEPT !.force = TRUE]
      <3>1. next \in Coroutine /\ SameRequest(next, task[t])
        BY <1>0 DEF Coroutine, SameRequest
      <3>2. next.op \notin SwapOp \cup {"deactivate"}
        BY <2>1, <3>1 DEF SwapOp, SameRequest
      <3> HIDE DEF next
      <3>3. Disconnect(t, n, next)
        BY <2>3 DEF next
      <3> QED BY <2>1, <2>3, <3>1, <3>2, <3>3, <1>d
    <2> QED BY <1>3, <2>2, <2>3 DEF Unregister
  <1>4. CASE UnregisterClosed(t)
    BY <1>4, <1>f DEF UnregisterClosed, RecordShape
  <1>5. CASE ActivateReuse(t)
    <2>1. /\ n \in Namespace /\ EnteredFor(t, {"activate"})
          /\ Return(t) /\ UNCHANGED <<cached, previous, mounted>>
      BY <1>5, <1>n DEF ActivateReuse, Entering, EnteredFor, transportVars
    <2>2. PICK s \in store[n].policy.supported_scopes :
                 Put(n, Reused(AddRecoverableScopes(store[n], {s}), {s}))
      BY <1>5 DEF ActivateReuse
    <2> DEFINE a == AddRecoverableScopes(store[n], {s})
               rec == Reused(a, {s})
    <2>3. store[n] \in ToolsetRecord /\ {s} \in SUBSET Scope
      BY <2>1, <2>2, <1>s DEF EnteredFor
    <2>4. /\ a \in ToolsetRecord
          /\ a.policy = store[n].policy
          /\ a.loaded_scopes = store[n].loaded_scopes
          /\ a.recoverable_scopes
               = store[n].recoverable_scopes \cup ({s} \cap store[n].policy.restorable_scopes)
          /\ SameHashes(a, store[n])
      BY <2>3, ScopeRewrites
    <2> HIDE DEF a
    <2>5. /\ rec \in ToolsetRecord
          /\ rec.policy = a.policy
          /\ rec.loaded_scopes = a.loaded_scopes \cup {s}
          /\ rec.recoverable_scopes = a.recoverable_scopes
          /\ SameHashes(rec, a)
      BY <2>3, <2>4, ScopeRewrites
    <2>6. Put(n, rec)
      BY <2>2 DEF a
    <2> HIDE DEF rec
    <2>7. WritesOnly(t, rec)
      BY <2>1, <2>6, <1>w
    <2>0. store[n].loaded_scopes # {}
      BY <1>5 DEF ActivateReuse
    <2>8. Grants(t)
      BY <2>0, <2>1, <2>4, <2>5, <2>7 DEF Grants, SameHashes
    <2> QED BY <2>8 DEF RecordShape
  <1>o. ASSUME NEW rec \in ToolsetRecord, NEW grant, NEW old, Open(t, rec, grant, old)
        PROVE  /\ SameRequest(task'[t], task[t]) /\ task'[t].pc = "opening"
               /\ task'[t].rec = rec /\ task'[t].grant = grant /\ task'[t].old = old
               /\ UnmountsOnly /\ Alone(t) /\ UNCHANGED <<cached, previous>>
    <2> DEFINE k == [task[t] EXCEPT !.pc = "opening", !.rec = rec, !.grant = grant, !.old = old]
    <2>1. /\ SameRequest(k, task[t]) /\ k.pc = "opening"
          /\ k.rec = rec /\ k.grant = grant /\ k.old = old
      BY <1>0 DEF Coroutine, SameRequest
    <2>2. task' = [task EXCEPT ![t] = k] /\ UNCHANGED <<cached, previous, mounted>>
      BY <1>o DEF Open, transportVars
    <2> HIDE DEF k
    <2> QED BY <2>1, <2>2 DEF UnmountsOnly, Alone, IInv, TaskInv
  <1>c. ASSUME n \in Namespace, store[n] # None, Put(n, InState(store[n], "connecting")),
               UNCHANGED <<cached, previous>>
        PROVE  /\ Touches
               /\ InState(store[n], "connecting") \in ToolsetRecord
               /\ Same(InState(store[n], "connecting"), store[n])
    <2> DEFINE rec == InState(store[n], "connecting")
    <2>1. rec \in ToolsetRecord /\ Same(rec, store[n])
      BY <1>c, <1>s, StateRewrites DEF TransportState
    <2>2. Touched(store[n], rec)
      BY <1>c, <2>1 DEF Touched
    <2> HIDE DEF rec
    <2>3. Put(n, rec)
      BY <1>c DEF rec
    <2>4. Touches
      BY <1>c, <2>2, <2>3, TouchesOne
    <2> QED BY <2>1, <2>4 DEF rec
  <1>6. CASE Activate(t)
    <2>1. /\ n \in Namespace /\ EnteredFor(t, SwapOp) /\ task[t].op = "activate" /\ store[n] # None
      BY <1>6, <1>n DEF Activate, Entering, EnteredFor, SwapOp
    <2>2. PICK s \in store[n].policy.supported_scopes :
            /\ Put(n, InState(store[n], "connecting"))
            /\ Open(t, InState(store[n], "connecting"), {s}, None)
      BY <1>6 DEF Activate
    <2>3. UNCHANGED <<cached, previous>>
      BY <2>2 DEF Open
    <2>4. /\ Touches
          /\ InState(store[n], "connecting") \in ToolsetRecord
          /\ Same(InState(store[n], "connecting"), store[n])
      BY <2>1, <2>2, <2>3, <1>c
    <2>5. /\ SameRequest(task'[t], task[t]) /\ task'[t].pc = "opening"
          /\ task'[t].rec = InState(store[n], "connecting") /\ task'[t].grant = {s}
          /\ UnmountsOnly /\ Alone(t)
      BY <2>2, <2>4, <1>o
    <2>6. CopiesToSwap(t)
      BY <2>1, <2>4, <2>5 DEF CopiesToSwap, SameRequest
    <2> QED BY <2>6 DEF RecordShape
  <1>7. CASE RestoreReuse(t)
    <2>1. /\ n \in Namespace /\ EnteredFor(t, {"restore", "boot_restore"})
          /\ Return(t) /\ UNCHANGED <<cached, previous, mounted>>
      BY <1>7, <1>n DEF RestoreReuse, Restoring, Entering, Candidates, EnteredFor, transportVars
    <2>2. PICK identity \in BOOLEAN :
            /\ Candidates(t, identity)
            /\ Put(n, Reused(store[n], RecoveryScopes(store[n], identity, task[t].op = "restore")))
      BY <1>7 DEF RestoreReuse
    <2> DEFINE S == RecoveryScopes(store[n], identity, task[t].op = "restore")
               rec == Reused(store[n], S)
    <2>3. store[n] \in ToolsetRecord /\ S \in SUBSET Scope
      BY <2>1, <1>s, RecoveryBounds DEF EnteredFor
    <2> HIDE DEF S
    <2>4. /\ rec \in ToolsetRecord
          /\ rec.policy = store[n].policy
          /\ rec.loaded_scopes = store[n].loaded_scopes \cup S
          /\ rec.recoverable_scopes = store[n].recoverable_scopes
          /\ SameHashes(rec, store[n])
      BY <2>3, ScopeRewrites
    <2>5. Put(n, rec)
      BY <2>2 DEF S
    <2> HIDE DEF rec
    <2>6. WritesOnly(t, rec)
      BY <2>1, <2>5, <1>w
    <2>7. task[t].op = "boot_restore" => identity = StableIdentity
      BY <2>2 DEF Candidates
    <2>0. mounted[n] # None
      BY <1>7 DEF RestoreReuse, Live
    <2>8. Regains(t)
      BY <2>0, <2>1, <2>4, <2>6, <2>7 DEF Regains, S
    <2> QED BY <2>8 DEF RecordShape
  <1>8. CASE Restore(t)
    <2>1. /\ n \in Namespace /\ EnteredFor(t, SwapOp) /\ store[n] # None
          /\ task[t].op \in {"restore", "boot_restore"}
      BY <1>8, <1>n DEF Restore, Restoring, Entering, Candidates, EnteredFor, SwapOp
    <2>2. PICK identity \in BOOLEAN :
            /\ Candidates(t, identity)
            /\ RecoveryScopes(store[n], identity, task[t].op = "restore") # {}
            /\ Put(n, InState(store[n], "connecting"))
            /\ Open(t, InState(store[n], "connecting"),
                    RecoveryScopes(store[n], identity, task[t].op = "restore"), None)
      BY <1>8 DEF Restore
    <2>3. UNCHANGED <<cached, previous>>
      BY <2>2 DEF Open
    <2>4. /\ Touches
          /\ InState(store[n], "connecting") \in ToolsetRecord
          /\ Same(InState(store[n], "connecting"), store[n])
      BY <2>1, <2>2, <2>3, <1>c
    <2>5. /\ SameRequest(task'[t], task[t]) /\ task'[t].pc = "opening"
          /\ task'[t].rec = InState(store[n], "connecting")
          /\ task'[t].grant = RecoveryScopes(store[n], identity, task[t].op = "restore")
          /\ UnmountsOnly /\ Alone(t)
      BY <2>2, <2>4, <1>o
    <2>6. task[t].op = "boot_restore" => identity = StableIdentity
      BY <2>2 DEF Candidates
    <2>7. CopiesToSwap(t)
      BY <2>1, <2>2, <2>4, <2>5, <2>6 DEF CopiesToSwap, SameRequest
    <2> QED BY <2>7 DEF RecordShape
  <1>9. CASE Refresh(t)
    <2>1. /\ n \in Namespace /\ EnteredFor(t, SwapOp) /\ store[n] # None
          /\ task[t].op = "refresh" /\ store[n].loaded_scopes # {}
          /\ Open(t, store[n], {}, cached[n]) /\ UNCHANGED store
      BY <1>9, <1>n DEF Refresh, Entering, EnteredFor, SwapOp
    <2>2. /\ SameRequest(task'[t], task[t]) /\ task'[t].pc = "opening"
          /\ task'[t].rec = store[n] /\ task'[t].grant = {} /\ task'[t].old = cached[n]
          /\ UnmountsOnly /\ Alone(t) /\ UNCHANGED <<cached, previous>>
      BY <2>1, <1>o, <1>s
    <2>3. Touches
      BY <2>1, <2>2, TouchesNothing
    <2>4. CopiesToSwap(t)
      BY <2>1, <2>2, <2>3 DEF CopiesToSwap, SameRequest, Same, SameScopes, SameHashes
    <2> QED BY <2>4 DEF RecordShape
  <1>i. ASSUME n \in Namespace, Swaps(task[t]), NEW hash \in Inventory, Install(t, hash),
               \A m \in Namespace : m # n => mounted'[m] = mounted[m]
        PROVE  Installs(t)
    BY <1>i, ReturnIs DEF Installs, Install, Writes
  <1>10. CASE Opened(t)
    <2>1. n \in Namespace /\ task[t].pc = "opening" /\ Swaps(task[t]) /\ task[t].op \in SwapOp
      BY <1>0, <1>10, <1>n DEF Opened, Swaps, PlaceOK
    <2>2. PICK r \in Runtime, i \in Inventory :
               /\ mounted' = [mounted EXCEPT ![n] = r]
               /\ \/ mounted[n] = None /\ Install(t, i)
                  \/ /\ mounted[n] # None
                     /\ task' = [task EXCEPT ![t] =
                                   [@ EXCEPT !.pc = "closing", !.new = i, !.rt = mounted[n],
                                             !.sig = CloseSignal(mounted[n])]]
                     /\ UNCHANGED <<fileVars, lockVars, inFlight, boot>>
      BY <1>10 DEF Opened
    <2>3. CASE Install(t, i)
      <3>1. \A m \in Namespace : m # n => mounted'[m] = mounted[m]
        BY <2>2 DEF IInv, TransportInv
      <3> QED BY <2>1, <2>3, <3>1, <1>i DEF RecordShape
    <2>4. CASE /\ mounted[n] # None
               /\ task' = [task EXCEPT ![t] =
                             [@ EXCEPT !.pc = "closing", !.new = i, !.rt = mounted[n],
                                       !.sig = CloseSignal(mounted[n])]]
               /\ UNCHANGED <<fileVars, lockVars, inFlight, boot>>
      <3> DEFINE k == [task[t] EXCEPT !.pc = "closing", !.new = i, !.rt = mounted[n],
                                      !.sig = CloseSignal(mounted[n])]
      <3>1. /\ SameRequest(k, task[t]) /\ k.pc = "closing"
            /\ k.rec = task[t].rec /\ k.grant = task[t].grant /\ k.old = task[t].old
        BY <1>0 DEF Coroutine, SameRequest
      <3>2. task' = [task EXCEPT ![t] = k]
        BY <2>4
      <3> HIDE DEF k
      <3>3. SameCopy(k, task[t])
        BY <2>1, <3>1 DEF SameCopy, SameRequest, Swaps, Drops, SwapOp
      <3>4. task'[t] = k /\ Alone(t)
        BY <3>2 DEF Alone, IInv, TaskInv
      <3>5. UnmountsOnly
        BY <2>2, <2>4 DEF UnmountsOnly, IInv, TransportInv
      <3>6. Touches
        BY <2>4, TouchesNothing DEF fileVars
      <3> QED BY <3>3, <3>4, <3>5, <3>6, RestsAlone
    <2> QED BY <2>2, <2>3, <2>4
  <1>11. CASE SwapClosed(t)
    <2>1. /\ n \in Namespace /\ Swaps(task[t]) /\ task[t].new \in Inventory
          /\ Install(t, task[t].new) /\ UNCHANGED mounted
      BY <1>0, <1>11, <1>n DEF SwapClosed, Closed, Swapping, Swaps, SwapOp, TaskOK
    <2> QED BY <2>1, <1>i DEF RecordShape
  <1>12. CASE OpenFailed(t)
    <2>1. /\ n \in Namespace /\ Swaps(task[t])
          /\ Put(n, FailedRecord(task[t])) /\ Return(t) /\ UNCHANGED <<cached, previous, mounted>>
      BY <1>12, <1>n DEF OpenFailed, Swaps, Swapping, CloseRaised, SwapOp, transportVars
    <2>2. task[t].rec \in ToolsetRecord
      BY <1>0, <2>1 DEF TaskOK, CarriesSound, Sound, Swaps, SwapOp
    <2> DEFINE rec == FailedRecord(task[t])
    <2>3. rec \in ToolsetRecord /\ Same(rec, task[t].rec)
      BY <1>l, <2>2, StateRewrites DEF FailedRecord
    <2>4. Put(n, rec)
      BY <2>1
    <2> HIDE DEF rec
    <2>5. WritesOnly(t, rec)
      BY <2>1, <2>4, <1>w
    <2>6. Fails(t)
      BY <2>1, <2>3, <2>5 DEF Fails
    <2> QED BY <2>6 DEF RecordShape
  <1>13. CASE Deactivate(t)
    <2>1. n \in Namespace /\ EnteredFor(t, {"deactivate"}) /\ store[n] # None
      BY <1>13, <1>n DEF Deactivate, Entering, EnteredFor
    <2>2. PICK s \in store[n].loaded_scopes, force \in BOOLEAN :
            LET rec == RemoveScope(store[n], s) IN
            \/ /\ rec.loaded_scopes # {} \/ mounted[n] = None
               /\ Put(n, IF rec.loaded_scopes = {} THEN Deactivated(rec) ELSE rec)
               /\ Return(t)
               /\ UNCHANGED <<cached, previous, lockOf, transportVars, boot>>
            \/ /\ rec.loaded_scopes = {}
               /\ mounted[n] # None
               /\ Disconnect(t, n, [task[t] EXCEPT !.rec = rec, !.force = force])
               /\ UNCHANGED <<fileVars, lockVars, inFlight, boot>>
      BY <1>13 DEF Deactivate
    <2> DEFINE rec == RemoveScope(store[n], s)
    <2>3. rec \in ToolsetRecord /\ Less(rec, store[n], s)
      <3>1. store[n] \in ToolsetRecord
        BY <2>1, <1>s
      <3> QED BY <3>1, RemovingRewrites
    <2> HIDE DEF rec
    <2>4. CASE /\ rec.loaded_scopes # {} \/ mounted[n] = None
               /\ Put(n, IF rec.loaded_scopes = {} THEN Deactivated(rec) ELSE rec)
               /\ Return(t)
               /\ UNCHANGED <<cached, previous, lockOf, transportVars, boot>>
      <3> DEFINE out == IF rec.loaded_scopes = {} THEN Deactivated(rec) ELSE rec
      <3>1. out \in ToolsetRecord /\ Same(out, rec)
        BY <2>3, HealthRewrites DEF Same, SameScopes, SameHashes
      <3>2. Put(n, out)
        BY <2>4
      <3> HIDE DEF out
      <3>3. WritesOnly(t, out)
        BY <2>1, <2>4, <3>2, <1>w DEF transportVars
      <3>4. Less(out, store[n], s) /\ (out.loaded_scopes # {} \/ mounted[n] = None)
        BY <2>3, <2>4, <3>1 DEF Less, Same, SameScopes, SameHashes
      <3>5. DropsScope(t)
        BY <2>1, <3>1, <3>3, <3>4 DEF DropsScope
      <3> QED BY <3>5 DEF RecordShape
    <2>5. CASE /\ rec.loaded_scopes = {}
               /\ mounted[n] # None
               /\ Disconnect(t, n, [task[t] EXCEPT !.rec = rec, !.force = force])
               /\ UNCHANGED <<fileVars, lockVars, inFlight, boot>>
      <3> DEFINE next == [task[t] EXCEPT !.rec = rec, !.force = force]
      <3>0. PICK k \in Coroutine : k = task[t]
        BY <1>0
      <3>a. LET j == [k EXCEPT !.rec = rec, !.force = force]
            IN  j \in Coroutine /\ j.rec = rec /\ j.op = k.op /\ j.ns = k.ns /\ j.tool = k.tool
        BY <2>3 DEF Coroutine
      <3>1. next \in Coroutine /\ SameRequest(next, task[t]) /\ next.rec = rec
        BY <3>0, <3>a DEF SameRequest
      <3>2. Disconnect(t, n, next)
        BY <2>5
      <3> HIDE DEF next
      <3>3. /\ Alone(t) /\ UnmountsOnly /\ mounted'[n] = None
            /\ SameRequest(task'[t], next) /\ task'[t].pc = "closing" /\ task'[t].rec = next.rec
        BY <2>1, <2>5, <3>1, <3>2, DisconnectIs
      <3>4. Touches
        BY <2>5, TouchesNothing DEF fileVars
      <3>5. SameRequest(task'[t], task[t]) /\ Drops(task'[t])
        BY <2>1, <3>1, <3>3 DEF SameRequest, Drops, EnteredFor
      <3>6. CopiesToDrop(t)
        BY <2>1, <2>3, <2>5, <3>1, <3>3, <3>4, <3>5 DEF CopiesToDrop
      <3> QED BY <3>6 DEF RecordShape
    <2> QED BY <2>2, <2>4, <2>5 DEF rec
  <1>14. CASE DeactivateClosed(t)
    <2>1. /\ n \in Namespace /\ Drops(task[t])
          /\ Put(n, Deactivated(task[t].rec)) /\ Return(t) /\ UNCHANGED <<cached, previous, mounted>>
      BY <1>14, <1>n DEF DeactivateClosed, Drops, Closed, transportVars
    <2>2. task[t].rec \in ToolsetRecord
      BY <1>0, <2>1 DEF TaskOK, Sound, Drops
    <2> DEFINE rec == Deactivated(task[t].rec)
    <2>3. rec \in ToolsetRecord /\ Same(rec, task[t].rec)
      BY <2>2, HealthRewrites
    <2>4. Put(n, rec)
      BY <2>1
    <2> HIDE DEF rec
    <2>5. WritesOnly(t, rec)
      BY <2>1, <2>4, <1>w
    <2>6. DropsCopy(t)
      BY <2>1, <2>3, <2>5 DEF DropsCopy
    <2> QED BY <2>6 DEF RecordShape
  <1>h. ASSUME n \in Namespace, store[n] # None, NEW status \in HealthStatus, NEW live \in BOOLEAN
        PROVE  /\ Touched(store[n], Observed(RuntimeFailed(store[n], live), status, live))
               /\ Touched(store[n], Observed(store[n], status, live))
               /\ Touched(store[n], StaleCleared(store[n], live))
               /\ Touched(store[n], MarkedStale(store[n]))
    <2>1. store[n] \in ToolsetRecord
      BY <1>h, <1>s
    <2>2. /\ RuntimeFailed(store[n], live) \in ToolsetRecord
          /\ Same(RuntimeFailed(store[n], live), store[n])
      BY <2>1, StateRewrites
    <2>3. /\ Observed(RuntimeFailed(store[n], live), status, live) \in ToolsetRecord
          /\ Same(Observed(RuntimeFailed(store[n], live), status, live), RuntimeFailed(store[n], live))
      BY <2>2, HealthRewrites
    <2>4. Same(Observed(RuntimeFailed(store[n], live), status, live), store[n])
      BY <2>2, <2>3, SameTransitive
    <2> QED BY <1>h, <2>1, <2>3, <2>4, HealthRewrites DEF Touched
  <1>p. ASSUME n \in Namespace PROVE Touched(store[n], ProbeFailedRecord(n))
    BY <1>p, <1>l, <1>h DEF ProbeFailedRecord, Touched, HealthStatus
  <1>15. CASE HealthMissing(t)
    <2>1. /\ n \in Namespace /\ store[n] # None /\ Return(t) /\ UNCHANGED <<cached, previous, mounted>>
          /\ Put(n, Observed(RuntimeFailed(store[n], FALSE), "failed", FALSE))
      BY <1>15, <1>n DEF HealthMissing, Entering, transportVars
    <2>2. Touched(store[n], Observed(RuntimeFailed(store[n], FALSE), "failed", FALSE))
      BY <2>1, <1>h DEF HealthStatus
    <2> QED BY <2>1, <2>2, <1>t
  <1>16. CASE HealthProbe(t)
    <2>1. /\ UNCHANGED <<store, cached, previous, mounted>> /\ task[t].op = "health"
          /\ task' = [task EXCEPT ![t] = [@ EXCEPT !.pc = "probing", !.rt = mounted[n],
                                                   !.old = store[n].schema_hash]]
      BY <1>16 DEF HealthProbe, Entering, fileVars
    <2>2. task'[t].pc = "probing" /\ Alone(t)
      BY <1>0, <2>1 DEF Alone, IInv, TaskInv, Coroutine
    <2>3. Blank(task'[t]) /\ UnmountsOnly
      BY <2>1, <2>2 DEF Blank, Swaps, Drops, UnmountsOnly
    <2> QED BY <2>1, <2>2, <2>3, TouchesNothing, RestsAlone
  <1>17. CASE HealthProbed(t)
    <2>1. n \in Namespace /\ Return(t) /\ UNCHANGED <<cached, previous, mounted>>
      BY <1>17, <1>n DEF HealthProbed, transportVars
    <2>2. \/ UNCHANGED store
          \/ store[n] # None /\ Put(n, Observed(RuntimeFailed(store[n], Live(n)), "stale", Live(n)))
          \/ store[n] # None /\ Put(n, Observed(store[n], "healthy", Live(n)))
      BY <1>17 DEF HealthProbed
    <2>3. CASE UNCHANGED store
      BY <2>1, <2>3, TouchesNothing, RestsReturned
    <2>4. CASE store[n] # None /\ Put(n, Observed(RuntimeFailed(store[n], Live(n)), "stale", Live(n)))
      <3>1. Touched(store[n], Observed(RuntimeFailed(store[n], Live(n)), "stale", Live(n)))
        BY <2>1, <2>4, <1>h, <1>l DEF HealthStatus
      <3> QED BY <2>1, <2>4, <3>1, <1>t
    <2>5. CASE store[n] # None /\ Put(n, Observed(store[n], "healthy", Live(n)))
      <3>1. Touched(store[n], Observed(store[n], "healthy", Live(n)))
        BY <2>1, <2>5, <1>h, <1>l DEF HealthStatus
      <3> QED BY <2>1, <2>5, <3>1, <1>t
    <2> QED BY <2>2, <2>3, <2>4, <2>5
  <1>18. CASE HealthFailed(t)
    <2>1. n \in Namespace /\ task[t].pc = "probing" /\ task[t].op = "health"
      BY <1>0, <1>18, <1>n DEF HealthFailed, TaskOK
    <2>2. CASE Put(n, ProbeFailedRecord(n)) /\ Return(t)
               /\ UNCHANGED <<cached, previous, lockOf, transportVars, boot>>
      BY <2>1, <2>2, <1>p, <1>t DEF transportVars
    <2>3. CASE /\ mounted[n] # None
               /\ Disconnect(t, n, task[t])
               /\ UNCHANGED <<fileVars, lockVars, inFlight, boot>>
      <3>1. SameRequest(task[t], task[t]) /\ task[t].op \notin SwapOp \cup {"deactivate"}
        BY <2>1 DEF SameRequest, SwapOp
      <3> QED BY <1>0, <2>1, <2>3, <3>1, <1>d
    <2> QED BY <1>18, <2>2, <2>3 DEF HealthFailed
  <1>19. CASE HealthClosed(t)
    <2>1. /\ n \in Namespace /\ Put(n, ProbeFailedRecord(n)) /\ Return(t)
          /\ UNCHANGED <<cached, previous, mounted>>
      BY <1>19, <1>n DEF HealthClosed, Closed, transportVars
    <2> QED BY <2>1, <1>p, <1>t
  <1>20. CASE ClearStale(t)
    <2>1. /\ n \in Namespace /\ store[n] # None /\ Put(n, StaleCleared(store[n], Live(n)))
          /\ Return(t) /\ UNCHANGED <<cached, previous, mounted>>
      BY <1>20, <1>n DEF ClearStale, Entering, transportVars
    <2>2. Touched(store[n], StaleCleared(store[n], Live(n)))
      BY <2>1, <1>h, <1>l DEF HealthStatus
    <2> QED BY <2>1, <2>2, <1>t
  <1>21. CASE MarkStale(t)
    <2>1. /\ n \in Namespace /\ store[n] # None /\ Put(n, MarkedStale(store[n]))
          /\ Return(t) /\ UNCHANGED <<cached, previous, mounted>>
      BY <1>21, <1>n DEF MarkStale, Entering, transportVars
    <2>2. Touched(store[n], MarkedStale(store[n]))
      BY <2>1, <1>h, <1>l DEF HealthStatus
    <2> QED BY <2>1, <2>2, <1>t
  <1> QED BY <1>1, <1>2, <1>3, <1>4, <1>5, <1>6, <1>7, <1>8, <1>9, <1>10, <1>11, <1>12, <1>13,
             <1>14, <1>15, <1>16, <1>17, <1>18, <1>19, <1>20, <1>21 DEF Section

(* A tool call writes at most a failure, and carries no copy. *)
LEMMA CallRecords ==
  ASSUME IInv, PlaceInv, NEW t \in Task, Call(t)
  PROVE  Rests
  <1> DEFINE n == task[t].ns
  <1> USE DEF n
  <1>0. task[t] \in Coroutine /\ TaskOK(task[t]) /\ PlaceOK(task[t])
    BY DEF IInv, TaskInv, PlaceInv
  <1>n. ASSUME task[t].pc \notin {"idle", "gone"} PROVE n \in Namespace
    BY <1>0, <1>n DEF TaskOK
  <1>p. ASSUME n \in Namespace PROVE Touched(store[n], FailureRecorded(n))
    <2>1. CASE store[n] = None
      BY <2>1 DEF FailureRecorded, Touched
    <2>2. CASE store[n] # None
      <3>1. store[n] \in ToolsetRecord /\ Live(n) \in BOOLEAN
        BY <1>p, <2>2, SoundIsRecord DEF Live
      <3> QED BY <2>2, <3>1, StateRewrites DEF FailureRecorded, Touched
    <2> QED BY <2>1, <2>2
  <1>f. ASSUME Finishing(t) PROVE Alone(t) /\ Blank(task'[t])
    <2> DEFINE k == [task[t] EXCEPT !.pc = "finishing", !.rt = None, !.sig = None]
    <2>1. k.pc = "finishing"
      BY <1>0 DEF Coroutine
    <2>2. task' = [task EXCEPT ![t] = k]
      BY <1>f DEF Finishing
    <2> HIDE DEF k
    <2> QED BY <2>1, <2>2 DEF Alone, Blank, Swaps, Drops, IInv, TaskInv
  <1>1. CASE CallSend(t)
    <2>1. task' = [task EXCEPT ![t] = [@ EXCEPT !.pc = "calling", !.rt = mounted[n]]]
      BY <1>1 DEF CallSend
    <2>2. UNCHANGED <<store, cached, previous, mounted>>
      BY <1>1 DEF CallSend, fileVars
    <2>3. task'[t].pc = "calling" /\ Alone(t)
      BY <1>0, <2>1 DEF Alone, IInv, TaskInv, Coroutine
    <2>4. Blank(task'[t]) /\ UnmountsOnly
      BY <2>2, <2>3 DEF Blank, Swaps, Drops, UnmountsOnly
    <2> QED BY <2>2, <2>3, <2>4, TouchesNothing, RestsAlone
  <1>2. CASE CallAnswered(t)
    <2>1. Finishing(t) /\ UNCHANGED <<store, cached, previous, mounted>>
      BY <1>2 DEF CallAnswered, fileVars, transportVars
    <2> QED BY <2>1, <1>f, TouchesNothing, RestsAlone DEF UnmountsOnly
  <1>3. CASE CallFailed(t)
    <2>1. n \in Namespace /\ task[t].pc = "calling" /\ task[t].op = "call"
      BY <1>0, <1>3, <1>n DEF CallFailed, TaskOK
    <2>2. CASE Put(n, FailureRecorded(n)) /\ Finishing(t)
               /\ UNCHANGED <<cached, previous, transportVars, boot>>
      <3>1. Touches /\ UnmountsOnly
        BY <2>1, <2>2, <1>p, TouchesOne DEF transportVars, UnmountsOnly
      <3> QED BY <2>2, <3>1, <1>f, RestsAlone
    <2>3. CASE /\ mounted[n] # None
               /\ Disconnect(t, n, task[t])
               /\ UNCHANGED <<fileVars, lockVars, inFlight, boot>>
      <3>1. /\ Alone(t) /\ UnmountsOnly
            /\ SameRequest(task'[t], task[t]) /\ task'[t].pc = "closing"
        BY <1>0, <2>1, <2>3, DisconnectIs
      <3>2. Blank(task'[t])
        BY <2>1, <3>1 DEF Blank, Swaps, Drops, SwapOp, SameRequest
      <3>3. Touches
        BY <2>3, TouchesNothing DEF fileVars
      <3> QED BY <3>1, <3>2, <3>3, RestsAlone
    <2> QED BY <1>3, <2>2, <2>3 DEF CallFailed
  <1>4. CASE CallClosed(t)
    <2>1. /\ n \in Namespace /\ Finishing(t) /\ UNCHANGED <<cached, previous, mounted>>
          /\ Put(n, FailureRecorded(n)) \/ UNCHANGED store
      BY <1>4, <1>n DEF CallClosed, Closed, CloseRaised, transportVars
    <2>2. Touches /\ UnmountsOnly
      BY <2>1, <1>p, TouchesOne, TouchesNothing DEF UnmountsOnly
    <2> QED BY <2>1, <2>2, <1>f, RestsAlone
  <1>5. CASE CallFinish(t)
    <2>1. Return(t) /\ UNCHANGED <<store, cached, previous, mounted>>
      BY <1>5 DEF CallFinish, fileVars
    <2> QED BY <2>1, TouchesNothing, RestsReturned
  <1> QED BY <1>1, <1>2, <1>3, <1>4, <1>5 DEF Call

(* A request that starts carries nothing; an actor brings an answer only.   *)
LEMMA BeginRecords ==
  ASSUME IInv, NEW t \in Task, Request(t) \/ BootRestore(t)
  PROVE  Rests
  <1>1. UNCHANGED <<store, cached, previous, mounted>>
    BY DEF Request, BootRestore, fileVars, transportVars
  <1>2. PICK o \in Operation \cup {"boot_restore"}, n \in Namespace, x \in Tool \cup {None} :
          task' = [task EXCEPT ![t] = Started(o, n, x)]
    <2>1. CASE Request(t)
      BY <2>1, OpAssumption DEF Request, Operation
    <2>2. CASE BootRestore(t)
      BY <2>2 DEF BootRestore, IInv
    <2> QED BY <2>1, <2>2
  <1>3. Started(o, n, x).pc = "entering"
    BY StartedState
  <1>4. Alone(t) /\ Blank(task'[t])
    BY <1>2, <1>3 DEF Alone, Blank, Swaps, Drops, IInv, TaskInv
  <1> QED BY <1>1, <1>4, TouchesNothing, RestsAlone DEF UnmountsOnly

LEMMA SignalledCopy ==
  ASSUME NEW k, NEW j, NEW sig, Signalled(k, j, sig)
  PROVE  SameCopy(k, j)
  BY DEF Signalled, SameCopy, SameRequest, Swaps, Drops

LEMMA ActorRecords ==
  ASSUME IInv, \/ \E r \in Runtime : Serve(r) \/ Unwind(r) \/ Die(r)
               \/ \E t \in Task : TimeOut(t)
  PROVE  Rests
  <1>1. UNCHANGED <<store, cached, previous, mounted>>
    BY DEF Serve, Unwind, Die, EndActor, TimeOut, fileVars
  <1>2. \A u \in Task : SameCopy(task'[u], task[u])
    <2>0. \A u \in Task : SameCopy(task[u], task[u])
      BY DEF SameCopy, SameRequest
    <2>1. ASSUME NEW t \in Task, NEW k \in Coroutine, NEW sig, Turn(t, k), Signalled(k, task[t], sig)
          PROVE  \A u \in Task : SameCopy(task'[u], task[u])
      BY <2>0, <2>1, TurnIs, SignalledCopy
    <2>2. ASSUME NEW r \in Runtime, Serve(r) PROVE \A u \in Task : SameCopy(task'[u], task[u])
      <3>1. PICK t \in Task, k \in Coroutine : Turn(t, k) /\ Answers(r, t, k)
        BY <2>2, ServeShape
      <3> QED BY <3>1, <2>1 DEF Answers
    <2>3. ASSUME NEW r \in Runtime, Unwind(r) \/ Die(r)
          PROVE  \A u \in Task : SameCopy(task'[u], task[u])
      <3>1. Ends(r)
        BY <2>3, EndShape DEF Unwind, Die
      <3> QED BY <2>0, <3>1, SignalledCopy DEF Ends
    <2>4. ASSUME NEW t \in Task, TimeOut(t) PROVE \A u \in Task : SameCopy(task'[u], task[u])
      <3>1. PICK k \in Coroutine : Turn(t, k) /\ Expires(t, k)
        BY <2>4, TimeOutShape
      <3> QED BY <3>1, <2>1 DEF Expires
    <2> QED BY <2>2, <2>3, <2>4
  <1> QED BY <1>1, <1>2, TouchesNothing DEF Rests, UnmountsOnly

LEMMA RebootRecords ==
  ASSUME IInv, Restart \/ \E t \in Task : Crash(t)
  PROVE  Reboots
  <1>0. \A n \in Namespace : Touched(store[n], store[n])
    BY SoundIsRecord DEF Touched, Same, SameScopes, SameHashes
  <1>1. CASE Restart
    BY <1>0, <1>1 DEF Restart, Reboot, Reboots, Finds
  <1>2. ASSUME NEW t \in Task, Crash(t), InstallCut(t) PROVE Reboots
    <2>1. PICK hash \in Inventory :
            /\ Swaps(task[t])
            /\ Reboot([store EXCEPT ![task[t].ns] = Installed(task[t], hash)])
      BY <1>2 DEF InstallCut, Swaps, Closed, Swapping, SwapOp
    <2>2. Finds([store EXCEPT ![task[t].ns] = Installed(task[t], hash)])
      BY <1>2, <2>1 DEF Finds
    <2> QED BY <1>2, <2>1, <2>2 DEF Reboots, Reboot, InstallCut
  <1>3. ASSUME NEW t \in Task, ForgetCut(t) PROVE Reboots
    <2>1. Removes(t)
      BY <1>3 DEF ForgetCut, Entering, Closed, Removes
    <2> QED BY <1>0, <1>3, <2>1 DEF Reboots, Reboot, ForgetCut, Finds
  <1>4. ASSUME NEW t \in Task, FailureCut(t) PROVE Reboots
    <2> DEFINE n == task[t].ns
               found == [store EXCEPT ![n] = RuntimeFailed(store[n], Live(n))]
    <2>1. n \in Namespace /\ store[n] # None /\ Live(n) \in BOOLEAN
      BY <1>4 DEF FailureCut, Entering, Closed, Live, IInv, TaskInv, TaskOK
    <2>2. Touched(store[n], RuntimeFailed(store[n], Live(n)))
      BY <2>1, SoundIsRecord, StateRewrites DEF Touched
    <2>3. \A m \in Namespace : Touched(store[m], found[m])
      BY <1>0, <2>2 DEF IInv, FileInv
    <2>4. Reboot(found) /\ UNCHANGED <<cached, previous>>
      BY <1>4 DEF FailureCut
    <2> HIDE DEF found
    <2> QED BY <2>3, <2>4 DEF Reboots, Reboot, Finds
  <1> QED BY <1>1, <1>2, <1>3, <1>4 DEF Crash

LEMMA RecordShapes ==
  ASSUME IInv, PlaceInv, Next
  PROVE  Rests \/ Reboots \/ \E t \in Task : RecordShape(t)
  BY SectionRecords, CallRecords, BeginRecords, ActorRecords, RebootRecords DEF Next

LEMMA ShapeActive ==
  ASSUME IInv, PlaceInv, NEW t \in Task, RecordShape(t)
  PROVE  task[t].pc \notin {"idle", "gone"} /\ task[t].ns \in Namespace
  <1>1. TaskOK(task[t]) /\ PlaceOK(task[t])
    BY DEF IInv, TaskInv, PlaceInv
  <1>2. task[t].pc \in {"idle", "gone"} => task[t].op # "unregister"
    BY <1>1, NoOperation, NoneIsNothing DEF PlaceOK, Operation
  <1>3. task[t].pc \notin {"idle", "gone"}
    BY <1>2 DEF RecordShape, CopiesToSwap, CopiesToDrop, EnteredFor, Registers, Forgets, Grants,
       Regains, DropsScope, Installs, Fails, DropsCopy, Swaps, Drops
  <1> QED BY <1>1, <1>3 DEF TaskOK

LEMMA WritesIs ==
  ASSUME IInv, NEW t \in Task, NEW rec, task[t].ns \in Namespace, Writes(t, rec)
  PROVE  /\ store'[task[t].ns] = rec
         /\ \A n \in Namespace : n # task[t].ns => store'[n] = store[n]
         /\ \A u \in Task : Blank(task'[u]) \/ task'[u] = task[u]
         /\ task'[t] = Idle
  BY IdleBlank DEF IInv, FileInv, Writes, Put, Alone

-----------------------------------------------------------------------------
(* What is loaded and may be restored is noted as recoverable: in every     *)
(* stored record, and in every copy that will be stored.                    *)

Recorded(rec) ==
  rec.loaded_scopes \cap rec.policy.restorable_scopes \subseteq rec.recoverable_scopes

CopyRecorded(k) ==
  /\ Swaps(k) \/ Drops(k) => Recorded(k.rec)
  /\ Swaps(k) /\ k.op # "activate" => k.grant \subseteq k.rec.recoverable_scopes

RecordedInv ==
  /\ \A n \in Namespace : store[n] # None => Recorded(store[n])
  /\ \A t \in Task : CopyRecorded(task[t])

LEMMA BlankRecorded == \A k : Blank(k) => CopyRecorded(k)
  BY DEF Blank, CopyRecorded

LEMMA RecordedTouch ==
  ASSUME IInv, RecordedInv, Touches
  PROVE  \A n \in Namespace : store'[n] # None => Recorded(store'[n])
  BY DEF RecordedInv, Touches, Touched, Same, SameScopes, Recorded

LEMMA RecordedWrite ==
  ASSUME IInv, RecordedInv, NEW t \in Task, NEW rec, task[t].ns \in Namespace,
         Writes(t, rec), rec = None \/ Recorded(rec)
  PROVE  RecordedInv'
  <1>1. ASSUME NEW n \in Namespace, store'[n] # None PROVE Recorded(store'[n])
    BY <1>1, WritesIs DEF RecordedInv
  <1>2. ASSUME NEW u \in Task PROVE CopyRecorded(task'[u])
    BY <1>2, WritesIs, BlankRecorded DEF RecordedInv
  <1> QED BY <1>1, <1>2 DEF RecordedInv

LEMMA RecordedShape ==
  ASSUME IInv, PlaceInv, RecordedInv, NEW t \in Task, RecordShape(t)
  PROVE  RecordedInv'
  <1> DEFINE n == task[t].ns
  <1> USE DEF n
  <1>0. task[t] \in Coroutine /\ TaskOK(task[t])
    BY DEF IInv, TaskInv
  <1>n. n \in Namespace
    BY ShapeActive
  <1>s. store[n] # None => store[n] \in ToolsetRecord /\ Recorded(store[n])
    BY <1>n, SoundIsRecord DEF RecordedInv
  <1>c. ASSUME Swaps(task[t]) \/ Drops(task[t])
        PROVE  task[t].rec \in ToolsetRecord /\ Recorded(task[t].rec)
    BY <1>0, <1>c DEF Swaps, Drops, TaskOK, CarriesSound, Sound, RecordedInv, CopyRecorded
  <1>k. ASSUME Touches, Alone(t), CopyRecorded(task'[t]) PROVE RecordedInv'
    BY <1>k, RecordedTouch DEF RecordedInv, Alone
  <1>1. CASE CopiesToSwap(t)
    <2>1. /\ store[n] # None /\ Same(task'[t].rec, store[n])
          /\ task'[t].pc = "opening" /\ task'[t].op = task[t].op
          /\ Touches /\ Alone(t)
      BY <1>1 DEF CopiesToSwap, EnteredFor, SameRequest
    <2>2. Recorded(task'[t].rec)
      BY <2>1, <1>s DEF Same, SameScopes, Recorded
    <2>3. ASSUME task'[t].op # "activate"
          PROVE  task'[t].grant \subseteq task'[t].rec.recoverable_scopes
      <3>1. \A i, e : RecoveryScopes(store[n], i, e) \subseteq store[n].recoverable_scopes
        BY <2>1, <1>s, RecoveryBounds
      <3>2. task'[t].grant \subseteq store[n].recoverable_scopes
        BY <1>1, <2>3, <3>1 DEF CopiesToSwap
      <3> QED BY <2>1, <3>2 DEF Same, SameScopes
    <2>4. CopyRecorded(task'[t])
      BY <2>1, <2>2, <2>3 DEF CopyRecorded
    <2> QED BY <2>1, <2>4, <1>k
  <1>2. CASE CopiesToDrop(t)
    <2>1. PICK s \in store[n].loaded_scopes : Less(task'[t].rec, store[n], s)
      BY <1>2 DEF CopiesToDrop
    <2>2. Recorded(task'[t].rec)
      BY <1>2, <2>1, <1>s DEF CopiesToDrop, EnteredFor, Less, Recorded
    <2>3. ~Swaps(task'[t]) /\ Touches /\ Alone(t)
      BY <1>2 DEF CopiesToDrop, Drops, Swaps, SwapOp
    <2> QED BY <2>2, <2>3, <1>k DEF CopyRecorded
  <1>3. CASE Registers(t)
    <2>1. PICK policy \in Policies : Writes(t, NewRecord(policy))
      BY <1>3 DEF Registers, WritesOnly
    <2>2. Recorded(NewRecord(policy))
      BY DEF Recorded, NewRecord
    <2> QED BY <2>1, <2>2, <1>n, RecordedWrite
  <1>4. CASE Forgets(t)
    BY <1>4, <1>n, RecordedWrite DEF Forgets
  <1>5. CASE Grants(t)
    <2>1. PICK rec \in ToolsetRecord, s \in store[n].policy.supported_scopes :
            /\ rec.policy = store[n].policy
            /\ rec.loaded_scopes = store[n].loaded_scopes \cup {s}
            /\ rec.recoverable_scopes
                 = store[n].recoverable_scopes \cup ({s} \cap store[n].policy.restorable_scopes)
            /\ Writes(t, rec)
      BY <1>5 DEF Grants, WritesOnly
    <2>2. Recorded(rec)
      BY <1>5, <2>1, <1>s DEF Grants, EnteredFor, Recorded
    <2> QED BY <2>1, <2>2, <1>n, RecordedWrite
  <1>6. CASE Regains(t)
    <2>1. PICK rec \in ToolsetRecord, identity \in BOOLEAN :
            /\ rec.policy = store[n].policy
            /\ rec.loaded_scopes = store[n].loaded_scopes
                 \cup RecoveryScopes(store[n], identity, task[t].op = "restore")
            /\ rec.recoverable_scopes = store[n].recoverable_scopes
            /\ Writes(t, rec)
      BY <1>6 DEF Regains, WritesOnly
    <2>2. store[n] \in ToolsetRecord /\ Recorded(store[n])
      BY <1>6, <1>s DEF Regains, EnteredFor
    <2>3. RecoveryScopes(store[n], identity, task[t].op = "restore")
            \subseteq store[n].recoverable_scopes
      BY <2>2, RecoveryBounds
    <2>4. Recorded(rec)
      BY <2>1, <2>2, <2>3 DEF Recorded
    <2> QED BY <2>1, <2>4, <1>n, RecordedWrite
  <1>7. CASE DropsScope(t)
    <2>1. PICK rec \in ToolsetRecord, s \in store[n].loaded_scopes :
            Less(rec, store[n], s) /\ Writes(t, rec)
      BY <1>7 DEF DropsScope, WritesOnly
    <2>2. Recorded(rec)
      BY <1>7, <2>1, <1>s DEF DropsScope, EnteredFor, Less, Recorded
    <2> QED BY <2>1, <2>2, <1>n, RecordedWrite
  <1>8. CASE Installs(t)
    <2>1. PICK hash \in Inventory : Writes(t, Installed(task[t], hash))
      BY <1>8 DEF Installs
    <2>2. task[t].rec \in ToolsetRecord /\ Recorded(task[t].rec)
      BY <1>8, <1>c DEF Installs
    <2>3. task[t].op # "activate" => task[t].grant \subseteq task[t].rec.recoverable_scopes
      BY <1>8 DEF Installs, RecordedInv, CopyRecorded
    <2>4. LET rec == Installed(task[t], hash)  k == task[t] IN
          /\ rec.policy = k.rec.policy
          /\ rec.loaded_scopes = k.rec.loaded_scopes \cup k.grant
          /\ rec.recoverable_scopes =
               IF k.op = "activate"
               THEN k.rec.recoverable_scopes \cup (k.grant \cap k.rec.policy.restorable_scopes)
               ELSE k.rec.recoverable_scopes
      BY <1>0, <2>2, InstalledRecord
    <2>5. Recorded(Installed(task[t], hash))
      BY <2>2, <2>3, <2>4 DEF Recorded
    <2> QED BY <2>1, <2>5, <1>n, RecordedWrite
  <1>9. CASE Fails(t) \/ DropsCopy(t)
    <2>1. PICK rec \in ToolsetRecord : Same(rec, task[t].rec) /\ Writes(t, rec)
      BY <1>9 DEF Fails, DropsCopy, WritesOnly
    <2>2. Recorded(rec)
      BY <1>9, <2>1, <1>c DEF Fails, DropsCopy, Same, SameScopes, Recorded
    <2> QED BY <2>1, <2>2, <1>n, RecordedWrite
  <1> QED BY <1>1, <1>2, <1>3, <1>4, <1>5, <1>6, <1>7, <1>8, <1>9 DEF RecordShape

LEMMA RebootedIs ==
  ASSUME NEW n, NEW rec \in ToolsetRecord
  PROVE  /\ Rebooted(n, rec) \in ToolsetRecord
         /\ Rebooted(n, rec).policy = rec.policy
         /\ Rebooted(n, rec).loaded_scopes = {}
         /\ Rebooted(n, rec).recoverable_scopes =
              IF rec.recoverable_scopes = {}
              THEN rec.loaded_scopes \cap rec.policy.restorable_scopes
              ELSE rec.recoverable_scopes
         /\ SameHashes(Rebooted(n, rec), rec)
  <1>1. Rebooted(n, rec) = Reconciled(rec)
    BY RecordIsSomething DEF Rebooted
  <1>2. /\ Reconciled(rec) \in ToolsetRecord
        /\ Reconciled(rec).policy = rec.policy
        /\ Reconciled(rec).loaded_scopes = {}
        /\ Reconciled(rec).recoverable_scopes =
             IF rec.recoverable_scopes = {}
             THEN rec.loaded_scopes \cap rec.policy.restorable_scopes
             ELSE rec.recoverable_scopes
        /\ SameHashes(Reconciled(rec), rec)
    BY DEF Reconciled, ToolsetRecord, TransportState, Policy, SameHashes
  <1> QED BY <1>1, <1>2

LEMMA RebootedNone ==
  ASSUME NEW n
  PROVE  Rebooted(n, None) = None \/ Rebooted(n, None) = NewRecord(DefaultPolicy)
  BY DEF Rebooted

(* The record a crash found just written.                                   *)
LEMMA CutRecord ==
  ASSUME IInv, NEW t \in Task, Swaps(task[t]), NEW hash \in Inventory
  PROVE  /\ task[t] \in Coroutine /\ task[t].ns \in Namespace /\ task[t].rec \in ToolsetRecord
         /\ Installed(task[t], hash) \in ToolsetRecord
  <1>1. task[t] \in Coroutine /\ task[t].ns \in Namespace /\ task[t].rec \in ToolsetRecord
    BY DEF Swaps, IInv, TaskInv, TaskOK, CarriesSound, Sound
  <1> QED BY <1>1, InstalledRecord

LEMMA FoundRecord ==
  ASSUME IInv, NEW found, Finds(found), NEW n \in Namespace
  PROVE  /\ found[n] = None \/ found[n] \in ToolsetRecord
         /\ store[n] # None => found[n] # None
  <1>1. CASE Touched(store[n], found[n])
    BY <1>1, RecordIsSomething DEF Touched
  <1>2. ASSUME NEW t \in Task, NEW hash \in Inventory, Swaps(task[t]),
               found = [store EXCEPT ![task[t].ns] = Installed(task[t], hash)]
        PROVE  /\ found[n] = None \/ found[n] \in ToolsetRecord
               /\ store[n] # None => found[n] # None
    <2>1. Installed(task[t], hash) \in ToolsetRecord
      BY <1>2, CutRecord
    <2>2. found[n] = Installed(task[t], hash) \/ found[n] = store[n]
      BY <1>2 DEF IInv, FileInv
    <2> QED BY <2>1, <2>2, SoundIsRecord, RecordIsSomething
  <1> QED BY <1>1, <1>2 DEF Finds

(* Whatever it finds, a new process has loaded nothing.                     *)
LEMMA RebootedBlank ==
  ASSUME IInv, Reboots
  PROVE  /\ \A n \in Namespace :
              /\ store'[n] = None \/ store'[n].loaded_scopes = {}
              /\ store[n] # None => store'[n] # None
              /\ mounted'[n] = None
         /\ \A u \in Task : task'[u] = Idle
  <1>1. PICK found : Reboot(found) /\ Finds(found)
    BY DEF Reboots
  <1>2. ASSUME NEW n \in Namespace
        PROVE  /\ store'[n] = None \/ store'[n].loaded_scopes = {}
               /\ store[n] # None => store'[n] # None
    <2>1. store'[n] = Rebooted(n, found[n])
      BY <1>1 DEF Reboot
    <2>2. CASE found[n] = None
      BY <1>1, <2>1, <2>2, FoundRecord, RebootedNone DEF NewRecord
    <2>3. CASE found[n] \in ToolsetRecord
      <3>1. PICK rec \in ToolsetRecord : rec = found[n]
        BY <2>3
      <3>2. store'[n] \in ToolsetRecord /\ store'[n].loaded_scopes = {}
        BY <2>1, <3>1, RebootedIs
      <3> QED BY <3>2, RecordIsSomething
    <2> QED BY <1>1, <2>2, <2>3, FoundRecord
  <1> QED BY <1>2 DEF Reboots, ProcessGone

LEMMA RecordedStep ==
  ASSUME IInv, PlaceInv, RecordedInv, [Next]_vars
  PROVE  RecordedInv'
  <1>1. CASE UNCHANGED vars
    BY <1>1 DEF vars, fileVars, RecordedInv
  <1>2. CASE Rests
    <2>1. \A u \in Task : CopyRecorded(task'[u])
      <3>1. ASSUME NEW u \in Task, SameCopy(task'[u], task[u]) PROVE CopyRecorded(task'[u])
        BY <3>1 DEF RecordedInv, CopyRecorded, SameCopy, SameRequest
      <3> QED BY <1>2, <3>1, BlankRecorded DEF Rests
    <2> QED BY <1>2, <2>1, RecordedTouch DEF Rests, RecordedInv
  <1>3. CASE Reboots
    <2>1. \A n \in Namespace : store'[n] # None => Recorded(store'[n])
      BY <1>3, RebootedBlank DEF Recorded
    <2>2. \A u \in Task : CopyRecorded(task'[u])
      BY <1>3, RebootedBlank, IdleBlank, BlankRecorded
    <2> QED BY <2>1, <2>2 DEF RecordedInv
  <1>4. CASE \E t \in Task : RecordShape(t)
    BY <1>4, RecordedShape
  <1> QED BY <1>1, <1>2, <1>3, <1>4, RecordShapes

LEMMA RecordedInit == Init => RecordedInv
  <1> SUFFICES ASSUME Init PROVE RecordedInv
    OBVIOUS
  <1>1. \A t \in Task : CopyRecorded(task[t])
    BY IdleBlank, BlankRecorded DEF Init
  <1>2. \A n \in Namespace : store[n] # None => Recorded(store[n])
    BY DEF Init, Recorded, NewRecord
  <1> QED BY <1>1, <1>2 DEF RecordedInv

(* A loaded scope that may be restored is recoverable, in the state file and *)
(* in every copy of a record that a coroutine will write back.               *)
THEOREM RecordedInvariant == Spec => []RecordedInv
  <1>1. RuntimesInv /\ RecordedInv /\ [Next]_vars => RecordedInv'
    BY RecordedStep DEF RuntimesInv
  <1> QED BY <1>1, RecordedInit, RuntimesInvariant, PTL DEF Spec

-----------------------------------------------------------------------------
(* Startup's restores.  No request is served meanwhile, so that a restore   *)
(* still knows, when it is done, the record it started from.                *)

MayAsk(policy) ==
  /\ ~policy.restore_requires_explicit_request
  /\ policy.restore_requires_identity => StableIdentity

BootCopy(k) ==
  k.op = "boot_restore" /\ Swaps(k) =>
    /\ store[k.ns] # None
    /\ SameScopes(k.rec, store[k.ns])
    /\ MayAsk(store[k.ns].policy)

BootAlone ==
  /\ \A t \in Task : task[t].pc # "idle" /\ boot # {} => task[t].op = "boot_restore"
  /\ \A t, u \in Task : task[t].op = "boot_restore" /\ t # u => task[u].pc = "idle"

BootInv == BootAlone /\ \A t \in Task : BootCopy(task[t])

LEMMA RecoveryAsks ==
  ASSUME NEW rec, NEW identity \in BOOLEAN, NEW explicit \in BOOLEAN,
         RecoveryScopes(rec, identity, explicit) # {}
  PROVE  /\ rec.policy.restore_requires_identity => identity
         /\ rec.policy.restore_requires_explicit_request => explicit
  BY DEF RecoveryScopes

(* Only Request, BootRestore and a new process start anything or set boot.  *)
LEMMA StepContinues ==
  ASSUME IInv, PlaceInv,
         \/ \E r \in Runtime : Serve(r) \/ Unwind(r) \/ Die(r)
         \/ \E t \in Task : Section(t) \/ Call(t) \/ TimeOut(t)
  PROVE  /\ UNCHANGED boot
         /\ \A u \in Task : \/ task'[u] = Idle
                            \/ task'[u].op = task[u].op /\ (task[u].pc = "idle" => task'[u].pc = "idle")
  <1>1. ASSUME NEW t \in Task, Section(t) \/ Call(t) \/ TimeOut(t)
        PROVE  /\ UNCHANGED boot
               /\ \E k \in Coroutine :
                    /\ Turn(t, k)
                    /\ k = Idle \/ (k.op = task[t].op /\ (task[t].pc = "idle" => k.pc = "idle"))
    <2>1. ASSUME Section(t) PROVE UNCHANGED boot
      BY <2>1 DEF Section, Refuse, Register, Unregister, UnregisterClosed, Forget, ActivateReuse,
         Activate, Open, RestoreSkip, RestoreReuse, Restore, Refresh, Opened, SwapClosed, Install,
         OpenFailed, Deactivate, DeactivateClosed, DisconnectRaised, HealthMissing, HealthProbe,
         HealthProbed, HealthFailed, HealthClosed, ClearStale, MarkStale
    <2>2. ASSUME Call(t) \/ TimeOut(t) PROVE UNCHANGED boot
      BY <2>2 DEF Call, CallSend, CallAnswered, CallFailed, CallClosed, CallFinish, TimeOut
    <2>3. \E k \in Coroutine :
            /\ Turn(t, k)
            /\ \/ Returns(t, k) \/ Opens(t, k) \/ Mounts(t, k) \/ Replaces(t, k)
               \/ Unmounts(t, k) \/ Queues(t, k) \/ Finishes(t, k) \/ CountsOut(t, k) \/ Expires(t, k)
      <3>1. CASE Section(t)
        BY <3>1, SectionShape
      <3>2. CASE Call(t)
        BY <3>2, CallShape
      <3>3. CASE TimeOut(t)
        BY <3>3, TimeOutShape
      <3> QED BY <1>1, <3>1, <3>2, <3>3
    <2>4. PICK k \in Coroutine :
            /\ Turn(t, k)
            /\ \/ Returns(t, k) \/ Opens(t, k) \/ Mounts(t, k) \/ Replaces(t, k)
               \/ Unmounts(t, k) \/ Queues(t, k) \/ Finishes(t, k) \/ CountsOut(t, k) \/ Expires(t, k)
      BY <2>3
    <2>5. TaskOK(task[t]) /\ PlaceOK(task[t])
      BY DEF IInv, TaskInv, PlaceInv
    <2>6. k = Idle \/ (k.op = task[t].op /\ (task[t].pc = "idle" => k.pc = "idle"))
      BY <2>4, <2>5 DEF Returns, Opens, Mounts, Replaces, Unmounts, Queues, Finishes, CountsOut,
         Expires, Signalled, SameRequest, Closed, CloseRaised
    <2> QED BY <1>1, <2>1, <2>2, <2>4, <2>6
  <1>2. ASSUME NEW r \in Runtime, Serve(r)
        PROVE  UNCHANGED boot /\ \E t \in Task, k \in Coroutine : Turn(t, k) /\ Answers(r, t, k)
    <2>1. UNCHANGED boot
      BY <1>2 DEF Serve
    <2> QED BY <1>2, <2>1, ServeShape
  <1>3. ASSUME NEW r \in Runtime, Unwind(r) \/ Die(r) PROVE UNCHANGED boot /\ Ends(r)
    BY <1>3, EndShape DEF Unwind, Die, EndActor
  <1>4. ASSUME NEW t \in Task, Section(t) \/ Call(t) \/ TimeOut(t)
        PROVE  /\ UNCHANGED boot
               /\ \A u \in Task : \/ task'[u] = Idle
                                  \/ /\ task'[u].op = task[u].op
                                     /\ task[u].pc = "idle" => task'[u].pc = "idle"
    <2>1. PICK k \in Coroutine :
            /\ Turn(t, k)
            /\ k = Idle \/ (k.op = task[t].op /\ (task[t].pc = "idle" => k.pc = "idle"))
      BY <1>1, <1>4
    <2> QED BY <1>1, <1>4, <2>1, TurnIs
  <1>5. ASSUME NEW r \in Runtime, NEW t \in Task, NEW k \in Coroutine, Turn(t, k), Answers(r, t, k)
        PROVE  \A u \in Task : /\ task'[u].op = task[u].op
                               /\ task[u].pc = "idle" => task'[u].pc = "idle"
    BY <1>5, TurnIs DEF Answers, Signalled, SameRequest
  <1>6. ASSUME NEW r \in Runtime, Ends(r)
        PROVE  \A u \in Task : /\ task'[u].op = task[u].op
                               /\ task[u].pc = "idle" => task'[u].pc = "idle"
    BY <1>6 DEF Ends, Signalled, SameRequest
  <1> QED BY <1>2, <1>3, <1>4, <1>5, <1>6

LEMMA BootAloneStep ==
  ASSUME IInv, PlaceInv, BootAlone, Next
  PROVE  BootAlone'
  <1>i. Idle.pc = "idle" /\ Idle.op # "boot_restore"
    BY NoneIsNothing DEF Idle
  <1>1. ASSUME NEW t \in Task, Request(t) PROVE BootAlone'
    <2>1. PICK o \in Op, n \in Namespace, x \in Tool \cup {None} :
            task' = [task EXCEPT ![t] = Started(o, n, x)]
      BY <1>1 DEF Request
    <2>2. o # "boot_restore" /\ o \in Operation
      BY OpAssumption DEF Operation
    <2>3. Started(o, n, x) \in Coroutine /\ Started(o, n, x).op = o
      BY <2>2, StartedState
    <2>4. task'[t].op = o /\ \A u \in Task : u # t => task'[u] = task[u]
      BY <2>1, <2>3 DEF IInv, TaskInv
    <2>5. boot' = {} /\ \A u \in Task : task'[u].op # "boot_restore"
      BY <1>1, <2>2, <2>4 DEF Request, Serving
    <2> QED BY <2>5 DEF BootAlone
  <1>2. ASSUME NEW t \in Task, BootRestore(t) PROVE BootAlone'
    <2>1. PICK n \in Namespace : task' = [task EXCEPT ![t] = Started("boot_restore", n, None)]
      BY <1>2 DEF BootRestore, IInv
    <2>2. Started("boot_restore", n, None).op = "boot_restore"
      BY StartedState
    <2>3. task'[t].op = "boot_restore" /\ \A u \in Task : u # t => task'[u] = task[u]
      BY <2>1, <2>2 DEF IInv, TaskInv
    <2>4. \A u \in Task : task[u].pc = "idle" /\ task[u].op # "boot_restore"
      BY <1>2, <1>i DEF BootRestore, PlaceInv, PlaceOK
    <2> QED BY <2>3, <2>4 DEF BootAlone
  <1>3. CASE Restart \/ \E t \in Task : Crash(t)
    <2>1. \A u \in Task : task'[u] = Idle
      BY <1>3, RebootRecords, RebootedBlank
    <2> QED BY <2>1, <1>i DEF BootAlone
  <1>4. CASE \/ \E r \in Runtime : Serve(r) \/ Unwind(r) \/ Die(r)
             \/ \E t \in Task : Section(t) \/ Call(t) \/ TimeOut(t)
    <2>1. /\ boot' = boot
          /\ \A u \in Task : \/ task'[u] = Idle
                             \/ task'[u].op = task[u].op /\ (task[u].pc = "idle" => task'[u].pc = "idle")
      BY <1>4, StepContinues
    <2> QED BY <2>1, <1>i DEF BootAlone
  <1> QED BY <1>1, <1>2, <1>3, <1>4 DEF Next

(* While startup restores, only its own restore does anything.              *)
LEMMA OnlyBoot ==
  ASSUME IInv, PlaceInv, BootAlone, ~Serving, NEW t \in Task, RecordShape(t)
  PROVE  task[t].op = "boot_restore"
  BY ShapeActive DEF Serving, BootAlone

LEMMA BootCopyStep ==
  ASSUME IInv, PlaceInv, BootInv, Next, NEW t \in Task
  PROVE  BootCopy(task[t])'
  <1> SUFFICES ASSUME task'[t].op = "boot_restore", Swaps(task'[t])
               PROVE  /\ store'[task'[t].ns] # None
                      /\ SameScopes(task'[t].rec, store'[task'[t].ns])
                      /\ MayAsk(store'[task'[t].ns].policy)
    BY DEF BootCopy, Swaps, SameScopes
  <1>b. BootAlone /\ BootCopy(task[t])
    BY DEF BootInv
  <1>1. CASE Rests
    <2>1. SameCopy(task'[t], task[t])
      BY <1>1 DEF Rests, Blank
    <2>2. /\ task[t].op = "boot_restore" /\ Swaps(task[t])
          /\ task'[t].ns = task[t].ns /\ task'[t].rec = task[t].rec
      BY <2>1 DEF SameCopy, SameRequest
    <2>3. /\ store[task[t].ns] # None /\ SameScopes(task[t].rec, store[task[t].ns])
          /\ MayAsk(store[task[t].ns].policy)
      BY <1>b, <2>2 DEF BootCopy
    <2>4. task[t].ns \in Namespace
      BY <2>2 DEF IInv, TaskInv, TaskOK, Swaps
    <2>5. /\ store'[task[t].ns] \in ToolsetRecord
          /\ SameScopes(store'[task[t].ns], store[task[t].ns])
      BY <1>1, <2>3, <2>4 DEF Rests, Touches, Touched, Same
    <2> QED BY <2>2, <2>3, <2>5, RecordIsSomething DEF SameScopes
  <1>2. CASE Reboots
    BY <1>2, IdleBlank, RebootedBlank DEF Blank
  <1>3. ASSUME NEW x \in Task, RecordShape(x)
        PROVE  /\ store'[task'[t].ns] # None
               /\ SameScopes(task'[t].rec, store'[task'[t].ns])
               /\ MayAsk(store'[task'[t].ns].policy)
    <2>1. x = t
      <3>1. ASSUME x # t PROVE FALSE
        <4>1. task'[t] = task[t]
          BY <1>3, <3>1 DEF RecordShape, CopiesToSwap, CopiesToDrop, Registers, Forgets, Grants,
             Regains, DropsScope, Installs, Fails, DropsCopy, WritesOnly, Writes, Alone
        <4>2. task[x].pc = "idle"
          BY <1>b, <3>1, <4>1 DEF BootAlone
        <4> QED BY <1>3, <4>2, ShapeActive
      <3> QED BY <3>1
    <2>2. CopiesToSwap(t)
      <3>1. task'[t] # Idle
        BY IdleBlank DEF Blank
      <3>2. ~CopiesToDrop(t)
        BY DEF CopiesToDrop, Drops, Swaps, SwapOp
      <3> QED BY <1>3, <2>1, <3>1, <3>2 DEF RecordShape, Registers, Forgets, Grants, Regains,
              DropsScope, Installs, Fails, DropsCopy, WritesOnly, Writes
    <2> DEFINE n == task[t].ns
    <2>3. /\ n \in Namespace /\ store[n] # None /\ task'[t].ns = n
          /\ Same(task'[t].rec, store[n]) /\ Touches
      BY <2>1, <2>2, <1>3, ShapeActive DEF CopiesToSwap, EnteredFor, SameRequest
    <2>4. store'[n] \in ToolsetRecord /\ SameScopes(store'[n], store[n])
      BY <2>3 DEF Touches, Touched, Same
    <2>5. RecoveryScopes(store[n], StableIdentity, FALSE) # {}
      BY <2>2 DEF CopiesToSwap
    <2>6. StableIdentity \in BOOLEAN
      BY <2>2 DEF CopiesToSwap
    <2>7. MayAsk(store[n].policy)
      BY <2>5, <2>6, RecoveryAsks DEF MayAsk
    <2> QED BY <2>3, <2>4, <2>7, RecordIsSomething DEF SameScopes, Same
  <1> QED BY <1>1, <1>2, <1>3, RecordShapes

LEMMA BootInvStep ==
  ASSUME IInv, PlaceInv, BootInv, [Next]_vars
  PROVE  BootInv'
  <1>1. CASE UNCHANGED vars
    BY <1>1 DEF vars, fileVars, BootInv, BootAlone, BootCopy
  <1>2. CASE Next
    <2>1. BootAlone'
      BY <1>2, BootAloneStep DEF BootInv
    <2>2. \A t \in Task : BootCopy(task[t])'
      BY <1>2, BootCopyStep
    <2> QED BY <2>1, <2>2 DEF BootInv
  <1> QED BY <1>1, <1>2

LEMMA BootInit == Init => BootInv
  BY IdleBlank, NoneIsNothing DEF Init, BootInv, BootAlone, BootCopy, Blank, Idle

(* Until the program serves, the startup restore is the only coroutine, and *)
(* the copy it carries is the stored record with the state it has reached.  *)
THEOREM BootInvariant == Spec => []BootInv
  <1>1. RuntimesInv /\ BootInv /\ [Next]_vars => BootInv'
    BY BootInvStep DEF RuntimesInv
  <1> QED BY <1>1, BootInit, RuntimesInvariant, PTL DEF Spec

Widens(n) ==
  store[n] # None /\ store'[n] # None =>
    LET rec == store[n]
        restored == store'[n].loaded_scopes \ rec.loaded_scopes
    IN  restored # {} =>
          /\ restored \subseteq rec.recoverable_scopes
          /\ ~rec.policy.restore_requires_explicit_request
          /\ rec.policy.restore_requires_identity => StableIdentity

LEMMA BootWidens ==
  ASSUME RuntimesInv, RecordedInv, BootInv, Next, ~Serving, NEW n \in Namespace
  PROVE  Widens(n)
  <1>0. IInv /\ PlaceInv /\ BootAlone
    BY DEF RuntimesInv, BootInv
  <1>s. ASSUME store'[n] # None, store[n] # None,
               store'[n].loaded_scopes \subseteq store[n].loaded_scopes
        PROVE  Widens(n)
    BY <1>s DEF Widens
  <1>t. ASSUME Touches PROVE Widens(n)
    BY <1>t, <1>s DEF Touches, Touched, Same, SameScopes, Widens
  <1>1. CASE Rests
    BY <1>1, <1>t DEF Rests
  <1>2. CASE Reboots
    BY <1>0, <1>2, <1>s, RebootedBlank DEF Widens
  <1>3. ASSUME NEW t \in Task, RecordShape(t) PROVE Widens(n)
    <2>1. task[t].op = "boot_restore" /\ task[t].ns \in Namespace
      BY <1>0, <1>3, OnlyBoot, ShapeActive
    <2>w. ASSUME NEW rec, Writes(t, rec), n = task[t].ns => Widens(n) PROVE Widens(n)
      <3>1. CASE n # task[t].ns
        <4>1. store'[n] = store[n]
          BY <1>0, <2>1, <2>w, <3>1, WritesIs
        <4> QED BY <4>1 DEF Widens
      <3> QED BY <2>w, <3>1
    <2>2. CASE CopiesToSwap(t) \/ CopiesToDrop(t)
      BY <2>2, <1>t DEF CopiesToSwap, CopiesToDrop
    <2>3. CASE Regains(t)
      <3> DEFINE from == store[task[t].ns]
      <3>1. PICK rec \in ToolsetRecord, identity \in BOOLEAN :
              /\ identity = StableIdentity
              /\ rec.loaded_scopes
                   = from.loaded_scopes \cup RecoveryScopes(from, identity, task[t].op = "restore")
              /\ Writes(t, rec)
        BY <2>1, <2>3 DEF Regains, WritesOnly
      <3>2. (task[t].op = "restore") = FALSE /\ from \in ToolsetRecord
        BY <1>0, <2>1, <2>3, SoundIsRecord DEF Regains, EnteredFor
      <3>3. rec.loaded_scopes = from.loaded_scopes \cup RecoveryScopes(from, StableIdentity, FALSE)
        BY <3>1, <3>2
      <3>4. RecoveryScopes(from, StableIdentity, FALSE) \subseteq from.recoverable_scopes
        BY <3>2, RecoveryBounds
      <3>5. RecoveryScopes(from, StableIdentity, FALSE) # {} => MayAsk(from.policy)
        BY <3>1, RecoveryAsks DEF MayAsk
      <3>6. store'[task[t].ns] = rec
        BY <1>0, <2>1, <3>1, WritesIs
      <3>7. n = task[t].ns => Widens(n)
        BY <3>3, <3>4, <3>5, <3>6 DEF Widens, MayAsk
      <3> QED BY <3>1, <3>7, <2>w
    <2>4. CASE Installs(t)
      <3> DEFINE k == task[t]  from == store[task[t].ns]
      <3>1. PICK hash \in Inventory : Writes(t, Installed(k, hash))
        BY <2>4 DEF Installs
      <3>2. /\ from # None /\ SameScopes(k.rec, from) /\ MayAsk(from.policy)
            /\ k.grant \subseteq k.rec.recoverable_scopes
        BY <2>1, <2>4 DEF Installs, BootInv, BootCopy, RecordedInv, CopyRecorded
      <3>3. k \in Coroutine /\ k.rec \in ToolsetRecord
        BY <1>0, <2>4 DEF Installs, Swaps, IInv, TaskInv, TaskOK, CarriesSound, Sound
      <3>4. Installed(k, hash).loaded_scopes = k.rec.loaded_scopes \cup k.grant
        BY <3>3, InstalledRecord
      <3>5. store'[task[t].ns] = Installed(k, hash)
        BY <1>0, <2>1, <3>1, WritesIs
      <3>6. n = task[t].ns => Widens(n)
        BY <3>2, <3>4, <3>5 DEF Widens, MayAsk, SameScopes
      <3> QED BY <3>1, <3>6, <2>w
    <2>5. CASE Fails(t)
      <3> DEFINE k == task[t]  from == store[task[t].ns]
      <3>1. PICK rec \in ToolsetRecord : Same(rec, k.rec) /\ Writes(t, rec)
        BY <2>5 DEF Fails, WritesOnly
      <3>2. SameScopes(k.rec, from)
        BY <2>1, <2>5 DEF Fails, BootInv, BootCopy
      <3>3. store'[task[t].ns] = rec
        BY <1>0, <2>1, <3>1, WritesIs
      <3>4. n = task[t].ns => Widens(n)
        BY <3>1, <3>2, <3>3 DEF Widens, Same, SameScopes
      <3> QED BY <3>1, <3>4, <2>w
    <2> QED BY <1>3, <2>1, <2>2, <2>3, <2>4, <2>5
            DEF RecordShape, Registers, Forgets, Grants, DropsScope, DropsCopy, Drops, EnteredFor
  <1> QED BY <1>0, <1>1, <1>2, <1>3, RecordShapes

(* While startup restores, before any request is served, it loads only      *)
(* recoverable scopes of toolsets whose policy lets startup ask.            *)
THEOREM BootIsBounded == Spec => BootWidensNothing
  <1> DEFINE Bounded == ~Serving => \A n \in Namespace :
                          store[n] # None /\ store'[n] # None =>
                            LET rec == store[n]
                                restored == store'[n].loaded_scopes \ rec.loaded_scopes
                            IN  restored # {} =>
                                  /\ restored \subseteq rec.recoverable_scopes
                                  /\ ~rec.policy.restore_requires_explicit_request
                                  /\ rec.policy.restore_requires_identity => StableIdentity
  <1>1. ASSUME RuntimesInv, RecordedInv, BootInv, [Next]_vars PROVE [Bounded]_vars
    <2>1. CASE Next
      BY <1>1, <2>1, BootWidens DEF Widens
    <2> QED BY <1>1, <2>1
  <1>2. RuntimesInv /\ RecordedInv /\ BootInv /\ [Next]_vars => [Bounded]_vars
    BY <1>1
  <1>3. Spec => [][Bounded]_vars
    BY <1>2, RecordedInvariant, BootInvariant, RuntimesInvariant, PTL DEF Spec
  <1> QED BY <1>3 DEF BootWidensNothing

-----------------------------------------------------------------------------
(* A copy that is carried is, in its scopes and hashes, the record that is  *)
(* stored: nobody else can be inside the namespace's section.  So the late  *)
(* write of the copy does what the request decided before its await.        *)

SwapFits(k) ==
  /\ store[k.ns] # None
  /\ Same(k.rec, store[k.ns])
  /\ k.op = "activate" => \E s \in store[k.ns].policy.supported_scopes : k.grant = {s}
  /\ k.op = "refresh" => k.grant = {} /\ k.old = cached[k.ns]
  /\ k.rec.loaded_scopes # {} \/ k.grant # {}

DropFits(k) ==
  /\ store[k.ns] # None
  /\ mounted[k.ns] = None
  /\ k.rec.loaded_scopes = {}
  /\ \E s \in store[k.ns].loaded_scopes : Less(k.rec, store[k.ns], s)

CopyFits(k) ==
  /\ Swaps(k) => SwapFits(k)
  /\ Drops(k) => DropFits(k)

(* What is mounted is loaded, and what is loaded is named by the contract   *)
(* in the cache.                                                            *)
Linked(n) ==
  /\ store[n] = None => cached[n] = None
  /\ store[n] # None /\ store[n].loaded_scopes # {} =>
       cached[n] # None /\ store[n].schema_hash = cached[n]
  /\ cached[n] = None => previous[n] = None
  /\ mounted[n] # None => store[n] # None /\ store[n].loaded_scopes # {}

LinkInv ==
  /\ \A n \in Namespace : Linked(n)
  /\ \A t \in Task : CopyFits(task[t])

LEMMA BlankFits == \A k : Blank(k) => CopyFits(k)
  BY DEF Blank, CopyFits

LEMMA Insider ==
  ASSUME "unregister" \notin Op, IInv, PlaceInv, SectionInv, NEW t \in Task, RecordShape(t)
  PROVE  HasLock(t) /\ ~Forgets(t)
  <1>1. PlaceOK(task[t]) /\ task[t].pc \notin {"idle", "gone"}
    BY ShapeActive DEF PlaceInv
  <1>2. ~Forgets(t)
    BY <1>1 DEF Forgets, PlaceOK
  <1>3. InSection(task[t]) => HasLock(t)
    BY DEF SectionInv, LinesInv
  <1>4. Swaps(task[t]) \/ Drops(task[t]) => InSection(task[t])
    BY DEF Swaps, Drops, InSection, SwapOp
  <1> QED BY <1>2, <1>3, <1>4 DEF RecordShape, CopiesToSwap, CopiesToDrop, EnteredFor, Registers,
          Grants, Regains, DropsScope, Installs, Fails, DropsCopy

LEMMA NoRemoval ==
  ASSUME "unregister" \notin Op, PlaceInv, NEW t \in Task
  PROVE  ~Removes(t)
  BY DEF PlaceInv, PlaceOK, Removes

(* Another request's copy is of another namespace. *)
LEMMA CopiesApart ==
  ASSUME IInv, SectionInv, NEW t \in Task, HasLock(t), NEW u \in Task, u # t, ~Blank(task[u])
  PROVE  task[u].ns # task[t].ns /\ task[u].ns \in Namespace
  <1>1. HasLock(u)
    BY DEF SectionInv, LinesInv, InSection, Blank, Swaps, Drops, SwapOp
  <1>2. MutualExclusion
    BY Exclusion
  <1>3. task[u].ns \in Namespace
    BY DEF IInv, TaskInv, TaskOK, Blank, Swaps, Drops
  <1> QED BY <1>1, <1>2, <1>3 DEF MutualExclusion

LEMMA FitsKept ==
  ASSUME IInv, NEW k, k.ns \in Namespace, CopyFits(k),
         Touched(store[k.ns], store'[k.ns]),
         cached'[k.ns] = cached[k.ns],
         mounted'[k.ns] # None => mounted[k.ns] # None
  PROVE  CopyFits(k)'
  <1>1. ASSUME store[k.ns] # None
        PROVE  /\ store'[k.ns] # None
               /\ Same(store'[k.ns], store[k.ns])
    BY <1>1, RecordIsSomething DEF Touched
  <1>2. ASSUME Swaps(k) PROVE SwapFits(k)'
    BY <1>1, <1>2 DEF CopyFits, SwapFits, Same, SameScopes, SameHashes
  <1>3. ASSUME Drops(k) PROVE DropFits(k)'
    BY <1>1, <1>3 DEF CopyFits, DropFits, Same, SameScopes, SameHashes, Less
  <1> QED BY <1>2, <1>3 DEF CopyFits, Swaps, Drops

(* The same, of a task that stays as it is. *)
LEMMA TaskFits ==
  ASSUME NEW u \in Task, NEW k, task'[u] = k, CopyFits(k)'
  PROVE  CopyFits(task[u])'
  BY DEF CopyFits, Swaps, Drops, SwapFits, DropFits, Same, SameScopes, SameHashes, Less

LEMMA LinkedTouch ==
  ASSUME IInv, LinkInv, Touches, UnmountsOnly, NEW n \in Namespace
  PROVE  Linked(n)'
  <1>1. /\ Linked(n) /\ Touched(store[n], store'[n])
        /\ cached'[n] = cached[n] /\ previous'[n] = previous[n]
        /\ mounted'[n] # None => mounted[n] # None
    BY DEF LinkInv, Touches, UnmountsOnly
  <1> QED BY <1>1, RecordIsSomething DEF Linked, Touched, Same, SameScopes, SameHashes

LEMMA OthersFit ==
  ASSUME IInv, SectionInv, LinkInv, NEW t \in Task, HasLock(t), Alone(t),
         \A n \in Namespace : n # task[t].ns =>
           /\ Touched(store[n], store'[n]) /\ cached'[n] = cached[n]
           /\ mounted'[n] # None => mounted[n] # None
  PROVE  \A u \in Task : u # t => CopyFits(task[u])'
  <1> SUFFICES ASSUME NEW u \in Task, u # t PROVE CopyFits(task[u])'
    OBVIOUS
  <1>1. task'[u] = task[u] /\ CopyFits(task[u])
    BY DEF Alone, LinkInv
  <1>2. CASE Blank(task[u])
    BY <1>1, <1>2 DEF CopyFits, Blank
  <1>3. CASE ~Blank(task[u])
    <2>1. PICK k : k = task[u]
      OBVIOUS
    <2>2. k.ns # task[t].ns /\ k.ns \in Namespace
      BY <1>3, <2>1, CopiesApart
    <2>3. /\ Touched(store[k.ns], store'[k.ns])
          /\ cached'[k.ns] = cached[k.ns]
          /\ mounted'[k.ns] # None => mounted[k.ns] # None
      BY <2>2
    <2>4. CopyFits(k)
      BY <1>1, <2>1
    <2>5. CopyFits(k)'
      BY <2>2, <2>3, <2>4, FitsKept
    <2> QED BY <1>1, <2>1, <2>5, TaskFits
  <1> QED BY <1>2, <1>3

LEMMA TouchedSelf ==
  ASSUME IInv, NEW n \in Namespace
  PROVE  Touched(store[n], store[n])
  BY SoundIsRecord DEF Touched, Same, SameScopes, SameHashes

(* The late or immediate write of one record, by the holder of its lock.    *)
LEMMA LinkedWrite ==
  ASSUME IInv, SectionInv, LinkInv, NEW t \in Task, task[t].ns \in Namespace, HasLock(t),
         NEW rec \in ToolsetRecord, WritesOnly(t, rec),
         rec.loaded_scopes # {} => /\ cached[task[t].ns] # None
                                   /\ rec.schema_hash = cached[task[t].ns],
         mounted[task[t].ns] # None => rec.loaded_scopes # {}
  PROVE  LinkInv'
  <1> DEFINE n == task[t].ns
  <1>1. /\ store'[n] = rec /\ task'[t] = Idle /\ Alone(t)
        /\ \A m \in Namespace : m # n => store'[m] = store[m]
        /\ \A m \in Namespace : cached'[m] = cached[m] /\ previous'[m] = previous[m]
        /\ \A m \in Namespace : mounted'[m] # None => mounted[m] # None
    BY WritesIs DEF WritesOnly, Writes, UnmountsOnly
  <1>2. ASSUME NEW m \in Namespace PROVE Linked(m)'
    <2>1. Linked(m)
      BY DEF LinkInv
    <2>2. CASE m = n
      BY <1>1, <2>1, <2>2, RecordIsSomething DEF Linked
    <2>3. CASE m # n
      BY <1>1, <2>1, <2>3 DEF Linked
    <2> QED BY <2>2, <2>3
  <1>3. \A m \in Namespace : m # n =>
           /\ Touched(store[m], store'[m]) /\ cached'[m] = cached[m]
           /\ mounted'[m] # None => mounted[m] # None
    BY <1>1, TouchedSelf
  <1>4. \A u \in Task : u # t => CopyFits(task[u])'
    BY <1>1, <1>3, OthersFit
  <1>5. CopyFits(task[t])'
    BY <1>1, IdleBlank DEF CopyFits, Blank
  <1> QED BY <1>2, <1>4, <1>5 DEF LinkInv

LEMMA LinkedCopy ==
  ASSUME IInv, SectionInv, LinkInv, NEW t \in Task, HasLock(t), Alone(t), Touches, UnmountsOnly,
         CopyFits(task[t])'
  PROVE  LinkInv'
  <1>1. \A n \in Namespace : Linked(n)'
    BY LinkedTouch
  <1>2. \A n \in Namespace : /\ Touched(store[n], store'[n]) /\ cached'[n] = cached[n]
                             /\ mounted'[n] # None => mounted[n] # None
    BY DEF Touches, UnmountsOnly
  <1>3. \A u \in Task : u # t => CopyFits(task[u])'
    BY <1>2, OthersFit
  <1> QED BY <1>1, <1>3 DEF LinkInv

LEMMA LinkedInstall ==
  ASSUME IInv, SectionInv, LinkInv, NEW t \in Task, HasLock(t), task[t].ns \in Namespace,
         Installs(t)
  PROVE  LinkInv'
  <1>n. PICK n : n = task[t].ns
    OBVIOUS
  <1>k. PICK k : k = task[t]
    OBVIOUS
  <1> USE <1>n, <1>k
  <1>1. PICK hash \in Inventory :
               Writes(t, Installed(k, hash)) /\ ReplaceSnapshot(n, hash)
    BY DEF Installs
  <1>2. k \in Coroutine /\ k.rec \in ToolsetRecord /\ SwapFits(k)
    BY DEF Installs, IInv, TaskInv, TaskOK, CarriesSound, Sound, Swaps, LinkInv, CopyFits
  <1> DEFINE rec == Installed(k, hash)
  <1>3. /\ rec \in ToolsetRecord
        /\ rec.loaded_scopes = k.rec.loaded_scopes \cup k.grant
        /\ rec.schema_hash = hash
        /\ rec.previous_schema_hash = IF k.op = "refresh" THEN k.old ELSE k.rec.schema_hash
    BY <1>2, InstalledRecord
  <1> HIDE DEF rec
  <1>4. /\ store'[n] = rec /\ task'[t] = Idle /\ Alone(t)
        /\ \A m \in Namespace : m # n => store'[m] = store[m]
    BY <1>1, WritesIs DEF Writes, rec
  <1>5. /\ cached'[n] = hash /\ hash # None
        /\ previous'[n] = IF cached[n] = None THEN previous[n] ELSE cached[n]
        /\ \A m \in Namespace : m # n => cached'[m] = cached[m] /\ previous'[m] = previous[m]
    BY <1>1, NoneAssumption DEF ReplaceSnapshot, IInv, FileInv
  <1>6. Linked(n)'
    <2>1. Linked(n)
      BY DEF LinkInv
    <2>3. rec.loaded_scopes # {}
      BY <1>2, <1>3 DEF SwapFits
    <2>4. rec # None
      BY <1>3, RecordIsSomething
    <2> QED BY <1>3, <1>4, <1>5, <2>1, <2>3, <2>4 DEF Linked
  <1>7. ASSUME NEW m \in Namespace, m # n PROVE Linked(m)'
    BY <1>4, <1>5, <1>7 DEF LinkInv, Linked, Installs
  <1>8. \A m \in Namespace : m # n =>
           /\ Touched(store[m], store'[m]) /\ cached'[m] = cached[m]
           /\ mounted'[m] # None => mounted[m] # None
    BY <1>4, <1>5, TouchedSelf DEF Installs
  <1>9. \A u \in Task : u # t => CopyFits(task[u])'
    BY <1>4, <1>8, OthersFit
  <1>10. CopyFits(task[t])'
    BY <1>4, IdleBlank DEF CopyFits, Blank
  <1> QED BY <1>6, <1>7, <1>9, <1>10 DEF LinkInv

LEMMA LinkedShape ==
  ASSUME "unregister" \notin Op, IInv, PlaceInv, SectionInv, LinkInv,
         NEW t \in Task, RecordShape(t)
  PROVE  LinkInv'
  <1> DEFINE n == task[t].ns
  <1> USE DEF n
  <1>0. HasLock(t) /\ ~Forgets(t) /\ n \in Namespace
    BY Insider, ShapeActive
  <1>k. task[t] \in Coroutine /\ TaskOK(task[t]) /\ Linked(n) /\ CopyFits(task[t])
    BY <1>0 DEF IInv, TaskInv, LinkInv
  <1>s. store[n] # None => store[n] \in ToolsetRecord
    BY <1>0, SoundIsRecord
  <1>w. ASSUME NEW rec \in ToolsetRecord, WritesOnly(t, rec),
               store[n] # None /\ SameHashes(rec, store[n]),
               rec.loaded_scopes # {} => store[n].loaded_scopes # {},
               mounted[n] # None => rec.loaded_scopes # {}
        PROVE  LinkInv'
    BY <1>0, <1>k, <1>w, LinkedWrite DEF Linked, SameHashes
  <1>1. CASE CopiesToSwap(t)
    <2>1. PICK k : k = task'[t]
      OBVIOUS
    <2>2. /\ k.ns = n /\ k.op = task[t].op /\ k.pc = "opening"
          /\ Same(k.rec, store[n]) /\ store[n] # None
          /\ Touches /\ UnmountsOnly /\ Alone(t)
      BY <1>1, <2>1 DEF CopiesToSwap, EnteredFor, SameRequest
    <2>3. store'[n] # None /\ Same(store'[n], store[n]) /\ cached'[n] = cached[n]
      BY <1>0, <2>2, RecordIsSomething DEF Touches, Touched
    <2>4. /\ k.op = "activate" => \E s \in store[n].policy.supported_scopes : k.grant = {s}
          /\ k.op = "refresh" => k.grant = {} /\ k.old = cached[n] /\ store[n].loaded_scopes # {}
          /\ k.grant # {} \/ store[n].loaded_scopes # {}
      BY <1>1, <2>1 DEF CopiesToSwap
    <2>5. SwapFits(k)'
      BY <2>2, <2>3, <2>4 DEF SwapFits, Same, SameScopes, SameHashes
    <2>6. ~Drops(k)
      BY <2>2 DEF Drops
    <2>7. CopyFits(k)'
      BY <2>5, <2>6 DEF CopyFits, Drops
    <2>8. CopyFits(task[t])'
      BY <2>1, <2>7, TaskFits
    <2> QED BY <1>0, <2>2, <2>8, LinkedCopy
  <1>2. CASE CopiesToDrop(t)
    <2>1. PICK k : k = task'[t]
      OBVIOUS
    <2>2. /\ k.ns = n /\ Drops(k) /\ k.rec.loaded_scopes = {} /\ store[n] # None
          /\ mounted'[n] = None
          /\ Touches /\ UnmountsOnly /\ Alone(t)
      BY <1>2, <2>1 DEF CopiesToDrop, EnteredFor, SameRequest
    <2>3. PICK s \in store[n].loaded_scopes : Less(k.rec, store[n], s)
      BY <1>2, <2>1 DEF CopiesToDrop
    <2>4. store'[n] # None /\ Same(store'[n], store[n])
      BY <1>0, <2>2, RecordIsSomething DEF Touches, Touched
    <2>5. s \in store'[n].loaded_scopes /\ Less(k.rec, store'[n], s)
      BY <2>3, <2>4 DEF Less, Same, SameScopes, SameHashes
    <2>6. DropFits(k)'
      BY <2>2, <2>4, <2>5 DEF DropFits, Less, SameHashes
    <2>7. ~Swaps(k)
      BY <2>2 DEF Swaps, Drops, SwapOp
    <2>8. CopyFits(k)'
      BY <2>6, <2>7 DEF CopyFits, Swaps
    <2>9. CopyFits(task[t])'
      BY <2>1, <2>8, TaskFits
    <2> QED BY <1>0, <2>2, <2>9, LinkedCopy
  <1>3. CASE Registers(t)
    <2>1. PICK policy \in Policies : WritesOnly(t, NewRecord(policy))
      BY <1>3 DEF Registers
    <2>2. NewRecord(policy) \in ToolsetRecord
      BY PolicyAssumption, NewRecordType
    <2>3. NewRecord(policy).loaded_scopes = {}
      BY DEF NewRecord
    <2>4. mounted[n] = None
      BY <1>3, <1>k DEF Registers, Linked
    <2> QED BY <1>0, <2>1, <2>2, <2>3, <2>4, LinkedWrite
  <1>4. CASE Grants(t)
    <2>1. PICK rec \in ToolsetRecord, s \in store[n].policy.supported_scopes :
            /\ rec.loaded_scopes = store[n].loaded_scopes \cup {s}
            /\ SameHashes(rec, store[n])
            /\ WritesOnly(t, rec)
      BY <1>4 DEF Grants
    <2>2. store[n].loaded_scopes # {}
      BY <1>4 DEF Grants
    <2> QED BY <2>2, <1>4, <2>1, <1>w DEF Grants, EnteredFor
  <1>5. CASE Regains(t)
    <2>1. PICK rec \in ToolsetRecord, identity \in BOOLEAN :
            /\ rec.loaded_scopes
                 = store[n].loaded_scopes
                     \cup RecoveryScopes(store[n], identity, task[t].op = "restore")
            /\ SameHashes(rec, store[n])
            /\ WritesOnly(t, rec)
      BY <1>5 DEF Regains
    <2>2. store[n].loaded_scopes # {} /\ rec.loaded_scopes # {}
      BY <1>5, <1>k, <2>1 DEF Regains, Linked
    <2> QED BY <1>5, <2>1, <2>2, <1>w DEF Regains, EnteredFor
  <1>6. CASE DropsScope(t)
    <2>1. PICK rec \in ToolsetRecord, s \in store[n].loaded_scopes :
            /\ Less(rec, store[n], s)
            /\ rec.loaded_scopes # {} \/ mounted[n] = None
            /\ WritesOnly(t, rec)
      BY <1>6 DEF DropsScope
    <2> QED BY <1>6, <2>1, <1>w DEF DropsScope, EnteredFor, Less
  <1>7. CASE Installs(t)
    BY <1>0, <1>7, LinkedInstall
  <1>8. CASE Fails(t)
    <2>1. PICK rec \in ToolsetRecord : Same(rec, task[t].rec) /\ WritesOnly(t, rec)
      BY <1>8 DEF Fails
    <2>2. SwapFits(task[t])
      BY <1>8, <1>k DEF Fails, CopyFits
    <2>3. store[n] # None /\ Same(rec, store[n])
      BY <2>1, <2>2 DEF SwapFits, Same, SameScopes, SameHashes
    <2>4. rec.loaded_scopes = store[n].loaded_scopes /\ SameHashes(rec, store[n])
      BY <2>3 DEF Same, SameScopes
    <2>5. mounted[n] # None => rec.loaded_scopes # {}
      BY <1>k, <2>4 DEF Linked
    <2> QED BY <2>1, <2>3, <2>4, <2>5, <1>w
  <1>9. CASE DropsCopy(t)
    <2>1. PICK rec \in ToolsetRecord : Same(rec, task[t].rec) /\ WritesOnly(t, rec)
      BY <1>9 DEF DropsCopy
    <2>2. DropFits(task[t])
      BY <1>9, <1>k DEF DropsCopy, CopyFits
    <2>3. store[n] # None /\ SameHashes(rec, store[n]) /\ mounted[n] = None
      BY <2>1, <2>2 DEF DropFits, Less, Same, SameHashes
    <2>4. rec.loaded_scopes = {}
      BY <2>1, <2>2 DEF DropFits, Same, SameScopes
    <2> QED BY <2>4, <2>1, <2>3, <1>w
  <1> QED BY <1>0, <1>1, <1>2, <1>3, <1>4, <1>5, <1>6, <1>7, <1>8, <1>9 DEF RecordShape

LEMMA LinkStep ==
  ASSUME "unregister" \notin Op, IInv, PlaceInv, SectionInv, LinkInv, [Next]_vars
  PROVE  LinkInv'
  <1>1. CASE UNCHANGED vars
    BY <1>1 DEF vars, fileVars, transportVars, LinkInv, Linked, CopyFits, SwapFits, DropFits
  <1>2. CASE Rests
    <2>1. \A n \in Namespace : Linked(n)'
      BY <1>2, LinkedTouch DEF Rests
    <2>2. ASSUME NEW u \in Task PROVE CopyFits(task[u])'
      <3>1. CASE Blank(task'[u])
        BY <3>1 DEF CopyFits, Blank, Swaps, Drops
      <3>2. CASE SameCopy(task'[u], task[u]) /\ ~Blank(task'[u])
        <4>1. PICK k : k = task'[u]
          OBVIOUS
        <4>2. ~Blank(task[u]) /\ k.ns = task[u].ns
          BY <3>2, <4>1 DEF SameCopy, SameRequest, Blank
        <4>3. k.ns \in Namespace
          BY <4>2 DEF IInv, TaskInv, TaskOK, Blank, Swaps, Drops
        <4>4. CopyFits(k)
          BY <3>2, <4>1 DEF LinkInv, CopyFits, SwapFits, DropFits, SameCopy, SameRequest
        <4>5. CopyFits(k)'
          BY <1>2, <4>3, <4>4, FitsKept DEF Rests, Touches, UnmountsOnly
        <4> QED BY <4>1, <4>5, TaskFits
      <3> QED BY <1>2, <3>1, <3>2 DEF Rests
    <2> QED BY <2>1, <2>2 DEF LinkInv
  <1>3. CASE Reboots
    <2>1. UNCHANGED <<cached, previous>>
      BY <1>3, NoRemoval DEF Reboots
    <2>2. ASSUME NEW n \in Namespace PROVE Linked(n)'
      <3>1. Linked(n)
        BY DEF LinkInv
      <3>2. /\ store'[n] = None \/ store'[n].loaded_scopes = {}
            /\ store[n] # None => store'[n] # None
            /\ mounted'[n] = None
        BY <1>3, RebootedBlank
      <3> QED BY <2>1, <3>1, <3>2 DEF Linked
    <2>3. \A u \in Task : CopyFits(task[u])'
      BY <1>3, RebootedBlank, IdleBlank DEF CopyFits, Blank, Swaps, Drops
    <2> QED BY <2>2, <2>3 DEF LinkInv
  <1>4. CASE \E t \in Task : RecordShape(t)
    BY <1>4, LinkedShape
  <1> QED BY <1>1, <1>2, <1>3, <1>4, RecordShapes

LEMMA LinkInit == Init => LinkInv
  <1> SUFFICES ASSUME Init PROVE LinkInv
    OBVIOUS
  <1>1. \A n \in Namespace : Linked(n)
    BY DEF Init, Linked, NewRecord
  <1>2. \A t \in Task : CopyFits(task[t])
    BY IdleBlank, BlankFits DEF Init
  <1> QED BY <1>1, <1>2 DEF LinkInv

(* What is mounted belongs to a loaded record, a loaded record names the      *)
(* cached contract whatever a crash had left, and a copy carried across an     *)
(* await still fits the record it will replace.                                *)
THEOREM LinkInvariant ==
  ASSUME "unregister" \notin Op
  PROVE  Spec => []LinkInv
  <1>1. RuntimesInv /\ SectionInv /\ LinkInv /\ [Next]_vars => LinkInv'
    BY LinkStep DEF RuntimesInv
  <1> QED BY <1>1, LinkInit, SectionInvariant, RuntimesInvariant, PTL DEF Spec

(* A runtime is mounted only for a toolset that is registered and has a     *)
(* scope loaded: even inside the locked sections, where the run looks away. *)
THEOREM MountedIsLoaded ==
  ASSUME "unregister" \notin Op
  PROVE  Spec => []MountedMeansLoaded
  <1>1. LinkInv => MountedMeansLoaded
    BY DEF LinkInv, Linked, MountedMeansLoaded
  <1> QED BY <1>1, LinkInvariant, PTL

(* What is mounted has a contract in the cache, and the record's hash names *)
(* it, even where a crash has once cut the two writes apart.                *)
THEOREM MountedHasName ==
  ASSUME "unregister" \notin Op
  PROVE  Spec => []MountedIsNamed
  <1>1. LinkInv => MountedIsNamed
    BY DEF LinkInv, Linked, MountedIsNamed
  <1> QED BY <1>1, LinkInvariant, PTL

-----------------------------------------------------------------------------
(* The hashes of a record and the snapshots they name.                      *)

(* A write that leaves hashes and snapshots alone. *)
LEMMA NamesKept ==
  ASSUME NEW n \in Namespace, NamesSnapshots(n), UNCHANGED <<cached, previous>>,
         store'[n] # None => store[n] # None /\ SameHashes(store'[n], store[n])
  PROVE  NamesSnapshots(n)'
  BY DEF NamesSnapshots, SameHashes

(* An installation: of the contract the cache held, if it held one, the     *)
(* record notes the hash its request knew.                                  *)
LEMMA NamesInstalled ==
  ASSUME IInv, LinkInv, NEW t \in Task, NEW n \in Namespace, task[t].ns = n, Installs(t),
         NamesSnapshots(n) \/ task[t].op = "refresh"
  PROVE  NamesSnapshots(n)'
  <1>k. PICK k : k = task[t]
    OBVIOUS
  <1> USE <1>k
  <1>1. PICK hash \in Inventory : Writes(t, Installed(k, hash)) /\ ReplaceSnapshot(n, hash)
    BY DEF Installs
  <1>2. k \in Coroutine /\ k.rec \in ToolsetRecord /\ SwapFits(k) /\ Linked(n)
    BY DEF Installs, IInv, TaskInv, TaskOK, CarriesSound, Sound, Swaps, LinkInv, CopyFits
  <1> DEFINE rec == Installed(k, hash)
  <1>3. /\ rec.schema_hash = hash
        /\ rec.previous_schema_hash = IF k.op = "refresh" THEN k.old ELSE k.rec.schema_hash
    BY <1>2, InstalledRecord
  <1> HIDE DEF rec
  <1>4. store'[n] = rec
    BY <1>1, WritesIs DEF rec
  <1>5. /\ cached'[n] = hash
        /\ previous'[n] = IF cached[n] = None THEN previous[n] ELSE cached[n]
    BY <1>1 DEF ReplaceSnapshot, IInv, FileInv
  <1>6. rec.previous_schema_hash = cached[n]
    <2>1. CASE k.op = "refresh"
      BY <1>2, <1>3, <2>1 DEF SwapFits
    <2>2. CASE k.op # "refresh"
      BY <1>2, <1>3, <2>2 DEF SwapFits, Same, SameHashes, NamesSnapshots
    <2> QED BY <2>1, <2>2
  <1>7. cached[n] = None => previous[n] = None
    BY <1>2 DEF Linked
  <1> QED BY <1>3, <1>4, <1>5, <1>6, <1>7 DEF NamesSnapshots

LEMMA NamesShape ==
  ASSUME "unregister" \notin Op, IInv, PlaceInv, SectionInv, LinkInv,
         NEW t \in Task, RecordShape(t), NEW n \in Namespace, NamesSnapshots(n)
  PROVE  NamesSnapshots(n)'
  <1>0. ~Forgets(t) /\ task[t].ns \in Namespace
    BY Insider, ShapeActive
  <1>k. CopyFits(task[t]) /\ Linked(n)
    BY DEF LinkInv
  <1>w. ASSUME NEW rec, WritesOnly(t, rec),
               n = task[t].ns => store[n] # None /\ SameHashes(rec, store[n])
        PROVE  NamesSnapshots(n)'
    <2>1. UNCHANGED <<cached, previous>>
      BY <1>w DEF WritesOnly
    <2>2. n # task[t].ns => store'[n] = store[n]
      BY <1>0, <1>w, WritesIs DEF WritesOnly
    <2>3. n = task[t].ns => store'[n] = rec
      BY <1>0, <1>w, WritesIs DEF WritesOnly
    <2> QED BY <1>w, <2>1, <2>2, <2>3, NamesKept DEF SameHashes
  <1>1. CASE CopiesToSwap(t) \/ CopiesToDrop(t)
    <2>1. Touches
      BY <1>1 DEF CopiesToSwap, CopiesToDrop
    <2> QED BY <2>1, NamesKept DEF Touches, Touched, Same
  <1>2. CASE Registers(t)
    <2>1. PICK policy \in Policies : WritesOnly(t, NewRecord(policy))
      BY <1>2 DEF Registers
    <2>2. CASE n = task[t].ns
      <3>1. cached[n] = None /\ previous[n] = None
        BY <1>2, <1>k, <2>2 DEF Registers, Linked
      <3>2. store'[n] = NewRecord(policy)
        BY <1>0, <2>1, <2>2, WritesIs DEF WritesOnly
      <3>3. UNCHANGED <<cached, previous>>
        BY <2>1 DEF WritesOnly
      <3> QED BY <3>1, <3>2, <3>3 DEF NamesSnapshots, NewRecord
    <2> QED BY <1>w, <2>1, <2>2
  <1>3. CASE Grants(t) \/ Regains(t)
    <2>1. PICK rec \in ToolsetRecord : WritesOnly(t, rec) /\ SameHashes(rec, store[task[t].ns])
      BY <1>3 DEF Grants, Regains
    <2>2. store[task[t].ns] # None
      BY <1>3 DEF Grants, Regains, EnteredFor
    <2> QED BY <1>w, <2>1, <2>2
  <1>4. CASE DropsScope(t)
    <2>1. PICK rec \in ToolsetRecord : WritesOnly(t, rec) /\ SameHashes(rec, store[task[t].ns])
      BY <1>4 DEF DropsScope, Less
    <2>2. store[task[t].ns] # None
      BY <1>4 DEF DropsScope, EnteredFor
    <2> QED BY <1>w, <2>1, <2>2
  <1>5. CASE Installs(t)
    <2>1. CASE n = task[t].ns
      BY <1>5, <2>1, NamesInstalled
    <2>2. CASE n # task[t].ns
      <3>1. store'[n] = store[n]
        BY <1>0, <1>5, <2>2, WritesIs DEF Installs
      <3>2. cached'[n] = cached[n] /\ previous'[n] = previous[n]
        BY <1>5, <2>2 DEF Installs, ReplaceSnapshot, IInv, FileInv
      <3> QED BY <3>1, <3>2 DEF NamesSnapshots
    <2> QED BY <2>1, <2>2
  <1>6. CASE Fails(t) \/ DropsCopy(t)
    <2>1. PICK rec \in ToolsetRecord : WritesOnly(t, rec) /\ SameHashes(rec, task[t].rec)
      BY <1>6 DEF Fails, DropsCopy, Same
    <2>2. store[task[t].ns] # None /\ SameHashes(task[t].rec, store[task[t].ns])
      BY <1>6, <1>k DEF Fails, DropsCopy, CopyFits, SwapFits, DropFits, Same, Less
    <2>3. SameHashes(rec, store[task[t].ns])
      BY <2>1, <2>2 DEF SameHashes
    <2> QED BY <1>w, <2>1, <2>2, <2>3
  <1> QED BY <1>0, <1>1, <1>2, <1>3, <1>4, <1>5, <1>6 DEF RecordShape

LEMMA NamesReboot ==
  ASSUME "unregister" \notin Op, IInv, PlaceInv, LinkInv, Reboots,
         NEW n \in Namespace, NamesSnapshots(n)
  PROVE  NamesSnapshots(n)' \/ Crashes(n)
  <1>1. PICK found : Reboot(found) /\ Finds(found)
    BY DEF Reboots
  <1>2. UNCHANGED <<cached, previous>> /\ store'[n] = Rebooted(n, found[n])
    BY <1>1, NoRemoval DEF Reboots, Reboot
  <1>3. CASE Touched(store[n], found[n])
    <2>1. CASE store[n] = None
      <3>1. cached[n] = None /\ previous[n] = None
        BY <2>1 DEF LinkInv, Linked
      <3>2. store'[n] = None \/ store'[n] = NewRecord(DefaultPolicy)
        BY <1>2, <1>3, <2>1, RebootedNone DEF Touched
      <3> QED BY <1>2, <3>1, <3>2 DEF NamesSnapshots, NewRecord
    <2>2. CASE store[n] # None
      <3>1. found[n] \in ToolsetRecord /\ SameHashes(found[n], store[n])
        BY <1>3, <2>2 DEF Touched, Same
      <3>2. SameHashes(store'[n], found[n])
        BY <1>2, <3>1, RebootedIs
      <3> QED BY <1>2, <2>2, <3>1, <3>2, NamesKept DEF SameHashes
    <2> QED BY <2>1, <2>2
  <1>4. ASSUME NEW t \in Task, NEW hash \in Inventory, Crash(t),
               found = [store EXCEPT ![task[t].ns] = Installed(task[t], hash)],
               ~Touched(store[n], found[n])
        PROVE  Crashes(n)
    <2>1. task[t].ns # n => found[n] = store[n]
      BY <1>4 DEF IInv, FileInv
    <2>2. task[t].ns = n
      BY <1>4, <2>1, TouchedSelf
    <2> QED BY <1>4, <2>2 DEF Crashes
  <1> QED BY <1>1, <1>3, <1>4 DEF Finds

(* A refresh that completes is an installation. *)
LEMMA RefreshInstalls ==
  ASSUME IInv, NEW n \in Namespace, Refreshes(n)
  PROVE  \E t \in Task : task[t].ns = n /\ task[t].op = "refresh" /\ Installs(t)
  <1>1. PICK t \in Task : /\ task[t].ns = n /\ task[t].op = "refresh"
                          /\ SwapClosed(t) \/ (Opened(t) /\ mounted[n] = None)
    BY DEF Refreshes
  <1>2. PICK hash \in Inventory : Install(t, hash)
    <2>1. CASE SwapClosed(t)
      BY <1>1, <2>1 DEF SwapClosed, Closed, Swapping, SwapOp, IInv, TaskInv, TaskOK
    <2>2. CASE Opened(t) /\ mounted[n] = None
      BY <1>1, <2>2 DEF Opened
    <2> QED BY <1>1, <2>1, <2>2
  <1>3. Swaps(task[t])
    BY <1>1 DEF SwapClosed, Closed, Opened, Swaps, SwapOp
  <1>4. \A m \in Namespace : m # n => mounted'[m] = mounted[m]
    BY <1>1 DEF SwapClosed, Opened, IInv, TransportInv
  <1>5. task'[t] = Idle /\ Alone(t)
    BY <1>2, ReturnIs DEF Install
  <1>6. Writes(t, Installed(task[t], hash)) /\ ReplaceSnapshot(task[t].ns, hash)
    BY <1>2, <1>5 DEF Install, Writes
  <1> QED BY <1>1, <1>3, <1>4, <1>6 DEF Installs

LEMMA NamesStep ==
  ASSUME "unregister" \notin Op, IInv, PlaceInv, SectionInv, LinkInv, [Next]_vars,
         NEW n \in Namespace, NamesSnapshots(n) \/ Refreshes(n)
  PROVE  NamesSnapshots(n)' \/ Crashes(n)
  <1>1. CASE Refreshes(n)
    BY <1>1, RefreshInstalls, NamesInstalled
  <1>2. CASE NamesSnapshots(n)
    <2>1. CASE UNCHANGED vars
      BY <1>2, <2>1 DEF vars, fileVars, NamesSnapshots
    <2>2. CASE Rests
      BY <1>2, <2>2, NamesKept DEF Rests, Touches, Touched, Same
    <2>3. CASE Reboots
      BY <1>2, <2>3, NamesReboot
    <2>4. CASE \E t \in Task : RecordShape(t)
      BY <1>2, <2>4, NamesShape
    <2> QED BY <2>1, <2>2, <2>3, <2>4, RecordShapes
  <1> QED BY <1>1, <1>2

(* Whatever requests interleave, short of unregister_toolsets, the contract *)
(* in the cache is the one the record's hash names, and the previous one    *)
(* the one the previous hash names, until the process dies between the two  *)
(* writes; and the next completed refresh makes it so again.                *)
THEOREM HashesName ==
  ASSUME "unregister" \notin Op
  PROVE  Spec => HashesNameSnapshots
  <1> DEFINE Kept == \A n \in Namespace :
                       NamesSnapshots(n) \/ Refreshes(n) => NamesSnapshots(n)' \/ Crashes(n)
  <1>1. ASSUME RuntimesInv, SectionInv, LinkInv, [Next]_vars PROVE Kept
    BY <1>1, NamesStep DEF RuntimesInv
  <1>2. RuntimesInv /\ SectionInv /\ LinkInv /\ [Next]_vars => [Kept]_vars
    BY <1>1
  <1>3. Init => \A n \in Namespace : NamesSnapshots(n)
    BY DEF Init, NamesSnapshots, NewRecord
  <1> HIDE DEF Kept
  <1>4. Spec => [][Kept]_vars
    BY <1>2, LinkInvariant, SectionInvariant, RuntimesInvariant, PTL DEF Spec
  <1>5. Spec => \A n \in Namespace : NamesSnapshots(n)
    BY <1>3 DEF Spec
  <1> QED BY <1>4, <1>5 DEF HashesNameSnapshots, Kept

-----------------------------------------------------------------------------
(* What a new process keeps.                                                *)

LEMMA KeepsRestorable ==
  ASSUME IInv, RecordedInv, Reboots, NEW n \in Namespace, store[n] # None,
         LinkInv \/ \A t \in Task : ~Crash(t)
  PROVE  /\ store'[n].loaded_scopes = {}
         /\ store[n].loaded_scopes \cap store[n].policy.restorable_scopes
              \subseteq store'[n].recoverable_scopes
  <1>1. PICK found : Reboot(found) /\ Finds(found)
    BY DEF Reboots
  <1>2. /\ store[n] \in ToolsetRecord /\ Recorded(store[n])
        /\ found[n] \in ToolsetRecord /\ store'[n] = Rebooted(n, found[n])
    BY <1>1, SoundIsRecord, FoundRecord DEF RecordedInv, Reboot
  <1>3. /\ store'[n].loaded_scopes = {}
        /\ found[n].recoverable_scopes # {} =>
             store'[n].recoverable_scopes = found[n].recoverable_scopes
    <2>1. PICK rec \in ToolsetRecord : rec = found[n]
      BY <1>2
    <2>2. /\ Rebooted(n, rec).loaded_scopes = {}
          /\ rec.recoverable_scopes # {} =>
               Rebooted(n, rec).recoverable_scopes = rec.recoverable_scopes
      BY RebootedIs
    <2> QED BY <1>2, <2>1, <2>2
  <1>4. store[n].recoverable_scopes \subseteq found[n].recoverable_scopes
    <2>1. CASE Touched(store[n], found[n])
      BY <2>1 DEF Touched, Same, SameScopes
    <2>2. ASSUME NEW t \in Task, NEW hash \in Inventory, Crash(t), Swaps(task[t]),
                 found = [store EXCEPT ![task[t].ns] = Installed(task[t], hash)]
          PROVE  store[n].recoverable_scopes \subseteq found[n].recoverable_scopes
      <3>1. CASE task[t].ns # n
        BY <2>2, <3>1 DEF IInv, FileInv
      <3>2. CASE task[t].ns = n
        <4>1. task[t].rec.recoverable_scopes = store[n].recoverable_scopes
          BY <2>2, <3>2 DEF LinkInv, CopyFits, SwapFits, Same, SameScopes
        <4>2. task[t].rec.recoverable_scopes \subseteq Installed(task[t], hash).recoverable_scopes
          <5>1. PICK k : k = task[t]
            OBVIOUS
          <5>2. k \in Coroutine /\ k.rec \in ToolsetRecord
            BY <2>2, <5>1, CutRecord
          <5>3. Installed(k, hash).recoverable_scopes =
                  IF k.op = "activate"
                  THEN k.rec.recoverable_scopes \cup (k.grant \cap k.rec.policy.restorable_scopes)
                  ELSE k.rec.recoverable_scopes
            BY <5>2, InstalledRecord
          <5>4. k.rec.recoverable_scopes \subseteq Installed(k, hash).recoverable_scopes
            BY <5>3
          <5> QED BY <5>1, <5>4
        <4>3. found[n] = Installed(task[t], hash)
          BY <2>2, <3>2 DEF IInv, FileInv
        <4> QED BY <4>1, <4>2, <4>3
      <3> QED BY <3>1, <3>2
    <2> QED BY <1>1, <2>1, <2>2 DEF Finds
  <1> QED BY <1>2, <1>3, <1>4 DEF Recorded

(* A restart forgets no restorable scope, whatever was under way: not even  *)
(* one that a request had granted on a copy it read before an await; nor    *)
(* does a crash between two writes, short of unregister_toolsets.           *)
THEOREM RestartsKeep ==
  ASSUME "unregister" \notin Op \/ "crash" \notin Fault
  PROVE  Spec => RestartKeepsRestorable
  <1> DEFINE Kept == Restart \/ (\E t \in Task : Crash(t)) =>
                       \A n \in Namespace :
                         store[n] # None =>
                           /\ store'[n].loaded_scopes = {}
                           /\ store[n].loaded_scopes \cap store[n].policy.restorable_scopes
                                \subseteq store'[n].recoverable_scopes
  <1>1. ASSUME RuntimesInv, RecordedInv, LinkInv \/ \A t \in Task : ~Crash(t)
        PROVE  Kept
    BY <1>1, RebootRecords, KeepsRestorable DEF RuntimesInv
  <1>2. RuntimesInv /\ RecordedInv /\ LinkInv /\ [Next]_vars => [Kept]_vars
    BY <1>1
  <1>3. ASSUME "crash" \notin Fault
        PROVE  RuntimesInv /\ RecordedInv /\ [Next]_vars => [Kept]_vars
    BY <1>1, <1>3 DEF Crash
  <1> HIDE DEF Kept
  <1>4. CASE "unregister" \notin Op
    <2>1. Spec => []LinkInv
      BY <1>4, LinkInvariant
    <2> QED BY <1>2, <2>1, RecordedInvariant, RuntimesInvariant, PTL
            DEF Spec, RestartKeepsRestorable, Kept
  <1>5. CASE "crash" \notin Fault
    <2>1. RuntimesInv /\ RecordedInv /\ [Next]_vars => [Kept]_vars
      BY <1>3, <1>5
    <2> QED BY <2>1, RecordedInvariant, RuntimesInvariant, PTL
            DEF Spec, RestartKeepsRestorable, Kept
  <1> QED BY <1>4, <1>5

-----------------------------------------------------------------------------
(* Every step of the program changes the scopes of the records as one step  *)
(* of the abstract registry does, or not at all.                            *)

LEMMA RegistryAt ==
  \A n \in Namespace : Registry[n] = IF store[n] = None THEN None ELSE Registered(store[n])
  BY DEF Registry

LEMMA RegisteredType ==
  ASSUME NEW rec \in ToolsetRecord
  PROVE  /\ Registered(rec) \in [policy : Policy, loaded : SUBSET Scope, recoverable : SUBSET Scope]
         /\ Registered(rec).policy = rec.policy
         /\ Registered(rec).loaded = rec.loaded_scopes
         /\ Registered(rec).recoverable = rec.recoverable_scopes
         /\ Registered(rec) # None
  BY EntryAssumption DEF Registered, ToolsetRecord

LEMMA SameRegistered ==
  ASSUME NEW a, NEW b, SameScopes(a, b)
  PROVE  Registered(a) = Registered(b)
  BY DEF SameScopes, Registered

LEMMA RegistryTouched ==
  ASSUME IInv, Touches
  PROVE  UNCHANGED Registry
  <1>1. ASSUME NEW n \in Namespace
        PROVE  (IF store'[n] = None THEN None ELSE Registered(store'[n]))
                 = (IF store[n] = None THEN None ELSE Registered(store[n]))
    <2>1. CASE store[n] = None
      BY <2>1 DEF Touches, Touched
    <2>2. CASE store[n] # None
      BY <2>2, RecordIsSomething, SameRegistered DEF Touches, Touched, Same
    <2> QED BY <2>1, <2>2
  <1> QED BY <1>1 DEF Registry, Registered

(* What a write does to the registry. *)
LEMMA RegistryWritten ==
  ASSUME IInv, NEW t \in Task, NEW rec \in ToolsetRecord, task[t].ns \in Namespace, Writes(t, rec)
  PROVE  Registry' = [Registry EXCEPT ![task[t].ns] = Registered(rec)]
  <1>1. /\ store'[task[t].ns] = rec
        /\ \A n \in Namespace : n # task[t].ns => store'[n] = store[n]
    BY WritesIs
  <1>2. rec # None
    BY RecordIsSomething
  <1>3. Registry' = [n \in Namespace |-> IF store'[n] = None THEN None ELSE Registered(store'[n])]
    BY DEF Registry, Registered
  <1> QED BY <1>1, <1>2, <1>3 DEF Registry

LEMMA GrantedIs ==
  ASSUME NEW rec \in ToolsetRecord, NEW from \in ToolsetRecord, NEW s,
         rec.policy = from.policy,
         rec.loaded_scopes = from.loaded_scopes \cup {s},
         rec.recoverable_scopes
           = from.recoverable_scopes \cup ({s} \cap from.policy.restorable_scopes)
  PROVE  Registered(rec) = Scopes!Granted(Registered(from), s)
  BY RegisteredType DEF Registered, Scopes!Granted, Scopes!Entry

(* The steps of the abstract registry, as assignments of an entry. *)
LEMMA RegistrySteps ==
  ASSUME IInv, NEW n \in Namespace, store[n] # None, NEW rec \in ToolsetRecord,
         rec.policy = store[n].policy,
         Registry' = [Registry EXCEPT ![n] = Registered(rec)]
  PROVE  /\ \A s \in store[n].policy.supported_scopes :
              /\ rec.loaded_scopes = store[n].loaded_scopes \cup {s}
              /\ rec.recoverable_scopes
                   = store[n].recoverable_scopes \cup ({s} \cap store[n].policy.restorable_scopes)
              => Scopes!Grant(n, s)
         /\ \A S \in SUBSET store[n].recoverable_scopes :
              /\ rec.loaded_scopes = store[n].loaded_scopes \cup S
              /\ rec.recoverable_scopes = store[n].recoverable_scopes
              => Scopes!Regain(n, S)
         /\ \A s \in store[n].loaded_scopes :
              /\ rec.loaded_scopes = store[n].loaded_scopes \ {s}
              /\ rec.recoverable_scopes = store[n].recoverable_scopes \ {s}
              => Scopes!Drop(n, s)
  <1>1. store[n] \in ToolsetRecord
    BY SoundIsRecord
  <1>2. Registry[n] = Registered(store[n]) /\ Registry[n] # None
    BY <1>1, RegistryAt, RegisteredType
  <1>3. /\ Registry[n].policy = store[n].policy
        /\ Registry[n].loaded = store[n].loaded_scopes
        /\ Registry[n].recoverable = store[n].recoverable_scopes
        /\ Registry \in [Namespace -> {Registry[m] : m \in Namespace}]
    BY <1>1, <1>2, RegisteredType DEF Registry
  <1>u. PICK reg : reg = Registry
    OBVIOUS
  <1>v. /\ reg = [m \in Namespace |-> reg[m]]
        /\ reg[n] = [ policy |-> store[n].policy, loaded |-> store[n].loaded_scopes,
                       recoverable |-> store[n].recoverable_scopes ]
    BY <1>2, <1>u DEF Registered, Registry
  <1>w. Registry' = [m \in Namespace |->
                       IF m = n THEN [ policy |-> store[n].policy, loaded |-> rec.loaded_scopes,
                                       recoverable |-> rec.recoverable_scopes ] ELSE reg[m]]
    BY <1>u, <1>v DEF Registered
  <1>4. ASSUME NEW s \in store[n].policy.supported_scopes,
               rec.loaded_scopes = store[n].loaded_scopes \cup {s},
               rec.recoverable_scopes
                 = store[n].recoverable_scopes \cup ({s} \cap store[n].policy.restorable_scopes)
        PROVE  Scopes!Grant(n, s)
    <2>1. Registered(rec) = Scopes!Granted(Registry[n], s)
      BY <1>1, <1>2, <1>4, GrantedIs
    <2> QED BY <1>2, <1>3, <2>1 DEF Scopes!Grant
  <1>5. ASSUME NEW S \in SUBSET store[n].recoverable_scopes,
               rec.loaded_scopes = store[n].loaded_scopes \cup S,
               rec.recoverable_scopes = store[n].recoverable_scopes
        PROVE  Scopes!Regain(n, S)
    <2>1. Registry' = [Registry EXCEPT ![n].loaded = Registry[n].loaded \cup S]
      BY <1>1, <1>2, <1>3, <1>5 DEF Registered, Registry
    <2> QED BY <1>2, <1>3, <2>1 DEF Scopes!Regain
  <1>6. ASSUME NEW s \in store[n].loaded_scopes,
               rec.loaded_scopes = store[n].loaded_scopes \ {s},
               rec.recoverable_scopes = store[n].recoverable_scopes \ {s}
        PROVE  Scopes!Drop(n, s)
    <2>1. Registry' = [Registry EXCEPT
             ![n].loaded = Registry[n].loaded \ {s},
             ![n].recoverable = Registry[n].recoverable \ {s}]
      <3>1. PICK L : L = Registry[n].loaded \ {s}
        OBVIOUS
      <3>2. PICK R : R = Registry[n].recoverable \ {s}
        OBVIOUS
      <3>3. L = rec.loaded_scopes /\ R = rec.recoverable_scopes
        BY <1>3, <1>6, <3>1, <3>2
      <3>4. PICK lost : lost = [reg EXCEPT ![n].loaded = L]
        OBVIOUS
      <3>5. lost = [m \in Namespace |->
                      IF m = n THEN [ policy |-> store[n].policy, loaded |-> L,
                                      recoverable |-> store[n].recoverable_scopes ] ELSE reg[m]]
        BY <1>v, <3>4
      <3>6. [lost EXCEPT ![n].recoverable = R]
              = [m \in Namespace |->
                   IF m = n THEN [ policy |-> store[n].policy, loaded |-> L,
                                   recoverable |-> R ] ELSE reg[m]]
        BY <3>5
      <3>7. [lost EXCEPT ![n].recoverable = R] = Registry'
        BY <1>w, <3>3, <3>6
      <3> QED BY <1>u, <3>1, <3>2, <3>4, <3>7
    <2> QED BY <1>2, <1>3, <2>1 DEF Scopes!Drop
  <1> QED BY <1>4, <1>5, <1>6

LEMMA RegistryRewritten ==
  ASSUME IInv, NEW t \in Task, NEW rec \in ToolsetRecord, task[t].ns \in Namespace,
         store[task[t].ns] # None, Writes(t, rec), SameScopes(rec, store[task[t].ns])
  PROVE  UNCHANGED Registry
  <1>1. Registry' = [Registry EXCEPT ![task[t].ns] = Registered(rec)]
    BY RegistryWritten
  <1>2. Registry[task[t].ns] = Registered(rec)
    BY RegistryAt, SameRegistered
  <1> QED BY <1>1, <1>2 DEF Registry

LEMMA DefaultPolicyType == DefaultPolicy \in Policy
  BY DEF DefaultPolicy, Policy, Scope

LEMMA PromisedShape ==
  ASSUME "unregister" \notin Op, IInv, PlaceInv, SectionInv, RecordedInv, LinkInv,
         NEW t \in Task, RecordShape(t)
  PROVE  Scopes!Next \/ UNCHANGED Registry
  <1>n. PICK n : n = task[t].ns
    OBVIOUS
  <1> USE <1>n
  <1>0. ~Forgets(t) /\ n \in Namespace
    BY Insider, ShapeActive
  <1>k. /\ task[t] \in Coroutine /\ TaskOK(task[t])
        /\ CopyFits(task[t]) /\ CopyRecorded(task[t])
    BY <1>0 DEF IInv, TaskInv, LinkInv, RecordedInv
  <1>s. ASSUME store[n] # None
        PROVE  /\ store[n] \in ToolsetRecord
               /\ store[n].policy.supported_scopes \subseteq Scope
               /\ store[n].loaded_scopes \subseteq Scope
               /\ store[n].recoverable_scopes \subseteq Scope
    BY <1>0, <1>s, SoundIsRecord DEF ToolsetRecord, Policy
  <1>r. \A i, e : store[n] # None =>
          RecoveryScopes(store[n], i, e) \in SUBSET store[n].recoverable_scopes
    BY <1>s, RecoveryBounds
  <1>w. ASSUME NEW rec \in ToolsetRecord, Writes(t, rec)
        PROVE  Registry' = [Registry EXCEPT ![n] = Registered(rec)]
    BY <1>0, <1>w, RegistryWritten
  <1>g. ASSUME NEW rec \in ToolsetRecord, Writes(t, rec), store[n] # None,
               rec.policy = store[n].policy,
               NEW s \in store[n].policy.supported_scopes,
               rec.loaded_scopes = store[n].loaded_scopes \cup {s},
               rec.recoverable_scopes
                 = store[n].recoverable_scopes \cup ({s} \cap store[n].policy.restorable_scopes)
        PROVE  Scopes!Next
    <2>1. Scopes!Grant(n, s) /\ s \in Scope
      BY <1>0, <1>s, <1>w, <1>g, RegistrySteps
    <2> QED BY <1>0, <2>1 DEF Scopes!Next
  <1>a. ASSUME NEW rec \in ToolsetRecord, Writes(t, rec), store[n] # None,
               rec.policy = store[n].policy,
               NEW S \in SUBSET store[n].recoverable_scopes,
               rec.loaded_scopes = store[n].loaded_scopes \cup S,
               rec.recoverable_scopes = store[n].recoverable_scopes
        PROVE  Scopes!Next
    <2>1. Scopes!Regain(n, S) /\ S \in SUBSET Scope
      BY <1>0, <1>s, <1>w, <1>a, RegistrySteps
    <2> QED BY <1>0, <2>1 DEF Scopes!Next
  <1>d. ASSUME NEW rec \in ToolsetRecord, Writes(t, rec), store[n] # None,
               NEW s \in store[n].loaded_scopes, Less(rec, store[n], s)
        PROVE  Scopes!Next
    <2>1. Scopes!Drop(n, s) /\ s \in Scope
      BY <1>0, <1>s, <1>w, <1>d, RegistrySteps DEF Less
    <2> QED BY <1>0, <2>1 DEF Scopes!Next
  <1>1. CASE CopiesToSwap(t) \/ CopiesToDrop(t)
    BY <1>1, RegistryTouched DEF CopiesToSwap, CopiesToDrop
  <1>2. CASE Registers(t)
    <2>1. PICK policy \in Policies : Writes(t, NewRecord(policy))
      BY <1>2 DEF Registers, WritesOnly
    <2>2. policy \in Policy /\ NewRecord(policy) \in ToolsetRecord
      BY PolicyAssumption, NewRecordType
    <2>3. Registered(NewRecord(policy)) = Scopes!Entry(policy, {}, {})
      BY DEF Registered, NewRecord, Scopes!Entry
    <2>4. Registry[n] = None
      BY <1>0, <1>2, RegistryAt DEF Registers
    <2>5. Registry' = [Registry EXCEPT ![n] = Scopes!Entry(policy, {}, {})]
      BY <1>w, <2>1, <2>2, <2>3
    <2>6. Scopes!Register(n)
      BY <2>2, <2>4, <2>5 DEF Scopes!Register
    <2> QED BY <1>0, <2>6 DEF Scopes!Next
  <1>3. CASE Grants(t)
    <2>1. PICK rec \in ToolsetRecord, s \in store[n].policy.supported_scopes :
            /\ rec.policy = store[n].policy
            /\ rec.loaded_scopes = store[n].loaded_scopes \cup {s}
            /\ rec.recoverable_scopes
                 = store[n].recoverable_scopes \cup ({s} \cap store[n].policy.restorable_scopes)
            /\ Writes(t, rec)
      BY <1>3 DEF Grants, WritesOnly
    <2> QED BY <1>3, <1>g, <2>1 DEF Grants, EnteredFor
  <1>4. CASE Regains(t)
    <2>1. PICK rec \in ToolsetRecord, identity \in BOOLEAN :
            /\ rec.policy = store[n].policy
            /\ rec.loaded_scopes = store[n].loaded_scopes
                 \cup RecoveryScopes(store[n], identity, task[t].op = "restore")
            /\ rec.recoverable_scopes = store[n].recoverable_scopes
            /\ Writes(t, rec)
      BY <1>4 DEF Regains, WritesOnly
    <2>2. store[n] # None
      BY <1>4 DEF Regains, EnteredFor
    <2>3. PICK S : S = RecoveryScopes(store[n], identity, task[t].op = "restore")
      OBVIOUS
    <2>4. S \in SUBSET store[n].recoverable_scopes
      BY <1>r, <2>2, <2>3
    <2> QED BY <1>a, <2>1, <2>2, <2>3, <2>4
  <1>5. CASE DropsScope(t)
    <2>1. PICK rec \in ToolsetRecord, s \in store[n].loaded_scopes :
            Less(rec, store[n], s) /\ Writes(t, rec)
      BY <1>5 DEF DropsScope, WritesOnly
    <2> QED BY <1>5, <1>d, <2>1 DEF DropsScope, EnteredFor
  <1>6. CASE Installs(t)
    <2>1. PICK hash \in Inventory : Writes(t, Installed(task[t], hash))
      BY <1>6 DEF Installs
    <2>2. SwapFits(task[t]) /\ task[t].rec \in ToolsetRecord
      BY <1>6, <1>k DEF Installs, CopyFits, Swaps, TaskOK, CarriesSound, Sound
    <2>3. PICK rec : rec = Installed(task[t], hash)
      OBVIOUS
    <2>4. /\ rec \in ToolsetRecord
          /\ rec.policy = task[t].rec.policy
          /\ rec.loaded_scopes = task[t].rec.loaded_scopes \cup task[t].grant
          /\ rec.recoverable_scopes =
               IF task[t].op = "activate"
               THEN task[t].rec.recoverable_scopes
                      \cup (task[t].grant \cap task[t].rec.policy.restorable_scopes)
               ELSE task[t].rec.recoverable_scopes
      BY <1>k, <2>2, <2>3, InstalledRecord
    <2>5. /\ store[n] # None
          /\ task[t].rec.policy = store[n].policy
          /\ task[t].rec.loaded_scopes = store[n].loaded_scopes
          /\ task[t].rec.recoverable_scopes = store[n].recoverable_scopes
      BY <2>2 DEF SwapFits, Same, SameScopes
    <2>6. CASE task[t].op = "activate"
      <3>1. PICK s \in store[n].policy.supported_scopes : task[t].grant = {s}
        BY <2>2, <2>6 DEF SwapFits
      <3> QED BY <1>g, <2>1, <2>3, <2>4, <2>5, <2>6, <3>1
    <2>7. CASE task[t].op # "activate"
      <3>1. task[t].grant \in SUBSET store[n].recoverable_scopes
        BY <1>6, <1>k, <2>5, <2>7 DEF Installs, CopyRecorded
      <3> QED BY <1>a, <2>1, <2>3, <2>4, <2>5, <2>7, <3>1
    <2> QED BY <2>6, <2>7
  <1>7. CASE Fails(t)
    <2>1. PICK rec \in ToolsetRecord : Same(rec, task[t].rec) /\ Writes(t, rec)
      BY <1>7 DEF Fails, WritesOnly
    <2>2. SwapFits(task[t])
      BY <1>7, <1>k DEF Fails, CopyFits
    <2>3. store[n] # None /\ SameScopes(rec, store[n])
      BY <2>1, <2>2 DEF SwapFits, Same, SameScopes
    <2> QED BY <1>0, <2>1, <2>3, RegistryRewritten
  <1>8. CASE DropsCopy(t)
    <2>1. PICK rec \in ToolsetRecord : Same(rec, task[t].rec) /\ Writes(t, rec)
      BY <1>8 DEF DropsCopy, WritesOnly
    <2>2. DropFits(task[t])
      BY <1>8, <1>k DEF DropsCopy, CopyFits
    <2>3. store[n] # None /\ \E s \in store[n].loaded_scopes : Less(rec, store[n], s)
      BY <2>1, <2>2 DEF DropFits, Less, Same, SameScopes, SameHashes
    <2> QED BY <1>d, <2>1, <2>3
  <1> QED BY <1>0, <1>1, <1>2, <1>3, <1>4, <1>5, <1>6, <1>7, <1>8 DEF RecordShape

(* What a new process makes of a record is what the registry keeps of it.   *)
LEMMA KeptIs ==
  ASSUME NEW n, NEW rec \in ToolsetRecord
  PROVE  Registered(Rebooted(n, rec)) = Scopes!Kept(Registered(rec))
  <1>1. PICK b : b = Rebooted(n, rec)
    OBVIOUS
  <1>2. /\ b.policy = rec.policy /\ b.loaded_scopes = {}
        /\ b.recoverable_scopes =
             IF rec.recoverable_scopes # {} THEN rec.recoverable_scopes
             ELSE rec.loaded_scopes \cap rec.policy.restorable_scopes
    BY <1>1, RebootedIs
  <1> QED BY <1>1, <1>2 DEF Registered, Scopes!Kept, Scopes!Entry

(* A regained scope is recoverable, so that what is kept is the same.       *)
LEMMA RegainedKept ==
  ASSUME NEW rec \in ToolsetRecord, NEW from \in ToolsetRecord,
         NEW S \in SUBSET from.recoverable_scopes,
         rec.policy = from.policy,
         rec.loaded_scopes = from.loaded_scopes \cup S,
         rec.recoverable_scopes = from.recoverable_scopes
  PROVE  Scopes!Kept(Registered(rec)) = Scopes!Kept(Registered(from))
  BY RegisteredType DEF Scopes!Kept, Scopes!Entry

LEMMA NewRegistered ==
  ASSUME NEW n
  PROVE  Scopes!New(IF Rebooted(n, None) = None THEN None ELSE Registered(Rebooted(n, None)))
  <1>1. Registered(NewRecord(DefaultPolicy)) = Scopes!Entry(DefaultPolicy, {}, {})
    BY DEF Registered, NewRecord, Scopes!Entry
  <1> QED BY <1>1, RebootedNone, DefaultPolicyType DEF Scopes!New

(* A reboot on a registry that says of every namespace found what is kept.  *)
LEMMA RegistryReboots ==
  ASSUME IInv, NEW found, Reboot(found), NEW reg,
         \A n \in Namespace :
           \/ found[n] = None /\ reg[n] = None
           \/ /\ found[n] \in ToolsetRecord /\ reg[n] # None
              /\ Scopes!Kept(Registered(found[n])) = Scopes!Kept(reg[n])
  PROVE  Scopes!Reboot(reg)
  <1>1. Registry' = [n \in Namespace |-> Registry'[n]]
    BY DEF Registry
  <1>2. \A n \in Namespace :
          Registry'[n] = IF Rebooted(n, found[n]) = None THEN None
                         ELSE Registered(Rebooted(n, found[n]))
    <2>1. \A n \in Namespace :
            Registry'[n] = IF store'[n] = None THEN None ELSE Registered(store'[n])
      BY DEF Registry, Registered
    <2> QED BY <2>1 DEF Reboot, Registered
  <1>3. ASSUME NEW n \in Namespace
        PROVE  IF reg[n] # None THEN Registry'[n] = Scopes!Kept(reg[n])
               ELSE Scopes!New(Registry'[n])
    <2>1. CASE found[n] = None /\ reg[n] = None
      BY <1>2, <2>1, NewRegistered
    <2>2. CASE /\ found[n] \in ToolsetRecord /\ reg[n] # None
               /\ Scopes!Kept(Registered(found[n])) = Scopes!Kept(reg[n])
      <3>1. Rebooted(n, found[n]) # None
        BY <2>2, RebootedIs, RecordIsSomething
      <3> QED BY <1>2, <2>2, <3>1, KeptIs
    <2> QED BY <2>1, <2>2
  <1> QED BY <1>1, <1>3 DEF Scopes!Reboot

LEMMA RegistryEntry ==
  ASSUME IInv, NEW n \in Namespace
  PROVE  \/ store[n] = None /\ Registry[n] = None
         \/ /\ store[n] \in ToolsetRecord /\ Registry[n] # None
            /\ Registry[n] = Registered(store[n])
  BY SoundIsRecord, RegistryAt, RegisteredType

(* A request cut after its first write: what it granted is kept as granted, *)
(* what it regained is kept as it was.                                      *)
LEMMA PromisedCut ==
  ASSUME IInv, RecordedInv, LinkInv, NEW t \in Task, Swaps(task[t]), NEW hash \in Inventory,
         Reboot([store EXCEPT ![task[t].ns] = Installed(task[t], hash)])
  PROVE  Scopes!Next
  <1>k. PICK k : k = task[t]
    OBVIOUS
  <1>n. PICK n : n = k.ns
    OBVIOUS
  <1>r. PICK rec : rec = Installed(k, hash)
    OBVIOUS
  <1> DEFINE found == [store EXCEPT ![n] = rec]
  <1>1. n \in Namespace /\ k \in Coroutine /\ k.rec \in ToolsetRecord /\ rec \in ToolsetRecord
    BY <1>k, <1>n, <1>r, CutRecord
  <1>2. /\ rec.policy = k.rec.policy
        /\ rec.loaded_scopes = k.rec.loaded_scopes \cup k.grant
        /\ rec.recoverable_scopes =
             IF k.op = "activate"
             THEN k.rec.recoverable_scopes \cup (k.grant \cap k.rec.policy.restorable_scopes)
             ELSE k.rec.recoverable_scopes
    BY <1>1, <1>r, InstalledRecord
  <1>3. SwapFits(k) /\ CopyRecorded(k) /\ Swaps(k)
    BY <1>k DEF LinkInv, CopyFits, RecordedInv
  <1>4. /\ store[n] # None /\ store[n] \in ToolsetRecord
        /\ k.rec.policy = store[n].policy
        /\ k.rec.loaded_scopes = store[n].loaded_scopes
        /\ k.rec.recoverable_scopes = store[n].recoverable_scopes
    BY <1>1, <1>3, <1>n, SoundIsRecord DEF SwapFits, Same, SameScopes
  <1>5. Registry[n] = Registered(store[n]) /\ Registry[n] # None
    BY <1>1, <1>4, RegistryEntry
  <1>6. found[n] = rec /\ \A m \in Namespace : m # n => found[m] = store[m]
    BY <1>1 DEF IInv, FileInv
  <1>7. Reboot(found)
    BY <1>k, <1>n, <1>r
  <1> HIDE DEF found
  <1>8. CASE k.op = "activate"
    <2>1. PICK s \in store[n].policy.supported_scopes : k.grant = {s}
      BY <1>3, <1>8, <1>n DEF SwapFits
    <2>2. Registered(rec) = Scopes!Granted(Registry[n], s)
      BY <1>1, <1>2, <1>4, <1>5, <1>8, <2>1, GrantedIs
    <2>3. PICK reg : reg = [Registry EXCEPT ![n] = Scopes!Granted(Registry[n], s)]
      OBVIOUS
    <2>4. reg[n] = Registered(rec) /\ \A m \in Namespace : m # n => reg[m] = Registry[m]
      BY <1>1, <2>2, <2>3 DEF Registry
    <2>5. Registered(rec) # None
      BY <1>1, RegisteredType
    <2>6. ASSUME NEW m \in Namespace
          PROVE  \/ found[m] = None /\ reg[m] = None
                 \/ /\ found[m] \in ToolsetRecord /\ reg[m] # None
                    /\ Scopes!Kept(Registered(found[m])) = Scopes!Kept(reg[m])
      <3>1. CASE m = n
        BY <1>1, <1>6, <2>4, <2>5, <3>1
      <3>2. CASE m # n
        BY <1>6, <2>4, <3>2, RegistryEntry
      <3> QED BY <3>1, <3>2
    <2>7. Scopes!Reboot(reg)
      BY <1>7, <2>6, RegistryReboots
    <2>8. s \in Registry[n].policy.supported_scopes /\ s \in Scope
      BY <1>4, <1>5, RegisteredType DEF ToolsetRecord, Policy
    <2>9. Scopes!RebootAfterGrant(n, s)
      BY <1>5, <2>3, <2>7, <2>8 DEF Scopes!RebootAfterGrant
    <2> QED BY <1>1, <2>8, <2>9 DEF Scopes!Next
  <1>9. CASE k.op # "activate"
    <2>1. k.grant \in SUBSET store[n].recoverable_scopes
      BY <1>3, <1>4, <1>9 DEF CopyRecorded
    <2>2. Scopes!Kept(Registered(rec)) = Scopes!Kept(Registry[n])
      BY <1>1, <1>2, <1>4, <1>5, <1>9, <2>1, RegainedKept
    <2>3. PICK reg : reg = Registry
      OBVIOUS
    <2>4. ASSUME NEW m \in Namespace
          PROVE  \/ found[m] = None /\ reg[m] = None
                 \/ /\ found[m] \in ToolsetRecord /\ reg[m] # None
                    /\ Scopes!Kept(Registered(found[m])) = Scopes!Kept(reg[m])
      <3>1. CASE m = n
        BY <1>1, <1>5, <1>6, <2>2, <2>3, <3>1
      <3>2. CASE m # n
        BY <1>6, <2>3, <3>2, RegistryEntry
      <3> QED BY <3>1, <3>2
    <2>5. Scopes!Reboot(reg)
      BY <1>7, <2>4, RegistryReboots
    <2> QED BY <2>3, <2>5 DEF Scopes!Next
  <1> QED BY <1>8, <1>9

LEMMA PromisedReboot ==
  ASSUME IInv, RecordedInv, LinkInv, Reboots
  PROVE  Scopes!Next
  <1>1. PICK found : Reboot(found) /\ Finds(found)
    BY DEF Reboots
  <1>2. ASSUME \A n \in Namespace : Touched(store[n], found[n]) PROVE Scopes!Next
    <2>1. PICK reg : reg = Registry
      OBVIOUS
    <2>2. ASSUME NEW m \in Namespace
          PROVE  \/ found[m] = None /\ reg[m] = None
                 \/ /\ found[m] \in ToolsetRecord /\ reg[m] # None
                    /\ Scopes!Kept(Registered(found[m])) = Scopes!Kept(reg[m])
      <3>1. CASE store[m] = None
        BY <1>2, <2>1, <3>1, RegistryEntry, RecordIsSomething DEF Touched
      <3>2. CASE store[m] # None
        <4>1. found[m] \in ToolsetRecord /\ Registered(found[m]) = Registered(store[m])
          BY <1>2, <3>2, SameRegistered DEF Touched, Same
        <4> QED BY <2>1, <3>2, <4>1, RegistryEntry
      <3> QED BY <3>1, <3>2
    <2>3. Scopes!Reboot(reg)
      BY <1>1, <2>2, RegistryReboots
    <2> QED BY <2>1, <2>3 DEF Scopes!Next
  <1> QED BY <1>1, <1>2, PromisedCut DEF Finds

LEMMA PromisedStep ==
  ASSUME "unregister" \notin Op, IInv, PlaceInv, SectionInv, RecordedInv, LinkInv, [Next]_vars
  PROVE  [Scopes!Next]_Registry
  <1>1. CASE UNCHANGED vars
    BY <1>1 DEF vars, fileVars, Registry, Registered
  <1>2. CASE Rests
    BY <1>2, RegistryTouched DEF Rests
  <1>3. CASE Reboots
    BY <1>3, PromisedReboot
  <1>4. CASE \E t \in Task : RecordShape(t)
    BY <1>4, PromisedShape
  <1> QED BY <1>1, <1>2, <1>3, <1>4, RecordShapes

LEMMA PromisedInit == Init => Scopes!Init
  <1> SUFFICES ASSUME Init PROVE Scopes!Init
    OBVIOUS
  <1>1. Registry = [n \in Namespace |-> Registry[n]]
    BY DEF Registry
  <1>2. ASSUME NEW n \in Namespace PROVE Scopes!New(Registry[n])
    <2>1. store[n] = IF n \in Seeded THEN NewRecord(DefaultPolicy) ELSE None
      BY DEF Init
    <2>2. Registered(NewRecord(DefaultPolicy)) = Scopes!Entry(DefaultPolicy, {}, {})
      BY DEF Registered, NewRecord, Scopes!Entry
    <2> QED BY <2>1, <2>2, RegistryAt, DefaultPolicyType DEF Scopes!New
  <1> QED BY <1>1, <1>2 DEF Scopes!Init

(* The scopes of every record change as ScopeRegistry promises, whatever    *)
(* requests interleave short of unregister_toolsets, and though requests    *)
(* write back copies they read before an await: each step grants, regains   *)
(* or drops what one step of the registry does, or changes no scope.        *)
THEOREM ScopesKeepPromise ==
  ASSUME "unregister" \notin Op
  PROVE  Spec => ScopesAsPromised
  <1>1. RuntimesInv /\ SectionInv /\ RecordedInv /\ LinkInv /\ [Next]_vars
          => [Scopes!Next]_Registry
    BY PromisedStep DEF RuntimesInv
  <1> QED BY <1>1, PromisedInit, LinkInvariant, RecordedInvariant, SectionInvariant,
             RuntimesInvariant, PTL DEF Spec, ScopesAsPromised, Scopes!Spec

-----------------------------------------------------------------------------
(* The tools that are mounted and the contract that is cached.  They differ *)
(* while a swap waits for the end of the old runtime; and when that end     *)
(* failed under a call, until the call has taken the new runtime down too.  *)

SwapCloses(k) == k.pc = "closing" /\ k.op \in SwapOp
WillDisconnect(k) == k.pc = "calling" /\ k.sig \in {"timeout", "error"}
Doomed(n) == \E u \in Task : task[u].ns = n /\ WillDisconnect(task[u])
Aborter(r) == \E u \in Task : task[u].pc = "calling" /\ task[u].rt = r /\ task[u].sig = "timeout"

SwapOK(k) ==
  SwapCloses(k) =>
    /\ Live(k.ns) => runtime[mounted[k.ns]].tools = k.new
    /\ k.sig = None /\ runtime[k.rt].state = "aborting" => Aborter(k.rt)
    /\ k.sig = "error" => ~Live(k.ns) \/ Doomed(k.ns)

MatchOK(n) ==
  Live(n) /\ runtime[mounted[n]].tools # cached[n] =>
    Doomed(n) \/ \E t \in Task : SwapCloses(task[t]) /\ task[t].ns = n

MatchInv == (\A t \in Task : SwapOK(task[t])) /\ \A n \in Namespace : MatchOK(n)

(* A step that mounts and caches nothing.                                   *)
LEMMA MatchKept ==
  ASSUME IInv, MatchInv, cached' = cached,
         \A x \in Runtime : ~UnusedRuntime(x) /\ runtime'[x].state = "up" =>
           runtime[x].state = "up" /\ runtime'[x].tools = runtime[x].tools,
         \A n \in Namespace : mounted'[n] \in {mounted[n], None},
         \A u \in Task : SwapCloses(task'[u]) =>
           /\ SwapCloses(task[u])
           /\ task'[u].ns = task[u].ns /\ task'[u].new = task[u].new
           /\ task'[u].sig = "error" => task[u].sig = "error" \/ Doomed(task[u].ns)
           /\ task'[u].sig = None /\ runtime'[task'[u].rt].state = "aborting"
                => Aborter(task[u].rt)',
         \A u \in Task : SwapCloses(task[u]) =>
           SwapCloses(task'[u]) /\ task'[u].ns = task[u].ns,
         \A u \in Task : WillDisconnect(task[u]) =>
           \/ WillDisconnect(task'[u]) /\ task'[u].ns = task[u].ns
           \/ mounted'[task[u].ns] = None
  PROVE  MatchInv'
  <1>1. ASSUME NEW n \in Namespace, Live(n)'
        PROVE  /\ Live(n) /\ mounted'[n] = mounted[n]
               /\ runtime'[mounted[n]].tools = runtime[mounted[n]].tools
    <2>1. mounted'[n] = mounted[n] /\ mounted[n] \in Runtime /\ runtime'[mounted[n]].state = "up"
      BY <1>1 DEF Live, IInv, TransportInv
    <2>2. ~UnusedRuntime(mounted[n])
      BY DEF UnusedRuntime
    <2> QED BY <1>1, <2>1, <2>2 DEF Live
  <1>2. ASSUME NEW n \in Namespace, Live(n)', Doomed(n) PROVE Doomed(n)'
    BY <1>2 DEF Doomed, Live
  <1>3. ASSUME NEW u \in Task, SwapCloses(task'[u]) PROVE SwapOK(task[u])'
    <2>1. PICK n \in Namespace : n = task[u].ns
      BY <1>3 DEF IInv, TaskInv, TaskOK, SwapCloses
    <2>2. SwapOK(task[u])
      BY DEF MatchInv
    <2>3. Live(n)' => runtime'[mounted'[n]].tools = task'[u].new
      BY <1>1, <1>3, <2>1, <2>2 DEF SwapOK
    <2>4. task'[u].sig = "error" => ~Live(n)' \/ Doomed(n)'
      BY <1>1, <1>2, <1>3, <2>1, <2>2 DEF SwapOK
    <2>5. (Live(n) <=> Live(task[u].ns))' /\ (Doomed(n) <=> Doomed(task[u].ns))'
      BY <1>3, <2>1
    <2> QED BY <1>3, <2>1, <2>3, <2>4, <2>5 DEF SwapOK
  <1>4. ASSUME NEW n \in Namespace, Live(n)', runtime'[mounted'[n]].tools # cached'[n]
        PROVE  Doomed(n)' \/ \E t \in Task : SwapCloses(task'[t]) /\ task'[t].ns = n
    <2>1. Doomed(n) \/ \E t \in Task : SwapCloses(task[t]) /\ task[t].ns = n
      BY <1>1, <1>4 DEF MatchInv, MatchOK
    <2> QED BY <1>2, <1>4, <2>1
  <1> QED BY <1>3, <1>4 DEF MatchInv, SwapOK, MatchOK

(* The steps of a request that are no part of a swap.                       *)
QuietShape(t, k) ==
  \/ Begins(t, k) \/ Opens(t, k) \/ Unmounts(t, k) \/ Queues(t, k) \/ CountsOut(t, k)
  \/ Expires(t, k)
  \/ Returns(t, k) /\ ~Swaps(task[t])
  \/ Finishes(t, k) /\ (WillDisconnect(task[t]) => mounted[task[t].ns] = None)

(* Only a call that timed out aborts a runtime that a swap closes.          *)
LEMMA SwapAborted ==
  ASSUME IInv, PlaceInv, OwnInv, HomeInv, SectionInv, MatchInv,
         NEW t \in Task, NEW k \in Coroutine, Turn(t, k), QuietShape(t, k),
         NEW u \in Task, SwapCloses(task[u]), task[u].sig = None, u = t => ~Expires(t, k),
         NEW x \in Runtime, task[u].rt = x, runtime'[x].state = "aborting"
  PROVE  Aborter(x)'
  <1>t. task'[t] = k /\ \A v \in Task : v # t => task'[v] = task[v]
    BY TurnIs
  <1>u. ~UnusedRuntime(x) /\ task[u].ns \in Namespace
    BY DEF IInv, TaskInv, TaskOK, SwapCloses, UnusedRuntime
  <1>1. CASE runtime[x].state = "aborting"
    <2>1. PICK v \in Task : task[v].pc = "calling" /\ task[v].rt = x /\ task[v].sig = "timeout"
      BY <1>1 DEF MatchInv, SwapOK, Aborter
    <2>2. ~Broken(v) /\ ~Answered(v) /\ task[v].op = "call"
      BY <1>1, <2>1, DownIs DEF Broken, Answered, IInv, TaskInv, TaskOK
    <2>3. v # t
      BY <2>1, <2>2, NoneIsNothing
         DEF QuietShape, Begins, Opens, Unmounts, Queues, CountsOut, Expires, Returns, MayReturn,
             Finishes, Closed, CloseRaised
    <2> QED BY <1>t, <2>1, <2>3 DEF Aborter
  <1>2. CASE Expires(t, k) /\ x = task[t].rt
    <2>1. t # u /\ Uses(task[t]) /\ Uses(task[u])
      BY <1>2 DEF Expires, Uses, SwapCloses
    <2>2. task[t].ns = task[u].ns /\ task[t].pc # "closing"
      BY <1>2, <2>1 DEF HomeInv, SameHome, SwapCloses
    <2>3. task[t].pc # "probing"
      <3>1. HasLock(u)
        BY DEF SectionInv, LinesInv, InSection, SwapCloses, SwapOp
      <3>2. task[t].pc = "probing" => HasLock(t)
        BY DEF SectionInv, LinesInv, InSection
      <3> QED BY <2>1, <2>2, <3>1, <3>2, Exclusion DEF MutualExclusion
    <2>4. k.pc = "calling" /\ k.rt = x /\ k.sig = "timeout"
      BY <1>2, <2>2, <2>3 DEF Expires, Signalled
    <2> QED BY <1>t, <2>4 DEF Aborter
  <1>3. Shape(t, k)
    BY DEF Shape, QuietShape
  <1> QED BY <1>1, <1>2, <1>3, <1>u, KnownMoves

LEMMA MatchQuiet ==
  ASSUME "unregister" \notin Op, IInv, PlaceInv, OwnInv, HomeInv, SectionInv, MatchInv,
         NEW t \in Task, NEW k \in Coroutine, Turn(t, k), QuietShape(t, k), cached' = cached
  PROVE  MatchInv'
  <1>t. task'[t] = k /\ \A v \in Task : v # t => task'[v] = task[v]
    BY TurnIs
  <1>0. TaskOK(task[t]) /\ PlaceOK(task[t])
    BY DEF IInv, TaskInv, PlaceInv
  <1>s. Shape(t, k)
    BY DEF Shape, QuietShape
  <1>1. \A x \in Runtime : ~UnusedRuntime(x) /\ runtime'[x].state = "up" =>
           runtime[x].state = "up" /\ runtime'[x].tools = runtime[x].tools
    BY <1>s, KnownMoves
  <1>2. \A n \in Namespace : mounted'[n] \in {mounted[n], None}
    BY DEF QuietShape, Begins, Opens, Unmounts, Queues, CountsOut, Expires, Returns, Finishes,
           transportVars, IInv, TransportInv
  <1>3. SwapCloses(k) \/ SwapCloses(task[t]) =>
          /\ Expires(t, k) /\ k.sig = "timeout" /\ k.ns = task[t].ns /\ k.new = task[t].new
          /\ SwapCloses(k) /\ SwapCloses(task[t])
    <2>1. CASE Expires(t, k)
      BY <2>1 DEF Expires, Signalled, SameRequest, SwapCloses
    <2>2. CASE Unmounts(t, k)
      BY <1>0, <2>2 DEF Unmounts, SameRequest, SwapCloses, SwapOp, PlaceOK
    <2>3. CASE Returns(t, k) /\ ~Swaps(task[t])
      BY <2>3 DEF Returns, Idle, SwapCloses, Swaps
    <2>4. CASE Finishes(t, k)
      BY <2>4 DEF Finishes, SwapCloses, SwapOp
    <2>5. CASE Begins(t, k) \/ Opens(t, k) \/ CountsOut(t, k) \/ Queues(t, k)
      BY <2>5 DEF Begins, Opens, Queues, CountsOut, SwapCloses, Idle
    <2> QED BY <2>1, <2>2, <2>3, <2>4, <2>5 DEF QuietShape
  <1>4. WillDisconnect(task[t]) => mounted'[task[t].ns] = None
    <2> SUFFICES ASSUME WillDisconnect(task[t]) PROVE mounted'[task[t].ns] = None
      OBVIOUS
    <2>1. task[t].pc = "calling" /\ task[t].sig \in {"timeout", "error"} /\ task[t].ns \in Namespace
      BY <1>0 DEF WillDisconnect, TaskOK
    <2>2. task[t].op = "call" /\ task[t].sig # None
      BY <1>0, <2>1, NoneIsNothing DEF TaskOK
    <2>3. CASE Unmounts(t, k)
      BY <2>1, <2>3 DEF Unmounts, IInv, TransportInv
    <2>4. CASE Finishes(t, k) /\ mounted[task[t].ns] = None
      BY <2>4 DEF Finishes, transportVars
    <2> QED BY <2>1, <2>2, <2>3, <2>4
            DEF QuietShape, Begins, Opens, Queues, CountsOut, Expires, Returns, MayReturn,
                Closed, CloseRaised
  <1>5. ASSUME NEW u \in Task, SwapCloses(task'[u])
        PROVE  /\ SwapCloses(task[u])
               /\ task'[u].ns = task[u].ns /\ task'[u].new = task[u].new
               /\ task'[u].sig = "error" => task[u].sig = "error"
               /\ task'[u].sig = None /\ runtime'[task'[u].rt].state = "aborting"
                    => Aborter(task[u].rt)'
    <2>1. CASE u = t
      BY <1>t, <1>3, <1>5, <2>1, NoneIsNothing
    <2>2. CASE u # t
      <3>1. PICK x \in Runtime : x = task[u].rt
        BY <1>t, <1>5, <2>2 DEF IInv, TaskInv, TaskOK, SwapCloses
      <3>2. task'[u] = task[u] /\ SwapCloses(task[u])
        BY <1>t, <1>5, <2>2
      <3>3. task[u].sig = None /\ runtime'[x].state = "aborting" => Aborter(x)'
        BY <2>2, <3>1, <3>2, SwapAborted
      <3>4. (Aborter(x) <=> Aborter(task[u].rt))'
        BY <3>1, <3>2
      <3> QED BY <3>1, <3>2, <3>3, <3>4
    <2> QED BY <2>1, <2>2
  <1>6. \A u \in Task : SwapCloses(task[u]) =>
           SwapCloses(task'[u]) /\ task'[u].ns = task[u].ns
    BY <1>t, <1>3
  <1>7. \A u \in Task : WillDisconnect(task[u]) =>
           \/ WillDisconnect(task'[u]) /\ task'[u].ns = task[u].ns
           \/ mounted'[task[u].ns] = None
    BY <1>t, <1>4
  <1> QED BY <1>1, <1>2, <1>5, <1>6, <1>7, MatchKept

(* An actor answers a command.                                              *)
LEMMA MatchAnswer ==
  ASSUME IInv, QueueInv, HomeInv, MatchInv, NEW r \in Runtime, NEW t \in Task,
         NEW k \in Coroutine, Turn(t, k), Answers(r, t, k), cached' = cached
  PROVE  MatchInv'
  <1>t. task'[t] = k /\ \A v \in Task : v # t => task'[v] = task[v]
    BY TurnIs
  <1>0. /\ runtime[r].state \in {"up", "closing"} /\ mounted' = mounted
        /\ k.ns = task[t].ns /\ k.op = task[t].op /\ k.pc = task[t].pc
        /\ k.pc = "closing" => k.new = task[t].new /\ k.sig = "ok"
        /\ k.sig \in {"ok", "error"}
    BY DEF Answers, Signalled, SameRequest
  <1>1. t \in Members(runtime[r].queue)
    BY TailQueue, QueueType DEF Answers
  <1>2. task[t].rt = r /\ task[t].sig = None
    <2>1. /\ task[t].rt = r /\ Uses(task[t])
          /\ task[t].sig = None \/ GaveUp(task[t])
      BY <1>1 DEF Answers, QueueInv, QueuedAt, Uses, GaveUp
    <2> QED BY <1>0, <2>1 DEF HomeInv, TimedOut
  <1>3. \A x \in Runtime :
           /\ runtime'[x].state = "up" => runtime[x].state = "up"
           /\ runtime'[x].state = "up" => runtime'[x].tools = runtime[x].tools
           /\ runtime'[x].state = "aborting" => runtime[x].state = "aborting"
    <2>0. runtime \in [Runtime -> RuntimeState]
      BY DEF IInv, TransportInv
    <2>1. CASE runtime' = [runtime EXCEPT ![r] = Down]
      <3>1. \A x \in Runtime : runtime'[x] = Down \/ runtime'[x] = runtime[x]
        BY <2>0, <2>1
      <3> QED BY <3>1, DownIs
    <2>2. CASE runtime' = [runtime EXCEPT ![r].queue = Tail(@)]
      <3>1. \A x \in Runtime : /\ runtime'[x].state = runtime[x].state
                               /\ runtime'[x].tools = runtime[x].tools
        BY <2>0, <2>2 DEF RuntimeState
      <3> QED BY <3>1
    <2> QED BY <2>1, <2>2 DEF Answers
  <1>4. \A n \in Namespace : mounted'[n] \in {mounted[n], None}
    BY <1>0
  <1>5. \A v \in Task : WillDisconnect(task[v]) => v # t
    BY <1>2, NoneIsNothing DEF WillDisconnect
  <1>6. ASSUME NEW u \in Task, SwapCloses(task'[u])
        PROVE  /\ SwapCloses(task[u])
               /\ task'[u].ns = task[u].ns /\ task'[u].new = task[u].new
               /\ task'[u].sig = "error" => task[u].sig = "error"
               /\ task'[u].sig = None /\ runtime'[task'[u].rt].state = "aborting"
                    => Aborter(task[u].rt)'
    <2>1. CASE u = t
      BY <1>t, <1>0, <1>6, <2>1, NoneIsNothing DEF SwapCloses
    <2>2. CASE u # t
      <3>1. task'[u] = task[u] /\ SwapCloses(task[u])
        BY <1>t, <1>6, <2>2
      <3>2. PICK x \in Runtime : x = task[u].rt
        BY <3>1 DEF IInv, TaskInv, TaskOK, SwapCloses
      <3>3. ASSUME task[u].sig = None, runtime'[x].state = "aborting" PROVE Aborter(x)'
        <4>1. PICK v \in Task :
                task[v].pc = "calling" /\ task[v].rt = x /\ task[v].sig = "timeout"
          BY <1>3, <3>1, <3>2, <3>3 DEF MatchInv, SwapOK, Aborter
        <4>2. v # t
          BY <1>2, <4>1, NoneIsNothing
        <4> QED BY <1>t, <4>1, <4>2 DEF Aborter
      <3>4. (Aborter(x) <=> Aborter(task[u].rt))'
        BY <3>1, <3>2
      <3> QED BY <3>1, <3>2, <3>3, <3>4
    <2> QED BY <2>1, <2>2
  <1>7. \A u \in Task : SwapCloses(task[u]) => SwapCloses(task'[u]) /\ task'[u].ns = task[u].ns
    BY <1>t, <1>0 DEF SwapCloses
  <1>8. \A v \in Task : WillDisconnect(task[v]) =>
           WillDisconnect(task'[v]) /\ task'[v].ns = task[v].ns
    BY <1>t, <1>5
  <1> QED BY <1>3, <1>4, <1>6, <1>7, <1>8, MatchKept

(* A cancelled actor ends: whoever closed it hears of it.                   *)
LEMMA MatchUnwind ==
  ASSUME IInv, QueueInv, HomeInv, MatchInv, NEW r \in Runtime,
         runtime[r].state = "aborting", Ends(r), cached' = cached
  PROVE  MatchInv'
  <1>1. /\ mounted' = mounted /\ runtime'[r].state = "down"
        /\ \A x \in Runtime : x # r => runtime'[x] = runtime[x]
    BY DownIs DEF Ends, IInv, TransportInv
  <1>2. \A u \in Task :
           \/ task'[u] = task[u]
           \/ /\ task[u].rt = r /\ task[u].sig = None
              /\ Signalled(task'[u], task[u], "error")
    <2>1. \A u \in Task : task[u].sig = None => task[u].pc # "gone"
      BY NoneIsNothing DEF IInv, TaskInv, TaskOK
    <2> QED BY <2>1 DEF Ends, QueueInv, QueuedAt
  <1>3. \A u \in Task : task[u].sig # None => task'[u] = task[u]
    BY <1>2
  <1>4. ASSUME NEW u \in Task, SwapCloses(task'[u])
        PROVE  /\ SwapCloses(task[u])
               /\ task'[u].ns = task[u].ns /\ task'[u].new = task[u].new
               /\ task'[u].sig = "error" => task[u].sig = "error" \/ Doomed(task[u].ns)
               /\ task'[u].sig = None /\ runtime'[task'[u].rt].state = "aborting"
                    => Aborter(task[u].rt)'
    <2>1. CASE task'[u] = task[u]
      <3>2. PICK x \in Runtime : x = task[u].rt
        BY <1>4, <2>1 DEF IInv, TaskInv, TaskOK, SwapCloses
      <3>3. ASSUME task[u].sig = None, runtime'[x].state = "aborting" PROVE Aborter(x)'
        <4>1. PICK v \in Task :
                task[v].pc = "calling" /\ task[v].rt = x /\ task[v].sig = "timeout"
          BY <1>1, <1>4, <2>1, <3>2, <3>3 DEF MatchInv, SwapOK, Aborter
        <4>2. task'[v] = task[v]
          BY <1>3, <4>1, NoneIsNothing
        <4> QED BY <4>1, <4>2 DEF Aborter
      <3>4. (Aborter(x) <=> Aborter(task[u].rt))'
        BY <2>1, <3>2
      <3> QED BY <1>4, <2>1, <3>2, <3>3, <3>4
    <2>2. CASE /\ task[u].rt = r /\ task[u].sig = None
               /\ Signalled(task'[u], task[u], "error")
      <3>1. /\ SwapCloses(task[u]) /\ task'[u].sig = "error"
            /\ task'[u].ns = task[u].ns /\ task'[u].new = task[u].new
        BY <1>4, <2>2 DEF Signalled, SameRequest, SwapCloses
      <3>2. PICK v \in Task : task[v].pc = "calling" /\ task[v].rt = r /\ task[v].sig = "timeout"
        BY <2>2, <3>1 DEF MatchInv, SwapOK, Aborter
      <3>3. task[v].ns = task[u].ns
        BY <2>2, <3>1, <3>2 DEF HomeInv, SameHome, Uses, SwapCloses
      <3> QED BY <3>1, <3>2, <3>3, NoneIsNothing DEF Doomed, WillDisconnect
    <2> QED BY <1>2, <2>1, <2>2
  <1>5. \A x \in Runtime : runtime'[x].state = "up" =>
           runtime[x].state = "up" /\ runtime'[x].tools = runtime[x].tools
    BY <1>1
  <1>6. \A n \in Namespace : mounted'[n] \in {mounted[n], None}
    BY <1>1
  <1>7. \A u \in Task : SwapCloses(task[u]) => SwapCloses(task'[u]) /\ task'[u].ns = task[u].ns
    BY <1>2 DEF Signalled, SameRequest, SwapCloses
  <1>8. \A v \in Task : WillDisconnect(task[v]) =>
           WillDisconnect(task'[v]) /\ task'[v].ns = task[v].ns
    BY <1>3, NoneIsNothing DEF WillDisconnect
  <1> QED BY <1>4, <1>5, <1>6, <1>7, <1>8, MatchKept

(* The end of a swap that succeeded or failed, or an open that failed.      *)
LEMMA MatchSwapped ==
  ASSUME IInv, MatchInv, NEW t \in Task,
         SwapCloses(task[t]) \/ task[t].pc = "opening",
         task'[t] = Idle, \A v \in Task : v # t => task'[v] = task[v],
         UNCHANGED <<mounted, runtime>>,
         \/ /\ SwapCloses(task[t])
            /\ cached' = [cached EXCEPT ![task[t].ns] = task[t].new]
         \/ /\ cached' = cached
            /\ SwapCloses(task[t]) => task[t].sig = "error"
  PROVE  MatchInv'
  <1>0. task[t].ns \in Namespace /\ SwapOK(task[t]) /\ ~WillDisconnect(task[t])
    BY DEF IInv, TaskInv, TaskOK, SwapCloses, WillDisconnect, MatchInv
  <1>1. \A n \in Namespace : (Live(n)' <=> Live(n)) /\ (Doomed(n) => Doomed(n)')
    BY <1>0 DEF Live, Doomed
  <1>2. ASSUME NEW u \in Task, SwapCloses(task'[u]) PROVE SwapOK(task[u])'
    <2>1. u # t /\ task'[u] = task[u] /\ SwapOK(task[u])
      BY <1>2 DEF Idle, SwapCloses, MatchInv
    <2>2. PICK n \in Namespace, x \in Runtime : n = task[u].ns /\ x = task[u].rt
      BY <1>2, <2>1 DEF IInv, TaskInv, TaskOK, SwapCloses
    <2>3. Aborter(x) => Aborter(x)'
      <3>1. task[t].pc # "calling"
        BY DEF SwapCloses
      <3> QED BY <3>1 DEF Aborter
    <2>4. /\ (Live(n) <=> Live(task[u].ns))' /\ (Doomed(n) <=> Doomed(task[u].ns))'
          /\ (Aborter(x) <=> Aborter(task[u].rt))'
      BY <2>1, <2>2
    <2> QED BY <1>1, <1>2, <2>1, <2>2, <2>3, <2>4 DEF SwapOK
  <1>3. ASSUME NEW n \in Namespace, Live(n)', runtime'[mounted'[n]].tools # cached'[n]
        PROVE  Doomed(n)' \/ \E u \in Task : SwapCloses(task'[u]) /\ task'[u].ns = n
    <2>1. CASE n # task[t].ns
      <3>1. cached'[n] = cached[n]
        BY <1>0, <2>1 DEF IInv, FileInv
      <3>2. Doomed(n) \/ \E u \in Task : SwapCloses(task[u]) /\ task[u].ns = n
        BY <1>1, <1>3, <3>1 DEF MatchInv, MatchOK
      <3> QED BY <1>1, <2>1, <3>2
    <2>2. CASE n = task[t].ns
      <3>1. CASE SwapCloses(task[t]) /\ cached' = [cached EXCEPT ![task[t].ns] = task[t].new]
        <4>1. cached'[n] = task[t].new
          BY <2>2, <3>1 DEF IInv, FileInv
        <4> QED BY <1>0, <1>1, <1>3, <2>2, <3>1, <4>1 DEF SwapOK
      <3>2. CASE SwapCloses(task[t]) /\ task[t].sig = "error"
        BY <1>0, <1>1, <1>3, <2>2, <3>2 DEF SwapOK
      <3>3. CASE ~SwapCloses(task[t]) /\ cached' = cached
        <4>1. Doomed(n) \/ \E u \in Task : SwapCloses(task[u]) /\ task[u].ns = n
          BY <1>1, <1>3, <3>3 DEF MatchInv, MatchOK
        <4> QED BY <1>1, <3>3, <4>1
      <3> QED BY <3>1, <3>2, <3>3
    <2> QED BY <2>1, <2>2
  <1> QED BY <1>2, <1>3 DEF MatchInv, SwapOK, MatchOK

(* A new runtime is mounted; what it replaces, if anything, gets closed.    *)
LEMMA MatchOpened ==
  ASSUME IInv, PlaceInv, OwnInv, SectionInv, MatchInv, NEW t \in Task, Opened(t)
  PROVE  MatchInv'
  <1> DEFINE n == task[t].ns
  <1>0. /\ task[t] \in Coroutine /\ n \in Namespace /\ task[t].pc = "opening"
        /\ task[t].op \in SwapOp
    BY DEF Opened, IInv, TaskInv, TaskOK, PlaceInv, PlaceOK
  <1>r. PICK r \in Runtime, i \in Inventory :
          /\ NewRuntime(r)
          /\ mounted' = [mounted EXCEPT ![n] = r]
          /\ \/ /\ mounted[n] = None
                /\ runtime' = [runtime EXCEPT ![r] = Fresh(i)]
                /\ Install(t, i)
             \/ /\ mounted[n] # None
                /\ runtime' = Closing([runtime EXCEPT ![r] = Fresh(i)], mounted[n], t)
                /\ task' = [task EXCEPT ![t] =
                              [@ EXCEPT !.pc = "closing", !.new = i, !.rt = mounted[n],
                                        !.sig = CloseSignal(mounted[n])]]
                /\ UNCHANGED <<fileVars, lockVars, inFlight, boot>>
    BY DEF Opened
  <1> DEFINE started == [runtime EXCEPT ![r] = Fresh(i)]
  <1>s. /\ started \in [Runtime -> RuntimeState]
        /\ started[r].state = "up" /\ started[r].tools = i
        /\ \A x \in Runtime : x # r => started[x] = runtime[x]
        /\ \A m \in Namespace : mounted[m] # r
        /\ \A u \in Task : task[u].rt # r
    BY <1>r, NewRuntimeIs DEF Fresh
  <1>k. /\ mounted \in [Namespace -> Runtime \cup {None}]
        /\ cached \in [Namespace -> Inventory \cup {None}]
    BY DEF IInv, TransportInv, FileInv
  <1>m. mounted'[n] = r /\ \A m \in Namespace : m # n => mounted'[m] = mounted[m]
    BY <1>0, <1>k, <1>r
  <1>x. \A x \in Runtime :
          /\ runtime'[x].tools = started[x].tools
          /\ x # mounted[n] => runtime'[x].state = started[x].state
          /\ runtime'[x].state = "aborting" => started[x].state = "aborting"
    <2>1. CASE runtime' = started
      BY <2>1
    <2>2. CASE mounted[n] # None /\ runtime' = Closing(started, mounted[n], t)
      <3>1. mounted[n] \in Runtime
        BY <1>0, <1>k, <2>2
      <3> HIDE DEF started
      <3> QED BY <1>s, <2>2, <3>1, ClosingQueue
    <2> QED BY <1>r, <2>1, <2>2
  <1> HIDE DEF started
  <1>2. /\ \A u \in Task : u # t => task'[u] = task[u]
        /\ \/ /\ task'[t] = Idle /\ cached'[n] = i
              /\ \A m \in Namespace : m # n => cached'[m] = cached[m]
           \/ /\ SwapCloses(task'[t]) /\ cached' = cached /\ task'[t].ns = n
              /\ task'[t].new = i /\ task'[t].rt = mounted[n] /\ mounted[n] # None
              /\ task'[t].sig = CloseSignal(mounted[n])
              /\ runtime' = Closing(started, mounted[n], t)
    <2>1. CASE mounted[n] = None /\ Install(t, i)
      <3>1. /\ cached' = [cached EXCEPT ![n] = i] /\ task' = [task EXCEPT ![t] = Idle]
        BY <2>1 DEF Install, ReplaceSnapshot, Return
      <3> QED BY <1>0, <1>k, <3>1 DEF IInv, TaskInv
    <2>2. CASE /\ mounted[n] # None
               /\ runtime' = Closing(started, mounted[n], t)
               /\ task' = [task EXCEPT ![t] =
                             [@ EXCEPT !.pc = "closing", !.new = i, !.rt = mounted[n],
                                       !.sig = CloseSignal(mounted[n])]]
               /\ UNCHANGED fileVars
      <3>1. task'[t] = [task[t] EXCEPT !.pc = "closing", !.new = i, !.rt = mounted[n],
                                       !.sig = CloseSignal(mounted[n])]
            /\ \A u \in Task : u # t => task'[u] = task[u]
        BY <2>2 DEF IInv, TaskInv
      <3>2. /\ task'[t].pc = "closing" /\ task'[t].op = task[t].op /\ task'[t].ns = n
            /\ task'[t].new = i /\ task'[t].rt = mounted[n]
            /\ task'[t].sig = CloseSignal(mounted[n])
        BY <1>0, <3>1 DEF Coroutine
      <3> QED BY <1>0, <2>2, <3>1, <3>2 DEF SwapCloses, fileVars
    <2> QED BY <1>r, <2>1, <2>2 DEF started
  <1>3. ASSUME NEW m \in Namespace, m # n
        PROVE  /\ Live(m)' <=> Live(m)
               /\ Live(m)' => runtime'[mounted'[m]].tools = runtime[mounted[m]].tools
    <2>1. mounted'[m] = mounted[m] /\ mounted[m] \in Runtime \cup {None} /\ mounted[m] # r
      BY <1>3, <1>m, <1>s, <1>k
    <2>2. mounted[m] # None => mounted[m] # mounted[n]
      BY <1>0, <1>3 DEF OwnInv, MountedApart
    <2> QED BY <2>1, <2>2, <1>s, <1>x DEF Live
  <1>4. /\ \A m : Doomed(m) => Doomed(m)'
        /\ \A x : Aborter(x) => Aborter(x)'
    BY <1>0, <1>2 DEF Doomed, Aborter, WillDisconnect
  <1>5. runtime'[r].tools = i
    BY <1>s, <1>x
  <1>6. ASSUME NEW u \in Task, SwapCloses(task'[u]) PROVE SwapOK(task[u])'
    <2>1. CASE u = t
      <3>1. SwapCloses(task'[t]) /\ task'[t].ns = n /\ task'[t].new = i
            /\ task'[t].rt = mounted[n] /\ mounted[n] # None
            /\ task'[t].sig = CloseSignal(mounted[n])
            /\ runtime' = Closing(started, mounted[n], t)
        BY <1>2, <1>6, <2>1 DEF Idle, SwapCloses
      <3>2. runtime'[mounted'[n]].tools = task'[t].new
        BY <1>5, <1>m, <3>1
      <3>3. task'[t].sig # "error"
        BY <3>1, NoneIsNothing DEF CloseSignal
      <3>4. mounted[n] \in Runtime /\ mounted[n] # r
        BY <1>0, <1>k, <1>s, <3>1
      <3>5. task'[t].sig = None => runtime'[mounted[n]].state # "aborting"
        <4>1. task'[t].sig = None => started[mounted[n]].state = "up"
          BY <1>s, <3>1, <3>4, NoneIsNothing DEF CloseSignal
        <4> QED BY <1>s, <3>1, <3>4, <4>1, ClosingQueue
      <3>6. (Live(n) <=> Live(task[t].ns))'
        BY <3>1
      <3> QED BY <2>1, <3>1, <3>2, <3>3, <3>5 DEF SwapOK
    <2>2. CASE u # t
      <3>1. task'[u] = task[u] /\ SwapOK(task[u]) /\ SwapCloses(task[u])
        BY <1>2, <1>6, <2>2 DEF MatchInv
      <3>2. PICK m \in Namespace, x \in Runtime : m = task[u].ns /\ x = task[u].rt
        BY <3>1 DEF IInv, TaskInv, TaskOK, SwapCloses
      <3>3. m # n
        <4>1. HasLock(t) /\ HasLock(u)
          BY <1>0, <3>1 DEF SectionInv, LinesInv, InSection, SwapCloses, SwapOp
        <4> QED BY <2>2, <3>2, <4>1, Exclusion DEF MutualExclusion
      <3>4. runtime'[x].state = "aborting" => runtime[x].state = "aborting"
        BY <1>s, <1>x, <3>2
      <3>5. /\ (Live(m) <=> Live(task[u].ns))' /\ (Doomed(m) <=> Doomed(task[u].ns))'
            /\ (Aborter(x) <=> Aborter(task[u].rt))'
        BY <3>1, <3>2
      <3>6. /\ Live(m)' => runtime'[mounted'[m]].tools = task'[u].new
            /\ task'[u].sig = None /\ runtime'[x].state = "aborting" => Aborter(x)'
            /\ task'[u].sig = "error" => ~Live(m)' \/ Doomed(m)'
        BY <1>3, <1>4, <3>1, <3>2, <3>3, <3>4 DEF SwapOK
      <3> QED BY <3>1, <3>2, <3>5, <3>6 DEF SwapOK
    <2> QED BY <2>1, <2>2
  <1>7. ASSUME NEW m \in Namespace, Live(m)', runtime'[mounted'[m]].tools # cached'[m]
        PROVE  Doomed(m)' \/ \E u \in Task : SwapCloses(task'[u]) /\ task'[u].ns = m
    <2>1. CASE m = n
      BY <1>2, <1>5, <1>7, <1>m, <2>1
    <2>2. CASE m # n
      <3>1. Doomed(m) \/ \E u \in Task : SwapCloses(task[u]) /\ task[u].ns = m
        BY <1>2, <1>3, <1>7, <2>2 DEF MatchInv, MatchOK
      <3>2. ~SwapCloses(task[t])
        BY <1>0 DEF SwapCloses
      <3> QED BY <1>2, <1>4, <3>1, <3>2
    <2> QED BY <2>1, <2>2
  <1> QED BY <1>6, <1>7 DEF MatchInv, SwapOK, MatchOK

(* What a request does under the lock, but for the end of a swap.           *)
LEMMA SectionQuiet ==
  ASSUME "unregister" \notin Op, IInv, PlaceInv, NEW t \in Task, Section(t),
         ~Opened(t), ~SwapClosed(t), ~OpenFailed(t)
  PROVE  cached' = cached /\ \E k \in Coroutine : Turn(t, k) /\ QuietShape(t, k)
  <1>0. task[t].op # "unregister" /\ (task[t].pc = "opening" => task[t].op \in SwapOp)
    BY NoOperation, NoneIsNothing DEF PlaceInv, PlaceOK, Operation
  <1>1. ~Unregister(t) /\ ~UnregisterClosed(t)
    BY <1>0 DEF Unregister, Entering, UnregisterClosed
  <1>2. cached' = cached /\ ~Swaps(task[t])
    <2>1. ASSUME \/ Refuse(t) \/ Register(t) \/ ActivateReuse(t) \/ RestoreSkip(t)
                 \/ RestoreReuse(t) \/ HealthMissing(t) \/ ClearStale(t) \/ MarkStale(t)
                 \/ Activate(t) \/ Restore(t) \/ Refresh(t) \/ Deactivate(t) \/ HealthProbe(t)
          PROVE  cached' = cached /\ task[t].pc = "entering"
      BY <2>1 DEF Refuse, Register, ActivateReuse, RestoreSkip, RestoreReuse, HealthMissing,
         ClearStale, MarkStale, Activate, Restore, Refresh, Deactivate, HealthProbe, Open,
         Entering, Restoring, fileVars
    <2>2. ASSUME \/ DeactivateClosed(t) \/ DisconnectRaised(t) \/ HealthProbed(t)
                 \/ HealthFailed(t) \/ HealthClosed(t)
          PROVE  cached' = cached /\ ~Swaps(task[t])
      BY <2>2 DEF DeactivateClosed, DisconnectRaised, HealthProbed, HealthFailed, HealthClosed,
         Closed, CloseRaised, fileVars, Swaps, SwapOp
    <2> QED BY <1>1, <2>1, <2>2 DEF Section, Swaps
  <1>3. PICK k \in Coroutine :
           /\ Turn(t, k)
           /\ \/ Returns(t, k) \/ Opens(t, k) \/ Mounts(t, k) \/ Replaces(t, k)
              \/ Unmounts(t, k) \/ Queues(t, k)
    BY SectionShape
  <1>4. QuietShape(t, k)
    BY <1>2, <1>3 DEF QuietShape, Swaps, Mounts, Replaces
  <1> QED BY <1>2, <1>3, <1>4

(* A call that is to take the mounted runtime down does not finish first.   *)
LEMMA CallQuiet ==
  ASSUME IInv, PlaceInv, NEW t \in Task, Call(t)
  PROVE  cached' = cached /\ \E k \in Coroutine : Turn(t, k) /\ QuietShape(t, k)
  <1>1. cached' = cached
    BY DEF Call, CallSend, CallAnswered, CallFailed, CallClosed, CallFinish, fileVars
  <1>2. PICK k \in Coroutine :
          /\ Turn(t, k)
          /\ Queues(t, k) \/ Finishes(t, k) \/ Unmounts(t, k) \/ CountsOut(t, k)
    BY CallShape
  <1>3. CASE WillDisconnect(task[t]) /\ mounted[task[t].ns] # None
    <2>1. CallFailed(t)
      BY <1>3, NoneIsNothing DEF Call, CallSend, CallAnswered, CallClosed, CallFinish, Closed,
         CloseRaised, Answered, Entering, WillDisconnect
    <2>2. Disconnect(t, task[t].ns, task[t])
      BY <1>3, <2>1 DEF CallFailed
    <2>3. task'[t].pc = "closing"
      BY <2>2 DEF Disconnect, IInv, TaskInv, Coroutine
    <2>4. k.pc = "closing"
      BY <1>2, <2>3, TurnIs
    <2> QED BY <1>1, <1>2, <2>4 DEF QuietShape, Finishes
  <1>4. CASE ~WillDisconnect(task[t]) \/ mounted[task[t].ns] = None
    BY <1>1, <1>2, <1>4 DEF QuietShape
  <1> QED BY <1>3, <1>4

LEMMA MatchStep ==
  ASSUME "unregister" \notin Op, "death" \notin Fault,
         IInv, PlaceInv, QueueInv, OwnInv, HomeInv, SectionInv, MatchInv, Next
  PROVE  MatchInv'
  <1>1. ASSUME NEW r \in Runtime, Serve(r) PROVE MatchInv'
    <2>1. PICK t \in Task, k \in Coroutine : Turn(t, k) /\ Answers(r, t, k)
      BY <1>1, ServeShape
    <2>2. cached' = cached
      BY <1>1 DEF Serve, fileVars
    <2> QED BY <2>1, <2>2, MatchAnswer
  <1>2. ASSUME NEW r \in Runtime, Unwind(r) PROVE MatchInv'
    <2>1. Ends(r) /\ runtime[r].state = "aborting" /\ cached' = cached
      BY <1>2, EndShape DEF Unwind, EndActor, fileVars
    <2> QED BY <2>1, MatchUnwind
  <1>3. ASSUME NEW t \in Task, Request(t) \/ BootRestore(t) \/ TimeOut(t) PROVE MatchInv'
    <2>1. cached' = cached
      BY <1>3 DEF Request, BootRestore, TimeOut, fileVars
    <2>2. PICK k \in Coroutine : Turn(t, k) /\ QuietShape(t, k)
      BY <1>3, BeginShape, TimeOutShape DEF QuietShape
    <2> QED BY <2>1, <2>2, MatchQuiet
  <1>4. ASSUME NEW t \in Task, Call(t) PROVE MatchInv'
    BY <1>4, CallQuiet, MatchQuiet
  <1>5. ASSUME NEW t \in Task, Section(t) PROVE MatchInv'
    <2>1. CASE Opened(t)
      BY <2>1, MatchOpened
    <2>2. CASE SwapClosed(t)
      <3>1. /\ SwapCloses(task[t]) /\ UNCHANGED <<mounted, runtime>>
            /\ cached' = [cached EXCEPT ![task[t].ns] = task[t].new]
            /\ Return(t)
        BY <2>2 DEF SwapClosed, Closed, Swapping, SwapCloses, SwapOp, Install, ReplaceSnapshot
      <3> QED BY <3>1, ReturnIs, MatchSwapped DEF Alone
    <2>3. CASE OpenFailed(t)
      <3>1. /\ UNCHANGED <<mounted, runtime>> /\ cached' = cached /\ Return(t)
            /\ \/ task[t].pc = "opening"
               \/ SwapCloses(task[t]) /\ task[t].sig = "error"
        BY <2>3 DEF OpenFailed, CloseRaised, Swapping, SwapCloses, SwapOp, transportVars
      <3> QED BY <3>1, ReturnIs, MatchSwapped DEF Alone, SwapCloses
    <2>4. CASE ~Opened(t) /\ ~SwapClosed(t) /\ ~OpenFailed(t)
      BY <1>5, <2>4, SectionQuiet, MatchQuiet
    <2> QED BY <2>1, <2>2, <2>3, <2>4
  <1>6. CASE Restart \/ \E t \in Task : Crash(t)
    <2>1. (\A u \in Task : ~SwapCloses(task'[u])) /\ \A n \in Namespace : ~Live(n)'
      BY <1>6, RebootRecords, RebootedBlank DEF Idle, SwapCloses, Live
    <2> QED BY <2>1 DEF MatchInv, SwapOK, MatchOK
  <1>7. ASSUME NEW r \in Runtime PROVE ~Die(r)
    BY DEF Die
  <1> QED BY <1>1, <1>2, <1>3, <1>4, <1>5, <1>6, <1>7 DEF Next

LEMMA MatchInit == Init => MatchInv
  <1> SUFFICES ASSUME Init PROVE MatchInv
    OBVIOUS
  <1>1. (\A t \in Task : ~SwapCloses(task[t])) /\ \A n \in Namespace : ~Live(n)
    BY DEF Init, Idle, SwapCloses, Live
  <1> QED BY <1>1 DEF MatchInv, SwapOK, MatchOK

(* While a swap waits for the old runtime's end, the new one has the        *)
(* inventory the swap will cache; otherwise what is mounted has the cached  *)
(* one, unless a failed call is about to take it down.                      *)
THEOREM MatchInvariant ==
  ASSUME "unregister" \notin Op, "death" \notin Fault
  PROVE  Spec => []MatchInv
  <1>1. RuntimesInv /\ SectionInv /\ HomeInv /\ MatchInv /\ [Next]_vars => MatchInv'
    <2>1. ASSUME MatchInv, UNCHANGED vars PROVE MatchInv'
      BY <2>1 DEF vars, transportVars, fileVars, MatchInv, SwapOK, MatchOK, Doomed, Aborter, Live
    <2> QED BY <2>1, MatchStep DEF RuntimesInv
  <1> QED BY <1>1, MatchInit, SectionInvariant, HomeInvariant, RuntimesInvariant, PTL DEF Spec

(* Between requests the mounted tools are those of the cached contract, as  *)
(* long as nobody calls unregister_toolsets and no downstream server dies.  *)
THEOREM ContractsMatch ==
  ASSUME "unregister" \notin Op, "death" \notin Fault
  PROVE  Spec => []MountedMatchesCached
  <1>1. MatchInv => MountedMatchesCached
    BY DEF MatchInv, MatchOK, MountedMatchesCached, AtRest, Doomed
  <1> QED BY <1>1, MatchInvariant, PTL

-----------------------------------------------------------------------------
(* Records that say "connected".  Their runtime is mounted, or a request    *)
(* that took it down waits for its end and has the lock: without calls no   *)
(* other request gets in between, and that wait is never disappointed.      *)

Drawn(k) == k.pc = "closing" /\ k.op \in {"deactivate", "health"}

CloseOK(k) ==
  k.pc = "closing" =>
    /\ k.sig # "error"
    /\ k.sig = None => runtime[k.rt].state # "aborting"
    /\ k.op \in SwapOp => mounted[k.ns] # None

IsConnected(rec) == rec # None /\ rec.transport_state = "connected"

ConnectedOK(n) ==
  IsConnected(store[n]) =>
    mounted[n] # None \/ \E t \in Task : Drawn(task[t]) /\ task[t].ns = n

ConnectedInv == (\A t \in Task : CloseOK(task[t])) /\ \A n \in Namespace : ConnectedOK(n)

(* Without calls every request that uses a runtime is under its lock.       *)
LEMMA NoCalls ==
  ASSUME "call" \notin Op, IInv, PlaceInv, SectionInv, NEW t \in Task
  PROVE  /\ task[t].op # "call" /\ task[t].pc \notin {"calling", "finishing"}
         /\ task[t].pc \in {"opening", "probing", "closing"} => HasLock(t)
  <1>1. task[t].op # "call"
    BY NoneIsNothing DEF PlaceInv, PlaceOK, Idle, Operation
  <1>2. task[t].pc \notin {"calling", "finishing"}
    BY <1>1 DEF IInv, TaskInv, TaskOK, PlaceInv, PlaceOK
  <1> QED BY <1>1, <1>2 DEF SectionInv, LinesInv, InSection

LEMMA CloseTurn ==
  ASSUME "call" \notin Op, IInv, PlaceInv, OwnInv, HomeInv, SectionInv,
         \A u \in Task : CloseOK(task[u]),
         NEW t \in Task, NEW k \in Coroutine, Turn(t, k), Shape(t, k)
  PROVE  \A u \in Task : CloseOK(task[u])'
  <1>t. task'[t] = k /\ \A u \in Task : u # t => task'[u] = task[u]
    BY TurnIs
  <1>0. TaskOK(task[t]) /\ PlaceOK(task[t])
    BY DEF IInv, TaskInv, PlaceInv
  <1>n. task[t].pc \notin {"idle", "gone"} => task[t].ns \in Namespace
    BY <1>0 DEF TaskOK
  <1>k. /\ mounted \in [Namespace -> Runtime \cup {None}]
        /\ runtime \in [Runtime -> RuntimeState] /\ None \notin Runtime
    BY NoneIsNothing DEF IInv, TransportInv
  <1>c. /\ task[t].op # "call" /\ task[t].pc # "calling"
        /\ task[t].pc \in {"opening", "probing", "closing"} => HasLock(t)
    BY NoCalls
  <1>w. ASSUME NEW rts \in [Runtime -> RuntimeState], NEW x \in Runtime,
               rts[x] = runtime[x], runtime' = Closing(rts, x, t), Waits(k, x)
        PROVE  k.sig # "error" /\ (k.sig = None => runtime'[k.rt].state # "aborting")
    BY <1>w, ClosingQueue, NoneIsNothing DEF Waits, CloseSignal
  <1>1. ASSUME k.pc = "closing"
        PROVE  /\ k.sig # "error"
               /\ k.sig = None => runtime'[k.rt].state # "aborting"
               /\ k.op \in SwapOp => mounted'[k.ns] # None
    <2>1. CASE Replaces(t, k)
      <3>1. task[t].ns \in Namespace /\ mounted[task[t].ns] \in Runtime /\ k.ns = task[t].ns
        BY <1>n, <1>k, <2>1 DEF Replaces, SameRequest
      <3>2. PICK r \in Runtime, i \in Inventory :
              /\ NewRuntime(r)
              /\ mounted' = [mounted EXCEPT ![task[t].ns] = r]
              /\ runtime' = Closing([runtime EXCEPT ![r] = Fresh(i)], mounted[task[t].ns], t)
        BY <2>1 DEF Replaces
      <3>3. /\ [runtime EXCEPT ![r] = Fresh(i)] \in [Runtime -> RuntimeState]
            /\ [runtime EXCEPT ![r] = Fresh(i)][mounted[task[t].ns]]
                 = runtime[mounted[task[t].ns]]
        BY <3>1, <3>2, NewRuntimeIs
      <3>4. mounted'[k.ns] # None
        BY <1>k, <3>1, <3>2
      <3> QED BY <1>w, <2>1, <3>1, <3>2, <3>3, <3>4 DEF Replaces
    <2>2. CASE Unmounts(t, k)
      <3>1. mounted[task[t].ns] \in Runtime
        BY <1>n, <1>k, <2>2 DEF Unmounts
      <3>2. k.op \notin SwapOp
        BY <2>2 DEF Unmounts, SameRequest, SwapOp
      <3> QED BY <1>k, <1>w, <2>2, <3>1, <3>2 DEF Unmounts
    <2>3. CASE Expires(t, k)
      <3>1. /\ k.sig = "timeout" /\ mounted' = mounted /\ CloseOK(task[t])
            /\ k.ns = task[t].ns /\ k.op = task[t].op /\ task[t].pc = "closing"
        BY <1>1, <2>3 DEF Expires, Signalled, SameRequest
      <3> QED BY <3>1, NoneIsNothing DEF CloseOK
    <2> QED BY <1>1, <2>1, <2>2, <2>3
            DEF Shape, Begins, Returns, Opens, Mounts, Queues, Finishes, CountsOut, Idle
  <1>2. ASSUME NEW u \in Task, u # t, task[u].pc = "closing"
        PROVE  CloseOK(task[u])'
    <2>1. task'[u] = task[u] /\ CloseOK(task[u]) /\ HasLock(u)
      BY <1>t, <1>2, NoCalls
    <2>2. PICK x \in Runtime, m \in Namespace : x = task[u].rt /\ m = task[u].ns
      BY <1>2 DEF IInv, TaskInv, TaskOK
    <2>3. HasLock(t) => task[t].ns # m
      BY <1>2, <2>1, <2>2, Exclusion DEF MutualExclusion
    <2>4. ASSUME task[u].sig = None PROVE runtime'[x].state # "aborting"
      <3>1. runtime[x].state # "aborting" /\ ~UnusedRuntime(x)
        BY <1>2, <2>1, <2>2, <2>4 DEF CloseOK, UnusedRuntime
      <3>2. ~(Expires(t, k) /\ x = task[t].rt)
        <4> SUFFICES ASSUME Expires(t, k), x = task[t].rt PROVE FALSE
          OBVIOUS
        <4>1. task[t].ns = task[u].ns /\ task[t].pc # "closing"
          BY <1>2, <2>2 DEF HomeInv, SameHome, Uses, Expires
        <4> QED BY <1>c, <2>2, <2>3, <4>1 DEF Expires
      <3> QED BY <3>1, <3>2, KnownMoves
    <2>5. ASSUME mounted[m] # None, mounted'[m] = None PROVE HasLock(t) /\ task[t].ns = m
      <3>1. CASE Unmounts(t, k)
        <4>1. task[t].ns = m
          BY <1>k, <2>5, <3>1 DEF Unmounts
        <4> QED BY <1>c, <3>1, <4>1 DEF Unmounts
      <3>2. CASE Mounts(t, k) \/ Replaces(t, k)
        BY <1>k, <2>5, <3>2 DEF Mounts, Replaces
      <3> QED BY <2>5, <3>1, <3>2
              DEF Shape, Begins, Returns, Opens, Queues, Finishes, CountsOut, Expires, transportVars
    <2> QED BY <2>1, <2>2, <2>3, <2>4, <2>5 DEF CloseOK
  <1> QED BY <1>t, <1>1, <1>2 DEF CloseOK

LEMMA CloseStep ==
  ASSUME "call" \notin Op, "death" \notin Fault,
         IInv, PlaceInv, QueueInv, OwnInv, HomeInv, SectionInv,
         \A u \in Task : CloseOK(task[u]), Next
  PROVE  \A u \in Task : CloseOK(task[u])'
  <1>1. ASSUME NEW r \in Runtime, Serve(r) PROVE \A u \in Task : CloseOK(task[u])'
    <2>1. PICK t \in Task, k \in Coroutine : Turn(t, k) /\ Answers(r, t, k)
      BY <1>1, ServeShape
    <2>2. task'[t] = k /\ \A u \in Task : u # t => task'[u] = task[u]
      BY <2>1, TurnIs
    <2>3. \A x \in Runtime :
             runtime'[x] = Down \/ runtime'[x].state = runtime[x].state
      BY <2>1 DEF Answers, IInv, TransportInv, RuntimeState
    <2>4. /\ mounted' = mounted /\ k.ns = task[t].ns /\ k.op = task[t].op /\ k.pc = task[t].pc
          /\ k.pc = "closing" => k.sig = "ok"
      BY <2>1 DEF Answers, Signalled, SameRequest
    <2>5. \A u \in Task : task[u].pc = "closing" => task[u].rt \in Runtime
      BY DEF IInv, TaskInv, TaskOK
    <2> QED BY <2>2, <2>3, <2>4, <2>5, DownIs, NoneIsNothing DEF CloseOK
  <1>2. ASSUME NEW r \in Runtime, Unwind(r) PROVE \A u \in Task : CloseOK(task[u])'
    <2>1. Ends(r) /\ runtime[r].state = "aborting"
      BY <1>2, EndShape DEF Unwind
    <2>2. \A x \in Runtime : runtime'[x] = Down \/ runtime'[x] = runtime[x]
      BY <2>1 DEF Ends, IInv, TransportInv
    <2>3. \A u \in Task : task'[u].pc = "closing" => task'[u] = task[u] /\ task[u].rt \in Runtime
      <3>1. ASSUME NEW u \in Task, u \in Members(runtime[r].queue), task[u].sig = None
            PROVE  task[u].pc # "closing" /\ task[u].rt = r
        BY <2>1, <3>1, NoneIsNothing DEF QueueInv, QueuedAt, CloseOK, IInv, TaskInv, TaskOK
      <3> QED BY <2>1, <3>1 DEF Ends, Signalled, IInv, TaskInv, TaskOK
    <2>4. mounted' = mounted
      BY <2>1 DEF Ends
    <2> QED BY <2>2, <2>3, <2>4, DownIs DEF CloseOK
  <1>3. ASSUME NEW t \in Task, Request(t) \/ BootRestore(t) \/ Section(t) \/ Call(t) \/ TimeOut(t)
        PROVE  \A u \in Task : CloseOK(task[u])'
    <2>1. PICK k \in Coroutine : Turn(t, k) /\ Shape(t, k)
      BY <1>3, BeginShape, SectionShape, CallShape, TimeOutShape DEF Shape
    <2> QED BY <2>1, CloseTurn
  <1>4. CASE Restart \/ \E t \in Task : Crash(t)
    BY <1>4, RebootRecords, RebootedBlank DEF Idle, CloseOK
  <1>5. ASSUME NEW r \in Runtime PROVE ~Die(r)
    BY DEF Die
  <1> QED BY <1>1, <1>2, <1>3, <1>4, <1>5 DEF Next

(* Which rewrites of a record say "connected". *)
LEMMA ConnectedRewrites ==
  ASSUME NEW rec \in ToolsetRecord, NEW live \in BOOLEAN
  PROVE  /\ ~IsConnected(InState(rec, "connecting"))
         /\ ~IsConnected(ActivationFailed(rec)) /\ ~IsConnected(RestoreFailed(rec))
         /\ ~IsConnected(RuntimeFailed(rec, live))
         /\ ~IsConnected(Deactivated(rec)) /\ ~IsConnected(MarkedStale(rec))
         /\ ~IsConnected(Reconciled(rec))
         /\ \A status : IsConnected(Observed(rec, status, live)) => IsConnected(rec) \/ live
         /\ IsConnected(StaleCleared(rec, live)) => live
         /\ \A s : IsConnected(RemoveScope(rec, s)) => IsConnected(rec)
  <1> rec # None
    BY RecordIsSomething
  <1> QED
    BY DEF ToolsetRecord, TransportState, IsConnected, InState, ActivationFailed, RestoreFailed,
       RuntimeFailed, Deactivated, MarkedStale, Reconciled, Observed, StaleCleared, RemoveScope

(* A request under the lock answers for its own namespace only.             *)
LEMMA ConnectedTurn ==
  ASSUME IInv, \A n \in Namespace : ConnectedOK(n), NEW t \in Task, Alone(t),
         task[t].ns \in Namespace,
         \A m \in Namespace : m # task[t].ns => store'[m] = store[m] /\ mounted'[m] = mounted[m],
         IsConnected(store'[task[t].ns]) =>
           \/ mounted'[task[t].ns] # None
           \/ Drawn(task'[t]) /\ task'[t].ns = task[t].ns
  PROVE  (\A n \in Namespace : ConnectedOK(n))'
  <1>1. ASSUME NEW m \in Namespace, IsConnected(store'[m])
        PROVE  mounted'[m] # None \/ \E u \in Task : Drawn(task'[u]) /\ task'[u].ns = m
    <2>1. CASE m = task[t].ns
      BY <1>1, <2>1
    <2>2. CASE m # task[t].ns
      <3>1. mounted[m] # None \/ \E u \in Task : Drawn(task[u]) /\ task[u].ns = m
        BY <1>1, <2>2 DEF ConnectedOK
      <3> QED BY <2>2, <3>1 DEF Alone
    <2> QED BY <2>1, <2>2
  <1> QED BY <1>1 DEF ConnectedOK, IsConnected

(* Nothing but a request that takes it down leaves a record connected to    *)
(* nothing.                                                                 *)
LEMMA ConnectedSection ==
  ASSUME "unregister" \notin Op, "call" \notin Op, IInv, PlaceInv, SectionInv, ConnectedInv,
         NEW t \in Task, Section(t)
  PROVE  (\A n \in Namespace : ConnectedOK(n))'
  <1> DEFINE n == task[t].ns
  <1>0. task[t] \in Coroutine /\ TaskOK(task[t]) /\ PlaceOK(task[t]) /\ CloseOK(task[t])
    BY DEF IInv, TaskInv, PlaceInv, ConnectedInv
  <1>a. /\ task[t].pc \in {"entering", "opening", "probing", "closing"} /\ HasLock(t)
        /\ task[t].op # "unregister"
    <2>1. task[t].pc \in {"entering", "opening", "probing", "closing"}
      BY DEF Section, Refuse, Register, Unregister, UnregisterClosed, ActivateReuse, Activate,
         RestoreSkip, RestoreReuse, Restore, Refresh, Opened, SwapClosed, OpenFailed, Deactivate,
         DeactivateClosed, DisconnectRaised, HealthMissing, HealthProbe, HealthProbed,
         HealthFailed, HealthClosed, ClearStale, MarkStale, Entering, Restoring, Closed, CloseRaised
    <2>2. task[t].pc = "entering" => HasLock(t)
      BY NoneIsNothing
         DEF Section, Refuse, Register, Unregister, UnregisterClosed, ActivateReuse, Activate,
         RestoreSkip, RestoreReuse, Restore, Refresh, Opened, SwapClosed, OpenFailed, Deactivate,
         DeactivateClosed, DisconnectRaised, HealthMissing, HealthProbe, HealthProbed,
         HealthFailed, HealthClosed, ClearStale, MarkStale, Entering, Restoring, Closed, CloseRaised
    <2> QED BY <1>0, <2>1, <2>2, NoCalls, NoneIsNothing DEF PlaceOK, Operation
  <1>n. n \in Namespace
    BY <1>0, <1>a DEF TaskOK
  <1>k. /\ store \in [Namespace -> ToolsetRecord \cup {None}]
        /\ mounted \in [Namespace -> Runtime \cup {None}] /\ None \notin Runtime
    BY NoneIsNothing DEF IInv, FileInv, TransportInv
  <1>e. ~Drawn(task[t]) /\ IsConnected(store[n]) => mounted[n] # None
    <2> SUFFICES ASSUME ~Drawn(task[t]), IsConnected(store[n]), mounted[n] = None PROVE FALSE
      OBVIOUS
    <2>1. PICK u \in Task : Drawn(task[u]) /\ task[u].ns = n
      BY <1>n DEF ConnectedInv, ConnectedOK
    <2>2. HasLock(u)
      BY <2>1, NoCalls DEF Drawn
    <2> QED BY <1>a, <2>1, <2>2, Exclusion DEF MutualExclusion
  <1>l. Live(n) \in BOOLEAN /\ (Live(n) => mounted[n] # None)
    BY DEF Live
  <1>s. ASSUME store[n] # None PROVE store[n] \in ToolsetRecord
    BY <1>n, <1>k, <1>s
  \* A request that returns, and leaves what is mounted alone.
  <1>w. ASSUME NEW rec, Put(n, rec), Return(t), UNCHANGED mounted,
               IsConnected(rec) => mounted[n] # None
        PROVE  (\A m \in Namespace : ConnectedOK(m))'
    <2>1. store'[n] = rec /\ \A m \in Namespace : m # n => store'[m] = store[m]
      BY <1>n, <1>k, <1>w DEF Put
    <2> QED BY <1>n, <1>w, <2>1, ReturnIs, ConnectedTurn DEF ConnectedInv
  \* A request that takes the runtime down and waits for its end.
  <1>d. ASSUME NEW next \in Coroutine, SameRequest(next, task[t]), mounted[n] # None,
               task[t].op \in {"deactivate", "health"}, Disconnect(t, n, next), UNCHANGED store
        PROVE  (\A m \in Namespace : ConnectedOK(m))'
    <2>1. Alone(t) /\ SameRequest(task'[t], next) /\ task'[t].pc = "closing"
      BY <1>d, <1>n, DisconnectIs
    <2>2. Drawn(task'[t]) /\ task'[t].ns = n
      BY <1>d, <2>1 DEF Drawn, SameRequest
    <2>3. \A m \in Namespace : m # n => mounted'[m] = mounted[m]
      BY <1>d, <1>k DEF Disconnect
    <2> QED BY <1>d, <1>n, <2>1, <2>2, <2>3, ConnectedTurn DEF ConnectedInv
  \* A request that keeps the file and what is mounted.
  <1>q. ASSUME UNCHANGED <<store, mounted>>, Alone(t), ~Drawn(task[t])
        PROVE  (\A m \in Namespace : ConnectedOK(m))'
    BY <1>e, <1>n, <1>q, ConnectedTurn DEF ConnectedInv
  <1>1. CASE Refuse(t) \/ RestoreSkip(t)
    <2>1. Return(t) /\ UNCHANGED <<store, mounted>> /\ ~Drawn(task[t])
      BY <1>1 DEF Refuse, RestoreSkip, Restoring, Entering, Drawn, fileVars, transportVars
    <2> QED BY <2>1, <1>q, ReturnIs
  <1>2. CASE Register(t)
    <2>1. PICK policy \in Policies : Put(n, NewRecord(policy))
      BY <1>2 DEF Register
    <2>2. ~IsConnected(NewRecord(policy))
      BY DEF IsConnected, NewRecord
    <2> QED BY <1>2, <2>1, <2>2, <1>w DEF Register, transportVars
  <1>3. CASE ActivateReuse(t) \/ RestoreReuse(t)
    <2>1. /\ Live(n) /\ Return(t) /\ UNCHANGED mounted
          /\ \E rec : Put(n, rec)
      BY <1>3 DEF ActivateReuse, RestoreReuse, transportVars
    <2> QED BY <2>1, <1>l, <1>w
  <1>4. CASE Activate(t) \/ Restore(t)
    <2>1. /\ store[n] # None /\ Put(n, InState(store[n], "connecting"))
          /\ \E grant : Open(t, InState(store[n], "connecting"), grant, None)
      BY <1>4 DEF Activate, Restore, Candidates
    <2>2. UNCHANGED mounted /\ \E k : task' = [task EXCEPT ![t] = k]
      BY <2>1 DEF Open, transportVars
    <2>3. Alone(t)
      BY <2>2 DEF Alone, IInv, TaskInv
    <2>4. /\ store'[n] = InState(store[n], "connecting")
          /\ \A m \in Namespace : m # n => store'[m] = store[m]
      BY <1>n, <1>k, <2>1 DEF Put
    <2>5. ~IsConnected(store'[n])
      BY <1>l, <1>s, <2>1, <2>4, ConnectedRewrites
    <2> QED BY <1>n, <2>2, <2>3, <2>4, <2>5, ConnectedTurn DEF ConnectedInv
  <1>5. CASE Refresh(t) \/ HealthProbe(t)
    <2>1. /\ task[t].pc = "entering" /\ UNCHANGED <<store, mounted>>
          /\ \E k : task' = [task EXCEPT ![t] = k]
      BY <1>5 DEF Refresh, HealthProbe, Entering, Open, fileVars, transportVars
    <2>2. Alone(t) /\ ~Drawn(task[t])
      BY <2>1 DEF Alone, Drawn, IInv, TaskInv
    <2> QED BY <2>1, <2>2, <1>q
  <1>6. CASE Opened(t)
    <2>1. PICK r \in Runtime :
            /\ mounted' = [mounted EXCEPT ![n] = r]
            /\ \E k : task' = [task EXCEPT ![t] = k]
            /\ store' = store \/ \E rec : Put(n, rec)
      BY <1>6 DEF Opened, Install, Return, fileVars
    <2>2. mounted'[n] # None /\ \A m \in Namespace : m # n => mounted'[m] = mounted[m]
      BY <1>n, <1>k, <2>1
    <2>3. \A m \in Namespace : m # n => store'[m] = store[m]
      BY <1>n, <1>k, <2>1 DEF Put
    <2>4. Alone(t)
      BY <2>1 DEF Alone, IInv, TaskInv
    <2> QED BY <1>n, <2>2, <2>3, <2>4, ConnectedTurn DEF ConnectedInv
  <1>7. CASE SwapClosed(t)
    <2>1. mounted[n] # None
      BY <1>0, <1>7 DEF SwapClosed, Closed, Swapping, CloseOK, SwapOp
    <2>2. Return(t) /\ UNCHANGED mounted /\ \E rec : Put(n, rec)
      BY <1>7 DEF SwapClosed, Install
    <2> QED BY <2>1, <2>2, <1>w
  <1>8. CASE OpenFailed(t)
    <2>1. /\ Return(t) /\ UNCHANGED mounted /\ Put(n, FailedRecord(task[t]))
          /\ task[t].pc = "opening" \/ (Swapping(t) /\ task[t].pc = "closing")
      BY <1>8 DEF OpenFailed, CloseRaised, transportVars
    <2>2. task[t].rec \in ToolsetRecord
      BY <1>0, <2>1 DEF TaskOK, CarriesSound, Swapping, SwapOp, Sound
    <2>3. ~IsConnected(FailedRecord(task[t]))
      BY <1>l, <2>2, ConnectedRewrites DEF FailedRecord
    <2> QED BY <2>1, <2>3, <1>w
  <1>9. CASE Deactivate(t)
    <2>1. task[t].pc = "entering" /\ task[t].op = "deactivate" /\ store[n] \in ToolsetRecord
      BY <1>9, <1>s DEF Deactivate, Entering
    <2>2. PICK s \in store[n].loaded_scopes, force \in BOOLEAN :
            LET rec == RemoveScope(store[n], s) IN
            \/ /\ Put(n, IF rec.loaded_scopes = {} THEN Deactivated(rec) ELSE rec)
               /\ Return(t) /\ UNCHANGED <<cached, previous, lockOf, transportVars, boot>>
            \/ /\ mounted[n] # None
               /\ Disconnect(t, n, [task[t] EXCEPT !.rec = rec, !.force = force])
               /\ UNCHANGED <<fileVars, lockVars, inFlight, boot>>
      BY <1>9 DEF Deactivate
    <2> DEFINE rec == RemoveScope(store[n], s)
    <2>3. rec \in ToolsetRecord
      BY <1>n, <2>1, RecordIsSomething, RemoveScopeSound DEF IInv, FileInv, Sound
    <2>4. CASE /\ Put(n, IF rec.loaded_scopes = {} THEN Deactivated(rec) ELSE rec)
               /\ Return(t) /\ UNCHANGED <<cached, previous, lockOf, transportVars, boot>>
      <3>1. IsConnected(IF rec.loaded_scopes = {} THEN Deactivated(rec) ELSE rec) => mounted[n] # None
        <4>1. ~IsConnected(Deactivated(rec)) /\ (IsConnected(rec) => IsConnected(store[n]))
          BY <2>1, <2>3, ConnectedRewrites
        <4>2. ~Drawn(task[t])
          BY <2>1 DEF Drawn
        <4> QED BY <1>e, <4>1, <4>2
      <3> HIDE DEF rec
      <3> QED BY <2>4, <3>1, <1>w DEF transportVars
    <2>5. CASE /\ mounted[n] # None
               /\ Disconnect(t, n, [task[t] EXCEPT !.rec = rec, !.force = force])
               /\ UNCHANGED <<fileVars, lockVars, inFlight, boot>>
      <3> HIDE DEF rec
      <3> DEFINE next == [task[t] EXCEPT !.rec = rec, !.force = force]
      <3>1. next \in Coroutine /\ SameRequest(next, task[t])
        BY <1>0, <2>3 DEF Coroutine, SameRequest
      <3>2. Disconnect(t, n, next) /\ UNCHANGED store
        BY <2>5 DEF fileVars
      <3> HIDE DEF next
      <3> QED BY <1>d, <2>1, <2>5, <3>1, <3>2
    <2> QED BY <2>2, <2>4, <2>5
  <1>10. CASE DeactivateClosed(t)
    <2>1. /\ Return(t) /\ UNCHANGED mounted /\ Put(n, Deactivated(task[t].rec))
          /\ task[t].rec \in ToolsetRecord
      BY <1>0, <1>10 DEF DeactivateClosed, Closed, TaskOK, Sound, transportVars
    <2> QED BY <2>1, <1>w, ConnectedRewrites
  <1>11. CASE DisconnectRaised(t)
    BY <1>0, <1>11 DEF DisconnectRaised, CloseRaised, CloseOK
  <1>o. ASSUME store[n] # None, NEW status \in HealthStatus
        PROVE  /\ ~IsConnected(Observed(RuntimeFailed(store[n], Live(n)), "failed", Live(n)))
               /\ ~IsConnected(Observed(RuntimeFailed(store[n], FALSE), "failed", FALSE))
               /\ ~IsConnected(Observed(RuntimeFailed(store[n], Live(n)), "stale", Live(n)))
    BY <1>l, <1>o, <1>s DEF ToolsetRecord, TransportState, IsConnected, Observed, RuntimeFailed
  <1>p. ~IsConnected(ProbeFailedRecord(n))
    BY <1>o DEF ProbeFailedRecord, IsConnected, HealthStatus
  <1>12. CASE HealthMissing(t)
    <2>1. /\ Return(t) /\ UNCHANGED mounted /\ store[n] # None
          /\ Put(n, Observed(RuntimeFailed(store[n], FALSE), "failed", FALSE))
      BY <1>12 DEF HealthMissing, transportVars
    <2> QED BY <2>1, <1>o, <1>w DEF HealthStatus
  <1>13. CASE HealthProbed(t)
    <2>1. Return(t) /\ UNCHANGED mounted /\ ~Drawn(task[t])
      BY <1>13 DEF HealthProbed, Drawn, transportVars
    <2>2. CASE UNCHANGED store
      BY <2>1, <2>2, <1>q, ReturnIs
    <2>3. CASE store[n] # None /\ Put(n, Observed(RuntimeFailed(store[n], Live(n)), "stale", Live(n)))
      BY <2>1, <2>3, <1>o, <1>w DEF HealthStatus
    <2>4. CASE store[n] # None /\ Put(n, Observed(store[n], "healthy", Live(n)))
      <3>1. IsConnected(Observed(store[n], "healthy", Live(n))) => mounted[n] # None
        BY <1>e, <1>l, <1>s, <2>1, <2>4, ConnectedRewrites
      <3> QED BY <2>1, <2>4, <3>1, <1>w
    <2> QED BY <1>13, <2>2, <2>3, <2>4 DEF HealthProbed
  <1>14. CASE HealthFailed(t)
    <2>1. task[t].pc = "probing" /\ task[t].op = "health"
      BY <1>0, <1>14 DEF HealthFailed, TaskOK
    <2>2. CASE Put(n, ProbeFailedRecord(n)) /\ Return(t) /\ UNCHANGED transportVars
      BY <2>2, <1>p, <1>w DEF transportVars
    <2>3. CASE mounted[n] # None /\ Disconnect(t, n, task[t]) /\ UNCHANGED fileVars
      BY <1>0, <1>d, <2>1, <2>3 DEF SameRequest, fileVars
    <2> QED BY <1>14, <2>2, <2>3 DEF HealthFailed
  <1>15. CASE HealthClosed(t)
    BY <1>15, <1>p, <1>w DEF HealthClosed, transportVars
  <1>16. CASE ClearStale(t)
    <2>1. /\ Return(t) /\ UNCHANGED mounted /\ store[n] # None
          /\ Put(n, StaleCleared(store[n], Live(n)))
      BY <1>16 DEF ClearStale, transportVars
    <2> QED BY <2>1, <1>l, <1>s, <1>w, ConnectedRewrites
  <1>17. CASE MarkStale(t)
    <2>1. /\ Return(t) /\ UNCHANGED mounted /\ store[n] # None
          /\ Put(n, MarkedStale(store[n]))
      BY <1>17 DEF MarkStale, transportVars
    <2> QED BY <2>1, <1>l, <1>s, <1>w, ConnectedRewrites
  <1>18. ~Unregister(t) /\ ~UnregisterClosed(t)
    BY <1>a DEF Unregister, UnregisterClosed, Entering
  <1> QED BY <1>1, <1>2, <1>3, <1>4, <1>5, <1>6, <1>7, <1>8, <1>9, <1>10, <1>11, <1>12, <1>13,
             <1>14, <1>15, <1>16, <1>17, <1>18 DEF Section

LEMMA ConnectedStep ==
  ASSUME "unregister" \notin Op, "call" \notin Op, "death" \notin Fault,
         IInv, PlaceInv, QueueInv, OwnInv, HomeInv, SectionInv, ConnectedInv, Next
  PROVE  ConnectedInv'
  <1>1. (\A t \in Task : CloseOK(task[t]))'
    BY CloseStep DEF ConnectedInv
  <1>q. ASSUME UNCHANGED <<store, mounted>>,
               \A u \in Task : Drawn(task[u]) => Drawn(task'[u]) /\ task'[u].ns = task[u].ns
        PROVE  (\A n \in Namespace : ConnectedOK(n))'
    BY <1>q DEF ConnectedInv, ConnectedOK
  <1>2. ASSUME NEW r \in Runtime, Serve(r) \/ Unwind(r)
        PROVE  (\A n \in Namespace : ConnectedOK(n))'
    <2>1. UNCHANGED <<store, mounted>>
      BY <1>2 DEF Serve, Unwind, EndActor, fileVars
    <2>2. \/ \E t \in Task, k \in Coroutine : Turn(t, k) /\ Answers(r, t, k)
          \/ Ends(r)
      BY <1>2, ServeShape, EndShape DEF Unwind
    <2>3. ASSUME NEW u \in Task
          PROVE  /\ task'[u].pc = task[u].pc /\ task'[u].op = task[u].op
                 /\ task'[u].ns = task[u].ns
      <3>1. CASE Ends(r)
        BY <3>1, EndKeeps
      <3>2. ASSUME NEW t \in Task, NEW k \in Coroutine, Turn(t, k), Answers(r, t, k)
            PROVE  /\ task'[u].pc = task[u].pc /\ task'[u].op = task[u].op
                   /\ task'[u].ns = task[u].ns
        BY <3>2, AnswerKeeps
      <3> QED BY <2>2, <3>1, <3>2
    <2> QED BY <1>q, <2>1, <2>3 DEF Drawn
  <1>3. ASSUME NEW t \in Task, Request(t) \/ BootRestore(t) \/ TimeOut(t)
        PROVE  (\A n \in Namespace : ConnectedOK(n))'
    <2>1. UNCHANGED <<store, mounted>>
      BY <1>3 DEF Request, BootRestore, TimeOut, fileVars, transportVars
    <2>2. PICK k \in Coroutine : Turn(t, k) /\ (Begins(t, k) \/ Expires(t, k))
      BY <1>3, BeginShape, TimeOutShape
    <2>3. Drawn(task[t]) => Drawn(k) /\ k.ns = task[t].ns
      BY <2>2 DEF Begins, Expires, Signalled, SameRequest, Drawn
    <2> QED BY <1>q, <2>1, <2>2, <2>3, TurnIs
  <1>4. ASSUME NEW t \in Task PROVE ~Call(t)
    <2>1. /\ task[t].op # "call" /\ task[t].pc \notin {"calling", "finishing"}
      BY NoCalls
    <2> QED BY <2>1 DEF Call, CallSend, CallAnswered, CallFailed, CallClosed, CallFinish, Entering
  <1>5. ASSUME Restart \/ \E t \in Task : Crash(t)
        PROVE  (\A n \in Namespace : ConnectedOK(n))'
    <2>1. PICK found : Reboot(found) /\ Finds(found)
      BY <1>5, RebootRecords DEF Reboots
    <2>2. ASSUME NEW n \in Namespace PROVE ~IsConnected(Rebooted(n, found[n]))
      <3>1. CASE found[n] \in ToolsetRecord
        BY <3>1, ConnectedRewrites, RecordIsSomething DEF Rebooted
      <3>2. CASE found[n] = None
        BY <3>2 DEF Rebooted, IsConnected, NewRecord
      <3> QED BY <2>1, <3>1, <3>2, FoundRecord
    <2>3. \A n \in Namespace : store'[n] = Rebooted(n, found[n])
      BY <2>1 DEF Reboot
    <2> QED BY <2>2, <2>3 DEF ConnectedOK, IsConnected
  <1>6. ASSUME NEW r \in Runtime PROVE ~Die(r)
    BY DEF Die
  <1>7. (\A n \in Namespace : ConnectedOK(n))'
    BY <1>2, <1>3, <1>4, <1>5, <1>6, ConnectedSection DEF Next
  <1> QED BY <1>1, <1>7 DEF ConnectedInv

LEMMA ConnectedInit == Init => ConnectedInv
  <1> SUFFICES ASSUME Init PROVE ConnectedInv
    OBVIOUS
  <1>1. \A t \in Task : CloseOK(task[t])
    BY DEF Init, Idle, CloseOK
  <1>2. \A n \in Namespace : ~IsConnected(store[n])
    BY DEF Init, NewRecord, IsConnected
  <1> QED BY <1>1, <1>2 DEF ConnectedInv, ConnectedOK

(* A record says "connected" only while its runtime is mounted or a         *)
(* deactivation or a failed probe waits for the end of the one it took      *)
(* down; and that wait ends well.                                           *)
THEOREM ConnectedInvariant ==
  ASSUME "unregister" \notin Op, "call" \notin Op, "death" \notin Fault
  PROVE  Spec => []ConnectedInv
  <1>1. RuntimesInv /\ SectionInv /\ HomeInv /\ ConnectedInv /\ [Next]_vars => ConnectedInv'
    <2>1. ASSUME ConnectedInv, UNCHANGED vars PROVE ConnectedInv'
      BY <2>1 DEF vars, transportVars, fileVars, ConnectedInv, CloseOK, ConnectedOK
    <2> QED BY <2>1, ConnectedStep DEF RuntimesInv
  <1> QED BY <1>1, ConnectedInit, SectionInvariant, HomeInvariant, RuntimesInvariant, PTL DEF Spec

(* Between requests a record that says "connected" has a mounted runtime,   *)
(* for the control plane alone: as long as nobody calls a tool or           *)
(* unregisters, and no downstream server dies.                              *)
THEOREM ConnectedIsMounted ==
  ASSUME "unregister" \notin Op, "call" \notin Op, "death" \notin Fault
  PROVE  Spec => []ConnectedMeansMounted
  <1>1. ConnectedInv => ConnectedMeansMounted
    BY DEF ConnectedInv, ConnectedOK, ConnectedMeansMounted, AtRest, IsConnected
  <1> QED BY <1>1, ConnectedInvariant, PTL
=============================================================================
