-------------------------- MODULE LifecycleProofs ---------------------------
(***************************************************************************)
(* The types of Lifecycle and the loadability of its state file, for every *)
(* set of namespaces, tasks, policies, operations and faults.              *)
(*                                                                         *)
(* StoreLoadable is not inductive: a request may write back a copy of the  *)
(* record it read before an await, with scopes granted to it then.  The    *)
(* invariant below says what such a copy is while it is carried, one part  *)
(* for each group of variables; one lemma shows how each shared operator   *)
(* keeps its part, and one step of the proof treats each action.           *)
(***************************************************************************)
EXTENDS LifecycleProperties, SequenceTheorems, TLAPS

-----------------------------------------------------------------------------
(* Records.  Every way the service rewrites a record keeps it a record, and *)
(* one that ToolsetRecord.validate_scope_policy accepts.  The validator     *)
(* runs only when a record is built or loaded: the service assigns fields   *)
(* of a loaded record without any check before it writes it back.           *)

(* A record the state file may hold. *)
Sound(rec) == rec \in ToolsetRecord /\ ValidScopePolicy(rec)

(* A record that registration builds from an accepted policy is sound.     *)
LEMMA NewRecordType ==
  ASSUME NEW policy \in Policy
  PROVE  NewRecord(policy) \in ToolsetRecord
  BY DEF NewRecord, ToolsetRecord, TransportState

(* The seeded default policy passes the validator.                         *)
LEMMA DefaultSound == Sound(NewRecord(DefaultPolicy))
  BY NewRecordType DEF Sound, NewRecord, DefaultPolicy, Policy, Scope, ValidScopePolicy,
     ToolsetRecord, TransportState

(* What a restore may bring back is recoverable, so it is supported.       *)
LEMMA RecoveryBounds ==
  ASSUME NEW rec \in ToolsetRecord, NEW identity, NEW explicit
  PROVE  /\ RecoveryScopes(rec, identity, explicit) \subseteq rec.recoverable_scopes
         /\ RecoveryScopes(rec, identity, explicit) \subseteq rec.policy.supported_scopes
         /\ RecoveryScopes(rec, identity, explicit) \subseteq Scope
  BY DEF RecoveryScopes, ToolsetRecord, Policy

(* The rewrites that leave the scopes alone.                               *)
LEMMA InStateSound ==
  ASSUME NEW rec, Sound(rec), NEW state \in TransportState
  PROVE  Sound(InState(rec, state))
  BY DEF Sound, InState, ToolsetRecord, ValidScopePolicy

LEMMA ConnectedSound ==
  ASSUME NEW rec, Sound(rec), NEW hash \in Inventory,
         NEW prev \in Inventory \cup {None}
  PROVE  Sound(Connected(rec, hash, prev))
  BY DEF Sound, Connected, ToolsetRecord, ValidScopePolicy, TransportState

LEMMA FailuresSound ==
  ASSUME NEW rec, Sound(rec), NEW live \in BOOLEAN
  PROVE  /\ Sound(ActivationFailed(rec))
         /\ Sound(RestoreFailed(rec))
         /\ Sound(RuntimeFailed(rec, live))
  BY DEF Sound, ActivationFailed, RestoreFailed, RuntimeFailed, ToolsetRecord,
     ValidScopePolicy, TransportState

LEMMA ReconcilingSound ==
  ASSUME NEW rec, Sound(rec), NEW live \in BOOLEAN
  PROVE  /\ Sound(Deactivated(rec))
         /\ Sound(StaleCleared(rec, live))
         /\ Sound(MarkedStale(rec))
  BY DEF Sound, Deactivated, StaleCleared, MarkedStale, ToolsetRecord,
     ValidScopePolicy, TransportState

LEMMA ObservedSound ==
  ASSUME NEW rec, Sound(rec), NEW live \in BOOLEAN, NEW status \in HealthStatus
  PROVE  Sound(Observed(rec, status, live))
  BY DEF Sound, Observed, ToolsetRecord, ValidScopePolicy, TransportState

(* Loading supported scopes, and noting the restorable ones as recoverable. *)
LEMMA AddScopesSound ==
  ASSUME NEW rec, Sound(rec), NEW S \in SUBSET rec.policy.supported_scopes
  PROVE  /\ Sound(AddScopes(rec, S))
         /\ Sound(AddRecoverableScopes(rec, S))
         /\ AddScopes(rec, S).policy = rec.policy
         /\ AddRecoverableScopes(rec, S).policy = rec.policy
  BY DEF Sound, AddScopes, AddRecoverableScopes, ToolsetRecord, Policy, ValidScopePolicy

LEMMA ReusedSound ==
  ASSUME NEW rec, Sound(rec), NEW S \in SUBSET rec.policy.supported_scopes
  PROVE  Sound(Reused(rec, S))
  BY AddScopesSound, InStateSound DEF Reused, TransportState

LEMMA RemoveScopeSound ==
  ASSUME NEW rec, Sound(rec), NEW s
  PROVE  Sound(RemoveScope(rec, s))
  BY DEF Sound, RemoveScope, ToolsetRecord, ValidScopePolicy

(* Startup keeps of the loaded scopes only restorable ones.                *)
LEMMA ReconciledSound ==
  ASSUME NEW rec, Sound(rec)
  PROVE  Sound(Reconciled(rec))
  BY DEF Sound, Reconciled, ToolsetRecord, Policy, ValidScopePolicy, TransportState

-----------------------------------------------------------------------------
(* The inductive invariant. *)

FileInv ==
  /\ store \in [Namespace -> ToolsetRecord \cup {None}]
  /\ cached \in [Namespace -> Inventory \cup {None}]
  /\ previous \in [Namespace -> Inventory \cup {None}]
  /\ \A n \in Namespace : store[n] # None => Sound(store[n])

LockInv ==
  /\ lockOf \in [Namespace -> Lock \cup {None}]
  /\ lockq \in [Lock -> Seq(Task)]

TransportInv ==
  /\ mounted \in [Namespace -> Runtime \cup {None}]
  /\ runtime \in [Runtime -> RuntimeState]
  /\ inFlight \in [Namespace -> Nat]

(* The record copy k carries is fit to be written, with its scopes granted. *)
CarriesSound(k) ==
  Sound(k.rec) /\ k.grant \subseteq k.rec.policy.supported_scopes

SwapOp == {"activate", "restore", "boot_restore", "refresh"}

(* The fields of a coroutine, those of one that its client cancelled among  *)
(* them (Cancellation): what is proved of a step of Lifecycle can then be   *)
(* used beside cancellation.                                                *)
Coroutine ==
  [ pc    : {"idle", "entering", "opening", "closing", "probing", "calling", "finishing",
             "gone"},
    op    : Operation \cup {"boot_restore", None},
    ns    : Namespace \cup {None},
    tool  : Tool \cup {None},
    force : BOOLEAN,
    grant : SUBSET Scope,
    rec   : ToolsetRecord \cup {None},
    old   : Inventory \cup {None},
    new   : Inventory \cup {None},
    rt    : Runtime \cup {None},
    sig   : {"ok", "error", "timeout", "cancelled", None} ]

TaskOK(k) ==
  /\ k \in Coroutine
  /\ k.pc \notin {"idle", "gone"} => k.ns \in Namespace
  /\ k.pc = "gone" => k.sig = "cancelled"
  /\ k.pc = "entering" => k.rec = None
  /\ k.pc = "opening" => CarriesSound(k)
  /\ k.pc = "closing" /\ k.op \in SwapOp => CarriesSound(k) /\ k.new \in Inventory
  /\ k.pc = "closing" /\ k.op = "deactivate" => Sound(k.rec)
  /\ k.rec # None => Sound(k.rec)
  /\ k.pc = "probing" => k.op = "health"
  /\ k.pc = "calling" => k.op = "call"
  /\ k.pc \in {"closing", "probing", "calling"} => k.rt \in Runtime

TaskInv ==
  /\ task \in [Task -> Coroutine]
  /\ \A t \in Task : TaskOK(task[t])

IInv ==
  FileInv /\ LockInv /\ TransportInv /\ boot \in SUBSET Namespace /\ TaskInv

-----------------------------------------------------------------------------
(* What the shared operators keep. *)

LEMMA PutKeeps ==
  ASSUME FileInv, NEW n \in Namespace, NEW rec, rec = None \/ Sound(rec), Put(n, rec)
  PROVE  /\ store' \in [Namespace -> ToolsetRecord \cup {None}]
         /\ \A m \in Namespace : store'[m] # None => Sound(store'[m])
  BY DEF FileInv, Put, Sound

LEMMA IdleOK == TaskOK(Idle)
  BY DEF TaskOK, Idle, Coroutine, Operation

LEMMA StartedOK ==
  ASSUME NEW o \in Operation \cup {"boot_restore"}, NEW n \in Namespace,
         NEW x \in Tool \cup {None}
  PROVE  TaskOK(Started(o, n, x))
  <1>1. ASSUME NEW k \in Coroutine, k.pc = "entering", k.ns = n, k.rec = None
        PROVE  TaskOK(k)
    BY <1>1 DEF TaskOK
  <1>2. Started(o, n, x) \in Coroutine
    BY DEF Idle, Started, Coroutine
  <1>3. /\ Started(o, n, x).pc = "entering" /\ Started(o, n, x).ns = n
        /\ Started(o, n, x).rec = None
    BY DEF Idle, Started
  <1> QED BY <1>1, <1>2, <1>3

(* Updating one task by a well-formed one. *)
LEMMA TaskKeeps ==
  ASSUME TaskInv, NEW t \in Task, NEW k, TaskOK(k), task' = [task EXCEPT ![t] = k]
  PROVE  TaskInv'
  BY DEF TaskInv, TaskOK

LEMMA ReleaseKeeps ==
  ASSUME LockInv, NEW t \in Task, Release(t)
  PROVE  lockq' \in [Lock -> Seq(Task)]
  <1>1. \A l \in Lock : Holds(t, l) => Tail(lockq[l]) \in Seq(Task)
    BY HeadTailProperties DEF LockInv, Holds
  <1> QED BY <1>1 DEF LockInv, Release

LEMMA AcquireKeeps ==
  ASSUME LockInv, NEW t \in Task, NEW n \in Namespace, Acquire(t, n)
  PROVE  LockInv'
  <1>1. \A l \in Lock : Append(lockq[l], t) \in Seq(Task)
    BY AppendProperties DEF LockInv
  <1> QED BY <1>1 DEF LockInv, Acquire

LEMMA ReturnKeeps ==
  ASSUME LockInv, TaskInv, NEW t \in Task, Return(t)
  PROVE  TaskInv' /\ lockq' \in [Lock -> Seq(Task)]
  BY ReleaseKeeps, TaskKeeps, IdleOK DEF Return

LEMMA ClosingKeeps ==
  ASSUME NEW rts \in [Runtime -> RuntimeState], NEW r \in Runtime, NEW t \in Task
  PROVE  Closing(rts, r, t) \in [Runtime -> RuntimeState]
  <1>1. Append(rts[r].queue, t) \in Seq(Task)
    BY AppendProperties DEF RuntimeState
  <1> QED BY <1>1 DEF Closing, RuntimeState

LEMMA EnqueuedKeeps ==
  ASSUME TransportInv, NEW r \in Runtime, NEW t \in Task
  PROVE  Enqueued(r, t) \in [Runtime -> RuntimeState]
  <1>1. Append(runtime[r].queue, t) \in Seq(Task)
    BY AppendProperties DEF RuntimeState, TransportInv
  <1> QED BY <1>1 DEF Enqueued, RuntimeState, TransportInv

LEMMA DownType == Down \in RuntimeState
  BY EmptySeq DEF Down, RuntimeState

LEMMA FreshType ==
  ASSUME NEW i \in Inventory PROVE Fresh(i) \in RuntimeState
  BY EmptySeq DEF Fresh, RuntimeState

(* disconnect: the task that waits for the runtime's end stays well-formed. *)
LEMMA DisconnectKeeps ==
  ASSUME TransportInv, TaskInv, NEW t \in Task, NEW n \in Namespace, mounted[n] # None,
         NEW next, next \in Coroutine, next.ns \in Namespace,
         next.op \notin SwapOp,
         next.op = "deactivate" => Sound(next.rec),
         next.rec # None => Sound(next.rec),
         Disconnect(t, n, next), UNCHANGED inFlight
  PROVE  TransportInv' /\ TaskInv'
  <1>1. mounted[n] \in Runtime
    BY DEF TransportInv
  <1>2. CloseSignal(mounted[n]) \in {"ok", None}
    BY DEF CloseSignal
  <1>3. TransportInv'
    BY <1>1, ClosingKeeps DEF TransportInv, Disconnect
  <1>4. ASSUME NEW k \in Coroutine, k.pc = "closing", k.op = next.op, k.ns = next.ns,
               k.rec = next.rec, k.rt = mounted[n]
        PROVE  TaskOK(k)
    BY <1>1, <1>4 DEF TaskOK
  <1> DEFINE k == [next EXCEPT !.pc = "closing", !.rt = mounted[n],
                               !.sig = CloseSignal(mounted[n])]
  <1>5. k \in Coroutine
    BY <1>1, <1>2 DEF Coroutine
  <1>6. /\ k.pc = "closing" /\ k.op = next.op /\ k.ns = next.ns
        /\ k.rec = next.rec /\ k.rt = mounted[n]
    BY DEF Coroutine
  <1>7. TaskOK(k)
    BY <1>4, <1>5, <1>6
  <1>8. task' = [task EXCEPT ![t] = k]
    BY DEF Disconnect
  <1> QED BY <1>3, <1>7, <1>8, TaskKeeps

(* A request that writes one sound record and returns. *)
LEMMA WriteKeeps ==
  ASSUME IInv, NEW t \in Task, NEW n \in Namespace, NEW rec, rec = None \/ Sound(rec),
         Put(n, rec), Return(t), UNCHANGED <<cached, previous, lockOf, transportVars, boot>>
  PROVE  IInv'
  <1>1. FileInv'
    BY PutKeeps DEF IInv, FileInv
  <1>2. TaskInv' /\ lockq' \in [Lock -> Seq(Task)]
    BY ReturnKeeps DEF IInv
  <1>3. TransportInv'
    BY DEF IInv, TransportInv, transportVars
  <1> QED BY <1>1, <1>2, <1>3 DEF IInv, LockInv

(* A request that returns and writes nothing. *)
LEMMA ReturnOnlyKeeps ==
  ASSUME IInv, NEW t \in Task, Return(t), UNCHANGED <<fileVars, lockOf, transportVars, boot>>
  PROVE  IInv'
  <1>1. TaskInv' /\ lockq' \in [Lock -> Seq(Task)]
    BY ReturnKeeps DEF IInv
  <1> QED BY <1>1 DEF IInv, LockInv, FileInv, fileVars, TransportInv, transportVars

(* A request that starts to open a runtime carries a sound record.          *)
LEMMA OpenKeeps ==
  ASSUME IInv, NEW t \in Task, task[t].ns \in Namespace,
         NEW rec, Sound(rec), NEW grant \in SUBSET rec.policy.supported_scopes,
         NEW old \in Inventory \cup {None}, Open(t, rec, grant, old)
  PROVE  TaskInv' /\ LockInv' /\ TransportInv' /\ boot' \subseteq Namespace
                  /\ UNCHANGED <<cached, previous>>
  <1>1. ASSUME NEW k \in Coroutine, k.pc = "opening", k.ns = task[t].ns,
               k.rec = rec, k.grant = grant
        PROVE  TaskOK(k)
    BY <1>1 DEF TaskOK, CarriesSound
  <1> DEFINE k == [task[t] EXCEPT !.pc = "opening", !.rec = rec, !.grant = grant, !.old = old]
  <1>2. task[t] \in Coroutine
    BY DEF IInv, TaskInv
  <1>3. grant \in SUBSET Scope
    BY DEF Sound, ToolsetRecord, Policy
  <1>4. k \in Coroutine
    BY <1>2, <1>3 DEF Coroutine, Sound
  <1>5. k.pc = "opening" /\ k.ns = task[t].ns /\ k.rec = rec /\ k.grant = grant
    BY <1>2 DEF Coroutine
  <1>6. TaskOK(k)
    BY <1>1, <1>4, <1>5
  <1>7. task' = [task EXCEPT ![t] = k]
    BY DEF Open
  <1>8. TaskInv'
    BY <1>6, <1>7, TaskKeeps DEF IInv
  <1> QED BY <1>8 DEF IInv, Open, LockInv, lockVars, TransportInv, transportVars

(* The record a successful open leaves is sound.                            *)
LEMMA InstalledSound ==
  ASSUME NEW k, k \in Coroutine, CarriesSound(k), NEW hash \in Inventory
  PROVE  Sound(Installed(k, hash))
  <1> DEFINE prev == IF k.op = "refresh" THEN k.old ELSE k.rec.schema_hash
             c == Connected(k.rec, hash, prev)
  <1>1. prev \in Inventory \cup {None}
    BY DEF Coroutine, CarriesSound, Sound, ToolsetRecord
  <1>2. Sound(c)
    BY <1>1, ConnectedSound DEF CarriesSound
  <1>3. c.policy = k.rec.policy
    BY DEF Connected, CarriesSound, Sound, ToolsetRecord
  <1>4. k.grant \in SUBSET c.policy.supported_scopes
    BY <1>3 DEF CarriesSound
  <1> HIDE DEF c
  <1>5. Sound(AddScopes(c, k.grant)) /\ AddScopes(c, k.grant).policy = c.policy
    BY <1>2, <1>4, AddScopesSound
  <1>6. Sound(AddRecoverableScopes(AddScopes(c, k.grant), k.grant))
    BY <1>4, <1>5, AddScopesSound
  <1> QED BY <1>5, <1>6 DEF Installed, c

(* Mounting's last stretch: the record and the snapshot are written.        *)
LEMMA InstallKeeps ==
  ASSUME IInv, NEW t \in Task, task[t].ns \in Namespace, CarriesSound(task[t]),
         NEW hash \in Inventory, Install(t, hash)
  PROVE  FileInv' /\ LockInv' /\ TaskInv' /\ UNCHANGED <<inFlight, boot>>
  <1> DEFINE n == task[t].ns  rec == Installed(task[t], hash)
  <1>1. Sound(rec)
    BY InstalledSound DEF IInv, TaskInv
  <1>2. Put(n, rec) /\ ReplaceSnapshot(n, hash) /\ Return(t) /\ UNCHANGED <<lockOf, inFlight, boot>>
    BY DEF Install
  <1>3. /\ cached' \in [Namespace -> Inventory \cup {None}]
        /\ previous' \in [Namespace -> Inventory \cup {None}]
    BY <1>2 DEF IInv, FileInv, ReplaceSnapshot
  <1> HIDE DEF rec
  <1>4. FileInv'
    BY <1>1, <1>2, <1>3, PutKeeps DEF IInv, FileInv
  <1>5. TaskInv' /\ lockq' \in [Lock -> Seq(Task)]
    BY <1>2, ReturnKeeps DEF IInv
  <1> QED BY <1>2, <1>4, <1>5 DEF IInv, LockInv

(* Forgetting a registration keeps the invariant.                           *)
LEMMA ForgetKeeps ==
  ASSUME IInv, NEW t \in Task, NEW n \in Namespace, Forget(t, n)
  PROVE  IInv'
  <1>1. FileInv'
    BY PutKeeps DEF IInv, FileInv, Forget
  <1>2. TaskInv' /\ lockq' \in [Lock -> Seq(Task)]
    BY ReturnKeeps DEF IInv, Forget
  <1>3. lockOf' \in [Namespace -> Lock \cup {None}]
    BY DEF IInv, LockInv, Forget
  <1>4. TransportInv' /\ boot' = boot
    BY DEF IInv, TransportInv, transportVars, Forget
  <1> QED BY <1>1, <1>2, <1>3, <1>4 DEF IInv, LockInv

(* The records a failed open and a failed probe or call leave are sound.    *)
LEMMA FailedRecordsSound ==
  ASSUME IInv, NEW n \in Namespace
  PROVE  /\ ProbeFailedRecord(n) = None \/ Sound(ProbeFailedRecord(n))
         /\ FailureRecorded(n) = None \/ Sound(FailureRecorded(n))
         /\ \A k : Sound(k.rec) => Sound(FailedRecord(k))
  <1>1. \A m : Live(m) \in BOOLEAN
    BY DEF Live
  <1>2. store[n] # None => Sound(store[n])
    BY DEF IInv, FileInv
  <1>3. ASSUME NEW rec, Sound(rec), NEW m PROVE Sound(RuntimeFailed(rec, Live(m)))
    BY <1>1, <1>3, FailuresSound
  <1>4. ProbeFailedRecord(n) = None \/ Sound(ProbeFailedRecord(n))
    BY <1>1, <1>2, <1>3, ObservedSound DEF ProbeFailedRecord, HealthStatus
  <1>5. FailureRecorded(n) = None \/ Sound(FailureRecorded(n))
    BY <1>2, <1>3 DEF FailureRecorded
  <1>6. \A k : Sound(k.rec) => Sound(FailedRecord(k))
    BY <1>3, FailuresSound DEF FailedRecord
  <1> QED BY <1>4, <1>5, <1>6

-----------------------------------------------------------------------------
(* One step of the proof for each action. *)

(* Every stretch of a request under the namespace lock keeps the invariant. *)
LEMMA SectionKeeps ==
  ASSUME IInv, NEW t \in Task, Section(t)
  PROVE  IInv'
  <1> DEFINE n == task[t].ns
  <1> USE DEF n
  <1>0. task[t] \in Coroutine /\ TaskOK(task[t])
    BY DEF IInv, TaskInv
  <1>n. ASSUME task[t].pc \notin {"idle", "gone"} PROVE n \in Namespace
    BY <1>0, <1>n DEF TaskOK
  <1>s. ASSUME NEW m \in Namespace, store[m] # None PROVE Sound(store[m])
    BY <1>s DEF IInv, FileInv
  <1>l. \A m : Live(m) \in BOOLEAN
    BY DEF Live
  <1>1. CASE Refuse(t)
    BY <1>1, ReturnOnlyKeeps DEF Refuse
  <1>2. CASE Register(t)
    <2>1. n \in Namespace
      BY <1>2, <1>n DEF Register, Entering
    <2>2. PICK p \in Policies : ValidScopePolicy(NewRecord(p)) /\ Put(n, NewRecord(p))
      BY <1>2 DEF Register
    <2>3. Sound(NewRecord(p))
      BY <2>2, PolicyAssumption, NewRecordType DEF Sound
    <2> QED BY <1>2, <2>1, <2>2, <2>3, WriteKeeps DEF Register
  <1>3. CASE Unregister(t)
    <2>1. n \in Namespace /\ task[t].op = "unregister"
      BY <1>3, <1>n DEF Unregister, Entering
    <2>2. CASE Forget(t, n)
      BY <2>1, <2>2, ForgetKeeps
    <2>3. CASE /\ mounted[n] # None
               /\ Disconnect(t, n, [task[t] EXCEPT !.force = TRUE])
               /\ UNCHANGED <<fileVars, lockVars, inFlight, boot>>
      <3> DEFINE next == [task[t] EXCEPT !.force = TRUE]
      <3>1. /\ next \in Coroutine
            /\ next.ns = n /\ next.op = "unregister" /\ next.rec = task[t].rec
        BY <1>0, <2>1 DEF Coroutine
      <3>2. next.rec # None => Sound(next.rec)
        BY <1>0, <3>1 DEF TaskOK
      <3> HIDE DEF next
      <3>3. TransportInv' /\ TaskInv'
        BY <2>1, <2>3, <3>1, <3>2, DisconnectKeeps DEF IInv, SwapOp, next
      <3> QED BY <2>3, <3>3 DEF IInv, FileInv, LockInv, fileVars, lockVars
    <2> QED BY <1>3, <2>2, <2>3 DEF Unregister
  <1>4. CASE UnregisterClosed(t)
    <2>1. n \in Namespace
      BY <1>4, <1>n DEF UnregisterClosed, Closed
    <2> QED BY <1>4, <2>1, ForgetKeeps DEF UnregisterClosed
  <1>5. CASE ActivateReuse(t)
    <2>1. n \in Namespace /\ store[n] # None
      BY <1>5, <1>n DEF ActivateReuse, Entering
    <2>2. PICK s \in store[n].policy.supported_scopes :
                 Put(n, Reused(AddRecoverableScopes(store[n], {s}), {s}))
      BY <1>5 DEF ActivateReuse
    <2> DEFINE rec == AddRecoverableScopes(store[n], {s})
    <2>3. {s} \in SUBSET store[n].policy.supported_scopes
      OBVIOUS
    <2>4. Sound(rec) /\ rec.policy = store[n].policy
      BY <2>1, <2>3, <1>s, AddScopesSound
    <2> HIDE DEF rec
    <2>5. Sound(Reused(rec, {s}))
      BY <2>3, <2>4, ReusedSound
    <2> QED BY <1>5, <2>1, <2>2, <2>5, WriteKeeps DEF ActivateReuse, rec
  <1>6. CASE Activate(t)
    <2>1. n \in Namespace /\ store[n] # None
      BY <1>6, <1>n DEF Activate, Entering
    <2> DEFINE rec == InState(store[n], "connecting")
    <2>2. PICK s \in store[n].policy.supported_scopes : Put(n, rec) /\ Open(t, rec, {s}, None)
      BY <1>6 DEF Activate
    <2>3. Sound(rec)
      BY <2>1, <1>s, InStateSound DEF TransportState
    <2>4. {s} \in SUBSET rec.policy.supported_scopes
      BY <2>1, <1>s DEF InState, Sound, ToolsetRecord
    <2> HIDE DEF rec
    <2>5. TaskInv' /\ LockInv' /\ TransportInv' /\ boot' \subseteq Namespace
                   /\ UNCHANGED <<cached, previous>>
      BY <2>1, <2>2, <2>3, <2>4, OpenKeeps
    <2>6. FileInv'
      BY <2>1, <2>2, <2>3, <2>5, PutKeeps DEF IInv, FileInv
    <2> QED BY <2>5, <2>6 DEF IInv
  <1>7. CASE RestoreSkip(t)
    BY <1>7, ReturnOnlyKeeps DEF RestoreSkip
  <1>8. CASE RestoreReuse(t)
    <2>1. n \in Namespace
      BY <1>8, <1>n DEF RestoreReuse, Restoring, Entering
    <2>2. PICK identity \in BOOLEAN :
            /\ store[n] # None
            /\ Put(n, Reused(store[n], RecoveryScopes(store[n], identity, task[t].op = "restore")))
      BY <1>8 DEF RestoreReuse, Candidates
    <2> DEFINE scopes == RecoveryScopes(store[n], identity, task[t].op = "restore")
    <2>3. scopes \in SUBSET store[n].policy.supported_scopes
      BY <2>1, <2>2, <1>s, RecoveryBounds DEF Sound
    <2> HIDE DEF scopes
    <2>4. Sound(Reused(store[n], scopes))
      BY <2>1, <2>2, <2>3, <1>s, ReusedSound
    <2> QED BY <1>8, <2>1, <2>2, <2>4, WriteKeeps DEF RestoreReuse, scopes
  <1>9. CASE Restore(t)
    <2>1. n \in Namespace
      BY <1>9, <1>n DEF Restore, Restoring, Entering
    <2> DEFINE rec == InState(store[n], "connecting")
               scopes(i) == RecoveryScopes(store[n], i, task[t].op = "restore")
    <2>2. PICK identity \in BOOLEAN :
            /\ store[n] # None
            /\ Put(n, rec)
            /\ Open(t, rec, scopes(identity), None)
      BY <1>9 DEF Restore, Candidates
    <2>3. Sound(rec)
      BY <2>1, <2>2, <1>s, InStateSound DEF TransportState
    <2>4. scopes(identity) \in SUBSET store[n].policy.supported_scopes
      BY <2>1, <2>2, <1>s, RecoveryBounds DEF Sound
    <2>5. rec.policy = store[n].policy
      BY <2>1, <2>2, <1>s DEF InState, Sound, ToolsetRecord
    <2> HIDE DEF rec, scopes
    <2>6. TaskInv' /\ LockInv' /\ TransportInv' /\ boot' \subseteq Namespace
                   /\ UNCHANGED <<cached, previous>>
      BY <2>1, <2>2, <2>3, <2>4, <2>5, OpenKeeps
    <2>7. FileInv'
      BY <2>1, <2>2, <2>3, <2>6, PutKeeps DEF IInv, FileInv
    <2> QED BY <2>6, <2>7 DEF IInv
  <1>10. CASE Refresh(t)
    <2>1. n \in Namespace /\ store[n] # None /\ Open(t, store[n], {}, cached[n])
      BY <1>10, <1>n DEF Refresh, Entering
    <2>2. cached[n] \in Inventory \cup {None}
      BY <2>1 DEF IInv, FileInv
    <2>3. TaskInv' /\ LockInv' /\ TransportInv' /\ boot' \subseteq Namespace
                   /\ UNCHANGED <<cached, previous>>
      BY <2>1, <2>2, <1>s, OpenKeeps
    <2> QED BY <1>10, <2>3 DEF Refresh, IInv, FileInv
  <1>11. CASE Opened(t)
    <2>1. n \in Namespace /\ CarriesSound(task[t])
      BY <1>0, <1>11, <1>n DEF Opened, TaskOK
    <2>2. PICK r \in Runtime, i \in Inventory :
            LET existing == mounted[n]
                started == [runtime EXCEPT ![r] = Fresh(i)]
            IN /\ mounted' = [mounted EXCEPT ![n] = r]
               /\ \/ existing = None /\ runtime' = started /\ Install(t, i)
                  \/ /\ existing # None
                     /\ runtime' = Closing(started, existing, t)
                     /\ task' = [task EXCEPT ![t] =
                                   [@ EXCEPT !.pc = "closing", !.new = i, !.rt = existing,
                                             !.sig = CloseSignal(existing)]]
                     /\ UNCHANGED <<fileVars, lockVars, inFlight, boot>>
      BY <1>11 DEF Opened
    <2> DEFINE started == [runtime EXCEPT ![r] = Fresh(i)]
    <2>3. started \in [Runtime -> RuntimeState]
      BY FreshType DEF IInv, TransportInv
    <2>4. mounted' \in [Namespace -> Runtime \cup {None}]
      BY <2>1, <2>2 DEF IInv, TransportInv
    <2>5. CASE runtime' = started /\ Install(t, i)
      <3>1. FileInv' /\ LockInv' /\ TaskInv' /\ UNCHANGED <<inFlight, boot>>
        BY <2>1, <2>5, InstallKeeps
      <3> QED BY <2>3, <2>4, <2>5, <3>1 DEF IInv, TransportInv
    <2>6. CASE /\ mounted[n] # None
               /\ runtime' = Closing(started, mounted[n], t)
               /\ task' = [task EXCEPT ![t] =
                             [@ EXCEPT !.pc = "closing", !.new = i, !.rt = mounted[n],
                                       !.sig = CloseSignal(mounted[n])]]
               /\ UNCHANGED <<fileVars, lockVars, inFlight, boot>>
      <3> HIDE DEF started
      <3>1. mounted[n] \in Runtime
        BY <2>1, <2>6 DEF IInv, TransportInv
      <3>2. runtime' \in [Runtime -> RuntimeState]
        BY <2>3, <2>6, <3>1, ClosingKeeps
      <3>3. ASSUME NEW k \in Coroutine, k.pc = "closing", k.ns = n, k.rec = task[t].rec,
                   k.grant = task[t].grant, k.new = i, k.rt = mounted[n]
            PROVE  TaskOK(k)
        BY <2>1, <3>1, <3>3 DEF TaskOK, CarriesSound
      <3> DEFINE k == [task[t] EXCEPT !.pc = "closing", !.new = i, !.rt = mounted[n],
                                      !.sig = CloseSignal(mounted[n])]
      <3>4. CloseSignal(mounted[n]) \in {"ok", None}
        BY DEF CloseSignal
      <3>5. k \in Coroutine
        BY <1>0, <3>1, <3>4 DEF Coroutine
      <3>6. /\ k.pc = "closing" /\ k.ns = n /\ k.rec = task[t].rec
            /\ k.grant = task[t].grant /\ k.new = i /\ k.rt = mounted[n]
        BY <1>0 DEF Coroutine
      <3>7. TaskOK(k)
        BY <3>3, <3>5, <3>6
      <3>8. task' = [task EXCEPT ![t] = k]
        BY <2>6
      <3>9. TaskInv'
        BY <3>7, <3>8, TaskKeeps DEF IInv
      <3> QED BY <2>4, <2>6, <3>2, <3>9
              DEF IInv, TransportInv, FileInv, fileVars, LockInv, lockVars
    <2> QED BY <2>2, <2>5, <2>6
  <1>12. CASE SwapClosed(t)
    <2>1. n \in Namespace /\ CarriesSound(task[t]) /\ task[t].new \in Inventory
      BY <1>0, <1>12, <1>n DEF SwapClosed, Closed, Swapping, TaskOK, SwapOp
    <2>2. FileInv' /\ LockInv' /\ TaskInv' /\ UNCHANGED <<inFlight, boot>>
      BY <1>12, <2>1, InstallKeeps DEF SwapClosed
    <2> QED BY <1>12, <2>2 DEF SwapClosed, IInv, TransportInv
  <1>13. CASE OpenFailed(t)
    <2>1. n \in Namespace /\ Sound(task[t].rec)
      BY <1>0, <1>13, <1>n DEF OpenFailed, CloseRaised, Swapping, TaskOK, SwapOp, CarriesSound
    <2>2. Sound(FailedRecord(task[t]))
      BY <2>1, FailedRecordsSound
    <2> QED BY <1>13, <2>1, <2>2, WriteKeeps DEF OpenFailed
  <1>14. CASE Deactivate(t)
    <2>1. n \in Namespace /\ store[n] # None /\ task[t].op = "deactivate"
      BY <1>14, <1>n DEF Deactivate, Entering
    <2>2. PICK s \in store[n].loaded_scopes, force \in BOOLEAN :
            LET rec == RemoveScope(store[n], s) IN
            \/ /\ Put(n, IF rec.loaded_scopes = {} THEN Deactivated(rec) ELSE rec)
               /\ Return(t)
               /\ UNCHANGED <<cached, previous, lockOf, transportVars, boot>>
            \/ /\ mounted[n] # None
               /\ Disconnect(t, n, [task[t] EXCEPT !.rec = rec, !.force = force])
               /\ UNCHANGED <<fileVars, lockVars, inFlight, boot>>
      BY <1>14 DEF Deactivate
    <2> DEFINE rec == RemoveScope(store[n], s)
    <2>3. Sound(rec)
      BY <2>1, <1>s, RemoveScopeSound
    <2> HIDE DEF rec
    <2>4. Sound(Deactivated(rec))
      BY <2>3, ReconcilingSound
    <2>5. CASE /\ Put(n, IF rec.loaded_scopes = {} THEN Deactivated(rec) ELSE rec)
               /\ Return(t)
               /\ UNCHANGED <<cached, previous, lockOf, transportVars, boot>>
      BY <2>1, <2>3, <2>4, <2>5, WriteKeeps
    <2>6. CASE /\ mounted[n] # None
               /\ Disconnect(t, n, [task[t] EXCEPT !.rec = rec, !.force = force])
               /\ UNCHANGED <<fileVars, lockVars, inFlight, boot>>
      <3> DEFINE next == [task[t] EXCEPT !.rec = rec, !.force = force]
      <3>1. next \in Coroutine /\ next.ns = n /\ next.op = "deactivate" /\ next.rec = rec
        BY <1>0, <2>1, <2>3 DEF Coroutine, Sound
      <3> HIDE DEF next
      <3>2. TransportInv' /\ TaskInv'
        BY <2>1, <2>3, <2>6, <3>1, DisconnectKeeps DEF IInv, SwapOp, next
      <3> QED BY <2>6, <3>2 DEF IInv, FileInv, LockInv, fileVars, lockVars
    <2> QED BY <2>2, <2>5, <2>6 DEF rec
  <1>15. CASE DeactivateClosed(t)
    <2>1. n \in Namespace /\ Sound(task[t].rec)
      BY <1>0, <1>15, <1>n DEF DeactivateClosed, Closed, TaskOK
    <2>2. Sound(Deactivated(task[t].rec))
      BY <2>1, ReconcilingSound
    <2> QED BY <1>15, <2>1, <2>2, WriteKeeps DEF DeactivateClosed
  <1>16. CASE DisconnectRaised(t)
    BY <1>16, ReturnOnlyKeeps DEF DisconnectRaised
  <1>17. CASE HealthMissing(t)
    <2>1. n \in Namespace /\ store[n] # None
      BY <1>17, <1>n DEF HealthMissing, Entering
    <2>2. Sound(RuntimeFailed(store[n], FALSE))
      BY <2>1, <1>s, FailuresSound
    <2>3. Sound(Observed(RuntimeFailed(store[n], FALSE), "failed", FALSE))
      BY <2>2, ObservedSound DEF HealthStatus
    <2> QED BY <1>17, <2>1, <2>3, WriteKeeps DEF HealthMissing
  <1>18. CASE HealthProbe(t)
    <2>1. n \in Namespace /\ store[n] # None /\ mounted[n] # None
      BY <1>18, <1>n DEF HealthProbe, Entering, Live
    <2>2. mounted[n] \in Runtime /\ store[n].schema_hash \in Inventory \cup {None}
      BY <2>1, <1>s DEF IInv, TransportInv, Sound, ToolsetRecord
    <2>3. task' = [task EXCEPT ![t] = [@ EXCEPT !.pc = "probing", !.rt = mounted[n],
                                                !.old = store[n].schema_hash]]
      BY <1>18 DEF HealthProbe
    <2>4. ASSUME NEW k \in Coroutine, k.pc = "probing", k.ns = n, k.rec = task[t].rec,
                 k.op = "health", k.rt = mounted[n]
          PROVE  TaskOK(k)
      BY <1>0, <2>1, <2>2, <2>4 DEF TaskOK
    <2> DEFINE k == [task[t] EXCEPT !.pc = "probing", !.rt = mounted[n],
                                    !.old = store[n].schema_hash]
    <2>5. k \in Coroutine
      BY <1>0, <2>2 DEF Coroutine
    <2>6. /\ k.pc = "probing" /\ k.op = "health" /\ k.ns = n
          /\ k.rec = task[t].rec /\ k.rt = mounted[n]
      BY <1>0, <1>18 DEF Coroutine, HealthProbe, Entering
    <2>7. TaskOK(k)
      BY <2>4, <2>5, <2>6
    <2>8. TaskInv'
      <3>1. task' = [task EXCEPT ![t] = k]
        BY <2>3
      <3> QED BY <2>7, <3>1, TaskKeeps DEF IInv
    <2>9. TransportInv'
      BY <1>18, <2>2, EnqueuedKeeps DEF HealthProbe, IInv, TransportInv
    <2> QED BY <1>18, <2>8, <2>9 DEF HealthProbe, IInv, FileInv, fileVars, LockInv, lockVars
  <1>19. CASE HealthProbed(t)
    <2>1. n \in Namespace
      BY <1>19, <1>n DEF HealthProbed
    <2>2. CASE store[n] = None /\ UNCHANGED store
      BY <1>19, <2>2, ReturnOnlyKeeps DEF HealthProbed, fileVars
    <2>3. CASE store[n] # None /\ Put(n, Observed(RuntimeFailed(store[n], Live(n)), "stale", Live(n)))
      <3>1. Sound(RuntimeFailed(store[n], Live(n)))
        BY <2>1, <2>3, <1>s, <1>l, FailuresSound
      <3>2. Sound(Observed(RuntimeFailed(store[n], Live(n)), "stale", Live(n)))
        BY <3>1, <1>l, ObservedSound DEF HealthStatus
      <3> QED BY <1>19, <2>1, <2>3, <3>2, WriteKeeps DEF HealthProbed
    <2>4. CASE store[n] # None /\ Put(n, Observed(store[n], "healthy", Live(n)))
      <3>1. Sound(Observed(store[n], "healthy", Live(n)))
        BY <2>1, <2>4, <1>s, <1>l, ObservedSound DEF HealthStatus
      <3> QED BY <1>19, <2>1, <2>4, <3>1, WriteKeeps DEF HealthProbed
    <2> QED BY <1>19, <2>2, <2>3, <2>4 DEF HealthProbed
  <1>20. CASE HealthFailed(t)
    <2>1. n \in Namespace
      BY <1>20, <1>n DEF HealthFailed
    <2>2. CASE /\ Put(n, ProbeFailedRecord(n))
               /\ Return(t)
               /\ UNCHANGED <<cached, previous, lockOf, transportVars, boot>>
      BY <2>1, <2>2, FailedRecordsSound, WriteKeeps
    <2>3. CASE /\ mounted[n] # None
               /\ Disconnect(t, n, task[t])
               /\ UNCHANGED <<fileVars, lockVars, inFlight, boot>>
      <3>1. /\ task[t].op = "health"
            /\ task[t].rec # None => Sound(task[t].rec)
        BY <1>0, <1>20 DEF HealthFailed, TaskOK
      <3>2. TransportInv' /\ TaskInv'
        BY <1>0, <2>1, <2>3, <3>1, DisconnectKeeps DEF IInv, SwapOp
      <3> QED BY <2>3, <3>2 DEF IInv, FileInv, LockInv, fileVars, lockVars
    <2> QED BY <1>20, <2>2, <2>3 DEF HealthFailed
  <1>21. CASE HealthClosed(t)
    <2>1. n \in Namespace
      BY <1>21, <1>n DEF HealthClosed, Closed
    <2> QED BY <1>21, <2>1, FailedRecordsSound, WriteKeeps DEF HealthClosed
  <1>22. CASE ClearStale(t)
    <2>1. n \in Namespace /\ store[n] # None
      BY <1>22, <1>n DEF ClearStale, Entering
    <2>2. Sound(StaleCleared(store[n], Live(n)))
      BY <2>1, <1>s, <1>l, ReconcilingSound
    <2> QED BY <1>22, <2>1, <2>2, WriteKeeps DEF ClearStale
  <1>23. CASE MarkStale(t)
    <2>1. n \in Namespace /\ store[n] # None
      BY <1>23, <1>n DEF MarkStale, Entering
    <2>2. Sound(MarkedStale(store[n]))
      BY <2>1, <1>s, <1>l, ReconcilingSound
    <2> QED BY <1>23, <2>1, <2>2, WriteKeeps DEF MarkStale
  <1> QED BY <1>1, <1>2, <1>3, <1>4, <1>5, <1>6, <1>7, <1>8, <1>9, <1>10, <1>11, <1>12,
             <1>13, <1>14, <1>15, <1>16, <1>17, <1>18, <1>19, <1>20, <1>21, <1>22, <1>23
          DEF Section

(* A task whose wait ends, or goes on to wait for its lock, stays fine.     *)
LEMMA FinishingKeeps ==
  ASSUME IInv, NEW t \in Task, task[t].ns \in Namespace, Finishing(t)
  PROVE  TaskInv' /\ LockInv'
  <1>1. task[t] \in Coroutine /\ TaskOK(task[t])
    BY DEF IInv, TaskInv
  <1>2. ASSUME NEW k \in Coroutine, k.pc = "finishing", k.ns = task[t].ns,
               k.rec = task[t].rec
        PROVE  TaskOK(k)
    BY <1>1, <1>2 DEF TaskOK
  <1> DEFINE k == [task[t] EXCEPT !.pc = "finishing", !.rt = None, !.sig = None]
  <1>3. k \in Coroutine
    BY <1>1 DEF Coroutine
  <1>4. k.pc = "finishing" /\ k.ns = task[t].ns /\ k.rec = task[t].rec
    BY <1>1 DEF Coroutine
  <1>5. TaskOK(k)
    BY <1>2, <1>3, <1>4
  <1>6. task' = [task EXCEPT ![t] = k]
    BY DEF Finishing
  <1> QED BY <1>5, <1>6, TaskKeeps, AcquireKeeps DEF IInv, Finishing

(* What a future brings a task, and the contract a probe learns, are free.  *)
LEMMA SameOK ==
  ASSUME NEW k, TaskOK(k), NEW j \in Coroutine, k.pc # "gone",
         j.pc = k.pc, j.op = k.op, j.ns = k.ns,
         j.rec = k.rec, j.grant = k.grant, j.new = k.new \/ j.new \in Inventory, j.rt = k.rt
  PROVE  TaskOK(j)
  BY DEF TaskOK, CarriesSound

LEMMA SignalKeeps ==
  ASSUME NEW k, TaskOK(k), k.pc # "gone", NEW sig \in {"ok", "error", "timeout", "cancelled"}
  PROVE  /\ TaskOK([k EXCEPT !.sig = sig])
         /\ \A i \in Inventory : TaskOK([k EXCEPT !.sig = sig, !.new = i])
  <1>1. k \in Coroutine
    BY DEF TaskOK
  <1> DEFINE a == [k EXCEPT !.sig = sig]
  <1>2. a \in Coroutine
    BY <1>1 DEF Coroutine
  <1>3. /\ a.pc = k.pc /\ a.op = k.op /\ a.ns = k.ns /\ a.rec = k.rec
        /\ a.grant = k.grant /\ a.new = k.new /\ a.rt = k.rt
    BY <1>1 DEF Coroutine
  <1>4. TaskOK(a)
    BY <1>2, <1>3, SameOK
  <1>5. ASSUME NEW i \in Inventory PROVE TaskOK([k EXCEPT !.sig = sig, !.new = i])
    <2> DEFINE b == [k EXCEPT !.sig = sig, !.new = i]
    <2>1. b \in Coroutine
      BY <1>1 DEF Coroutine
    <2>2. /\ b.pc = k.pc /\ b.op = k.op /\ b.ns = k.ns /\ b.rec = k.rec
          /\ b.grant = k.grant /\ b.new = i /\ b.rt = k.rt
      BY <1>1 DEF Coroutine
    <2> QED BY <2>1, <2>2, SameOK
  <1> QED BY <1>4, <1>5

(* The stretches of a tool call, inside and outside the lock.               *)
LEMMA CallKeeps ==
  ASSUME IInv, NEW t \in Task, Call(t)
  PROVE  IInv'
  <1> DEFINE n == task[t].ns
  <1> USE DEF n
  <1>0. task[t] \in Coroutine /\ TaskOK(task[t])
    BY DEF IInv, TaskInv
  <1>n. ASSUME task[t].pc \notin {"idle", "gone"} PROVE n \in Namespace
    BY <1>0, <1>n DEF TaskOK
  <1>1. CASE CallSend(t)
    <2>1. n \in Namespace /\ mounted[n] # None
      BY <1>1, <1>n DEF CallSend, Entering, Resolves, Live
    <2>2. mounted[n] \in Runtime
      BY <2>1 DEF IInv, TransportInv
    <2>3. ASSUME NEW k \in Coroutine, k.pc = "calling", k.ns = n, k.rec = task[t].rec,
                 k.op = "call", k.rt = mounted[n]
          PROVE  TaskOK(k)
      BY <1>0, <2>1, <2>2, <2>3 DEF TaskOK
    <2> DEFINE k == [task[t] EXCEPT !.pc = "calling", !.rt = mounted[n]]
    <2>4. k \in Coroutine
      BY <1>0, <2>2 DEF Coroutine
    <2>5. /\ k.pc = "calling" /\ k.op = "call" /\ k.ns = n
          /\ k.rec = task[t].rec /\ k.rt = mounted[n]
      BY <1>0, <1>1 DEF Coroutine, CallSend, Entering
    <2>6. TaskOK(k)
      BY <2>3, <2>4, <2>5
    <2>7. TaskInv'
      <3>1. task' = [task EXCEPT ![t] = k]
        BY <1>1 DEF CallSend
      <3> QED BY <2>6, <3>1, TaskKeeps DEF IInv
    <2>8. TransportInv'
      <3>1. runtime' \in [Runtime -> RuntimeState]
        BY <1>1, <2>2, EnqueuedKeeps DEF CallSend, IInv
      <3> QED BY <1>1, <2>1, <3>1 DEF CallSend, IInv, TransportInv
    <2>9. LockInv'
      BY <1>1, ReleaseKeeps DEF CallSend, IInv, LockInv
    <2> QED BY <1>1, <2>7, <2>8, <2>9 DEF CallSend, IInv, FileInv, fileVars
  <1>2. CASE CallAnswered(t)
    <2>1. n \in Namespace
      BY <1>2, <1>n DEF CallAnswered
    <2>2. TaskInv' /\ LockInv'
      BY <1>2, <2>1, FinishingKeeps DEF CallAnswered
    <2> QED BY <1>2, <2>2
            DEF CallAnswered, IInv, FileInv, fileVars, TransportInv, transportVars
  <1>3. CASE CallFailed(t)
    <2>1. n \in Namespace /\ task[t].op = "call"
      BY <1>0, <1>3, <1>n DEF CallFailed, TaskOK
    <2>2. CASE /\ Put(n, FailureRecorded(n))
               /\ Finishing(t)
               /\ UNCHANGED <<cached, previous, transportVars, boot>>
      <3>1. TaskInv' /\ LockInv'
        BY <2>1, <2>2, FinishingKeeps
      <3>2. FileInv'
        BY <2>1, <2>2, FailedRecordsSound, PutKeeps DEF IInv, FileInv
      <3> QED BY <2>2, <3>1, <3>2 DEF IInv, TransportInv, transportVars
    <2>3. CASE /\ mounted[n] # None
               /\ Disconnect(t, n, task[t])
               /\ UNCHANGED <<fileVars, lockVars, inFlight, boot>>
      <3>1. task[t].rec # None => Sound(task[t].rec)
        BY <1>0 DEF TaskOK
      <3>2. TransportInv' /\ TaskInv'
        BY <1>0, <2>1, <2>3, <3>1, DisconnectKeeps DEF IInv, SwapOp
      <3> QED BY <2>3, <3>2 DEF IInv, FileInv, LockInv, fileVars, lockVars
    <2> QED BY <1>3, <2>2, <2>3 DEF CallFailed
  <1>4. CASE CallClosed(t)
    <2>1. n \in Namespace
      BY <1>4, <1>n DEF CallClosed, Closed, CloseRaised
    <2>2. TaskInv' /\ LockInv'
      BY <1>4, <2>1, FinishingKeeps DEF CallClosed
    <2>3. FileInv'
      BY <1>4, <2>1, FailedRecordsSound, PutKeeps DEF CallClosed, IInv, FileInv
    <2> QED BY <1>4, <2>2, <2>3 DEF CallClosed, IInv, TransportInv, transportVars
  <1>5. CASE CallFinish(t)
    <2>1. TaskInv' /\ lockq' \in [Lock -> Seq(Task)]
      BY <1>5, ReturnKeeps DEF CallFinish, IInv
    <2>2. inFlight' \in [Namespace -> Nat]
      <3>1. \A i \in Nat : (IF i = 0 THEN 0 ELSE i - 1) \in Nat
        OBVIOUS
      <3> QED BY <1>5, <3>1 DEF CallFinish, IInv, TransportInv
    <2> QED BY <1>5, <2>1, <2>2
            DEF CallFinish, IInv, FileInv, fileVars, LockInv, TransportInv
  <1> QED BY <1>1, <1>2, <1>3, <1>4, <1>5 DEF Call

(* The actors, and the timers of those who wait for them.                   *)
LEMMA ActorKeeps ==
  ASSUME IInv, \/ \E r \in Runtime : Serve(r) \/ Unwind(r) \/ Die(r)
               \/ \E t \in Task : TimeOut(t)
  PROVE  IInv'
  <1>1. ASSUME NEW r \in Runtime, EndActor(r) PROVE IInv'
    <2>1. runtime' \in [Runtime -> RuntimeState]
      BY <1>1, DownType DEF EndActor, IInv, TransportInv
    <2>2. TaskInv'
      <3>1. \A t \in Task : \/ task'[t] = task[t]
                            \/ /\ task[t].sig = None
                               /\ task'[t] = [task[t] EXCEPT !.sig = "error"]
        BY <1>1 DEF EndActor
      <3>2. \A t \in Task : task[t].sig = None => TaskOK([task[t] EXCEPT !.sig = "error"])
        <4>1. \A t \in Task : task[t].sig = None => task[t].pc # "gone"
          BY NoneIsNothing DEF IInv, TaskInv, TaskOK
        <4> QED BY <4>1, SignalKeeps DEF IInv, TaskInv
      <3>3. \A t \in Task : TaskOK(task'[t])
        BY <3>1, <3>2 DEF IInv, TaskInv
      <3>4. task' \in [Task -> Coroutine]
        <4>1. DOMAIN task' = Task /\ task' = [t \in Task |-> task'[t]]
          BY <1>1 DEF EndActor
        <4> QED BY <3>3, <4>1 DEF TaskOK
      <3> QED BY <3>3, <3>4 DEF TaskInv, TaskOK, CarriesSound
    <2> QED BY <1>1, <2>1, <2>2
            DEF EndActor, IInv, FileInv, fileVars, LockInv, lockVars, TransportInv
  <1>2. ASSUME NEW r \in Runtime, Serve(r) PROVE IInv'
    <2> DEFINE t == Head(runtime[r].queue)
    <2>1. t \in Task /\ Tail(runtime[r].queue) \in Seq(Task)
      BY <1>2, HeadTailProperties DEF Serve, IInv, TransportInv, RuntimeState
    <2>2. TaskOK(task[t]) /\ task[t].pc # "gone"
      BY <1>2, <2>1 DEF IInv, TaskInv, Serve
    <2>3. runtime' \in [Runtime -> RuntimeState]
      <3>1. runtime \in [Runtime -> RuntimeState]
        BY DEF IInv, TransportInv
      <3>2. [runtime[r] EXCEPT !.queue = Tail(@)] \in RuntimeState
        BY <2>1, <3>1 DEF RuntimeState
      <3>3. \/ runtime' = [runtime EXCEPT ![r] = Down]
            \/ runtime' = [runtime EXCEPT ![r] = [runtime[r] EXCEPT !.queue = Tail(@)]]
        BY <1>2, <3>1 DEF Serve
      <3> QED BY <3>1, <3>2, <3>3, DownType
    <2>4. PICK sig \in {"ok", "error"} :
            \/ task' = [task EXCEPT ![t].sig = sig]
            \/ \E i \in Inventory : task' = [task EXCEPT ![t].sig = sig, ![t].new = i]
      BY <1>2 DEF Serve
    <2>5. TaskInv'
      <3>1. CASE task' = [task EXCEPT ![t].sig = sig]
        <4>1. task' = [task EXCEPT ![t] = [task[t] EXCEPT !.sig = sig]]
          BY <3>1
        <4> QED BY <2>1, <2>2, <4>1, SignalKeeps, TaskKeeps DEF IInv
      <3>2. ASSUME NEW i \in Inventory, task' = [task EXCEPT ![t].sig = sig, ![t].new = i]
            PROVE  TaskInv'
        <4>1. task' = [task EXCEPT ![t] = [task[t] EXCEPT !.sig = sig, !.new = i]]
          BY <2>1, <3>2 DEF IInv, TaskInv
        <4> QED BY <2>1, <2>2, <4>1, SignalKeeps, TaskKeeps DEF IInv
      <3> QED BY <2>4, <3>1, <3>2
    <2> QED BY <1>2, <2>3, <2>5
            DEF Serve, IInv, FileInv, fileVars, LockInv, lockVars, TransportInv
  <1>3. ASSUME NEW t \in Task, TimeOut(t) PROVE IInv'
    <2>1. TaskOK(task[t]) /\ task[t].rt \in Runtime /\ task[t].pc # "gone"
      BY <1>3 DEF IInv, TaskInv, TaskOK, TimeOut
    <2>2. TaskInv'
      <3>1. task' = [task EXCEPT ![t] = [task[t] EXCEPT !.sig = "timeout"]]
        BY <1>3 DEF TimeOut
      <3> QED BY <2>1, <3>1, SignalKeeps, TaskKeeps DEF IInv
    <2>3. runtime' \in [Runtime -> RuntimeState]
      <3> DEFINE r == task[t].rt
                 aborted == [runtime[r] EXCEPT !.state = IF @ = "down" THEN @ ELSE "aborting"]
      <3>1. runtime \in [Runtime -> RuntimeState]
        BY DEF IInv, TransportInv
      <3>2. aborted \in RuntimeState
        BY <2>1, <3>1 DEF RuntimeState
      <3>3. runtime' = [runtime EXCEPT ![r] = aborted]
        BY <1>3 DEF TimeOut
      <3> QED BY <3>1, <3>2, <3>3
    <2> QED BY <1>3, <2>2, <2>3
            DEF TimeOut, IInv, FileInv, fileVars, LockInv, lockVars, TransportInv
  <1> QED BY <1>1, <1>2, <1>3 DEF Unwind, Die

(* A request or a startup restore begins.                                   *)
LEMMA BeginKeeps ==
  ASSUME IInv, NEW t \in Task, Request(t) \/ BootRestore(t)
  PROVE  IInv'
  <1>1. PICK o \in Operation \cup {"boot_restore"}, n \in Namespace, x \in Tool \cup {None} :
          /\ task' = [task EXCEPT ![t] = Started(o, n, x)]
          /\ Acquire(t, n)
    <2>1. CASE Request(t)
      BY <2>1, OpAssumption DEF Request, Operation
    <2>2. CASE BootRestore(t)
      BY <2>2 DEF BootRestore, IInv
    <2> QED BY <2>1, <2>2
  <1>2. TaskInv'
    BY <1>1, StartedOK, TaskKeeps DEF IInv
  <1>3. LockInv'
    BY <1>1, AcquireKeeps DEF IInv
  <1>4. UNCHANGED <<fileVars, transportVars>> /\ boot' \in SUBSET Namespace
    BY DEF Request, BootRestore, IInv
  <1> QED BY <1>2, <1>3, <1>4 DEF IInv, FileInv, fileVars, TransportInv, transportVars

(* A new process on sound records, the first one's included.                *)
LEMMA RebootKeeps ==
  ASSUME IInv, NEW found, \A n \in Namespace : found[n] = None \/ Sound(found[n]),
         Reboot(found),
         cached' \in [Namespace -> Inventory \cup {None}],
         previous' \in [Namespace -> Inventory \cup {None}]
  PROVE  IInv'
  <1>1. \A n \in Namespace : Rebooted(n, found[n]) = None \/ Sound(Rebooted(n, found[n]))
    BY ReconciledSound, DefaultSound DEF Rebooted
  <1>2. FileInv'
    BY <1>1 DEF Reboot, FileInv, Sound
  <1>3. boot' \in SUBSET Namespace
    BY DEF Reboot
  <1>4. LockInv' /\ TransportInv'
    BY EmptySeq, DownType DEF Reboot, ProcessGone, LockInv, TransportInv
  <1>5. TaskInv'
    BY IdleOK DEF Reboot, ProcessGone, TaskInv, TaskOK
  <1> QED BY <1>2, <1>3, <1>4, <1>5 DEF IInv

(* The record that the cut stretch of a mounting request had written.       *)
LEMMA CutSound ==
  ASSUME IInv, NEW t \in Task, NEW i \in Inventory,
         \/ task[t].pc = "opening"
         \/ Closed(t) /\ Swapping(t) /\ i = task[t].new
  PROVE  Sound(Installed(task[t], i))
  <1>1. task[t] \in Coroutine /\ TaskOK(task[t])
    BY DEF IInv, TaskInv
  <1>2. CarriesSound(task[t])
    BY <1>1 DEF TaskOK, Closed, Swapping, SwapOp
  <1> QED BY <1>1, <1>2, InstalledSound

(* A restart or a crash: nothing of the old process is left but its files.  *)
LEMMA RestartKeeps ==
  ASSUME IInv, Restart \/ \E t \in Task : Crash(t) PROVE IInv'
  <1>1. \A n \in Namespace : store[n] = None \/ Sound(store[n])
    BY DEF IInv, FileInv
  <1>2. CASE Restart
    BY <1>1, <1>2, RebootKeeps DEF Restart, IInv, FileInv
  <1>3. ASSUME NEW t \in Task, InstallCut(t) PROVE IInv'
    <2>1. PICK i \in Inventory :
            /\ \/ task[t].pc = "opening"
               \/ Closed(t) /\ Swapping(t) /\ i = task[t].new
            /\ Reboot([store EXCEPT ![task[t].ns] = Installed(task[t], i)])
      BY <1>3 DEF InstallCut
    <2>2. Sound(Installed(task[t], i))
      BY <2>1, CutSound
    <2> DEFINE found == [store EXCEPT ![task[t].ns] = Installed(task[t], i)]
    <2>3. \A n \in Namespace : found[n] = None \/ Sound(found[n])
      BY <1>1, <2>2 DEF IInv, FileInv
    <2>4. UNCHANGED <<cached, previous>>
      BY <1>3 DEF InstallCut
    <2> HIDE DEF found
    <2>5. Reboot(found)
      BY <2>1 DEF found
    <2> QED BY <2>3, <2>4, <2>5, RebootKeeps DEF IInv, FileInv
  <1>4. ASSUME NEW t \in Task, ForgetCut(t) PROVE IInv'
    BY <1>1, <1>4, RebootKeeps DEF ForgetCut, IInv, FileInv
  <1>5. ASSUME NEW t \in Task, FailureCut(t) PROVE IInv'
    <2> DEFINE n == task[t].ns
               found == [store EXCEPT ![n] = RuntimeFailed(store[n], Live(n))]
    <2>1. n \in Namespace
      BY <1>5 DEF FailureCut, Entering, Closed, IInv, TaskInv, TaskOK
    <2>2. store[n] # None /\ Live(n) \in BOOLEAN
      BY <1>5 DEF FailureCut, Live
    <2>3. Sound(RuntimeFailed(store[n], Live(n)))
      BY <1>1, <2>1, <2>2, FailuresSound
    <2>4. \A m \in Namespace : found[m] = None \/ Sound(found[m])
      BY <1>1, <2>3 DEF IInv, FileInv
    <2>5. Reboot(found) /\ UNCHANGED <<cached, previous>>
      BY <1>5 DEF FailureCut
    <2> HIDE DEF found
    <2> QED BY <2>4, <2>5, RebootKeeps DEF IInv, FileInv
  <1> QED BY <1>2, <1>3, <1>4, <1>5 DEF Crash

LEMMA InitHolds == Init => IInv
  <1> SUFFICES ASSUME Init PROVE IInv
    OBVIOUS
  <1>1. FileInv
    BY DefaultSound DEF Init, FileInv, Sound
  <1>2. LockInv /\ TransportInv /\ boot \in SUBSET Namespace
    BY EmptySeq, DownType DEF Init, LockInv, TransportInv
  <1>3. TaskInv
    BY IdleOK DEF Init, TaskInv, TaskOK
  <1> QED BY <1>1, <1>2, <1>3 DEF IInv

(* Any step of the program. *)
LEMMA StepKeeps ==
  ASSUME IInv, [Next]_vars PROVE IInv'
  <1>1. CASE UNCHANGED vars
    BY <1>1 DEF vars, fileVars, lockVars, transportVars, IInv, FileInv, LockInv,
       TransportInv, TaskInv
  <1>2. CASE Next
    BY <1>2, SectionKeeps, CallKeeps, ActorKeeps, BeginKeeps, RestartKeeps DEF Next
  <1> QED BY <1>1, <1>2

-----------------------------------------------------------------------------
(* The inductive invariant holds of every behaviour of the program.         *)
THEOREM Invariance == Spec => []IInv
  <1>1. IInv /\ [Next]_vars => IInv'
    BY StepKeeps
  <1> QED BY <1>1, InitHolds, PTL DEF Spec

(* No sequence of requests, failures and restarts leaves a state file that  *)
(* the validator of toolbox/models.py refuses to load.                      *)
THEOREM StoreAlwaysLoadable == Spec => []StoreLoadable
  <1>1. IInv => StoreLoadable
    BY DEF IInv, FileInv, TaskInv, TaskOK, StoreLoadable, Sound
  <1> QED BY <1>1, Invariance, PTL
=============================================================================
