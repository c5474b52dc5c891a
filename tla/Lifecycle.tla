----------------------------- MODULE Lifecycle ------------------------------
(***************************************************************************)
(* The toolset lifecycle of Toolbox: the requests of toolbox/service.py,   *)
(* the namespace locks they take, the state file they rewrite, and the     *)
(* runtimes of toolbox/transport_manager.py they mount and close.          *)
(*                                                                         *)
(* The program is one asyncio event loop.  A coroutine runs undisturbed    *)
(* from one await that suspends to the next, so an action here is one such *)
(* stretch of a request, with every change of state the stretch makes.  A  *)
(* request that names several namespaces is the sequence of its one-       *)
(* namespace sections: it holds no lock and keeps no state between two.    *)
(***************************************************************************)
EXTENDS Naturals, Sequences, FiniteSets, Toolsets

CONSTANTS
  Namespace,         \* toolset namespaces
  Task,              \* coroutines that serve requests
  Lock,              \* identities of asyncio.Lock objects (numbers)
  Runtime,           \* identities of runtime actors (numbers)
  Policies,          \* the scope policies callers ask for
  Op,                \* the operations callers use
  Fault,             \* the faults that happen: "death", "restart", "crash"
  Seeded,            \* namespaces _bootstrap_defaults registers
  RestoreAtBoot,     \* ToolboxService(restore_on_startup=...)
  StableIdentity     \* ToolboxService(stable_host_identity=...)

Operation ==
  {"register", "unregister", "activate", "refresh", "deactivate", "restore",
   "health", "clear_stale", "mark_stale", "call"}

ASSUME IdAssumption == Lock \subseteq Nat /\ Runtime \subseteq Nat
ASSUME NoneIsNothing ==
  /\ None \notin Namespace \cup Runtime \cup Lock \cup ToolsetRecord
  /\ None \notin Operation \cup {"boot_restore", "ok", "error", "timeout", "cancelled"}
ASSUME TaskAssumption == IsFiniteSet(Task)
ASSUME PolicyAssumption == Policies \subseteq Policy
ASSUME OpAssumption == Op \subseteq Operation
ASSUME SeededAssumption == Seeded \subseteq Namespace

VARIABLES
  store,      \* the registry: namespace -> record, in the state file
  cached,     \* schema_cache: namespace -> inventory, in the state file
  previous,   \* previous_schema_cache, in the state file
  lockOf,     \* _namespace_locks: namespace -> lock
  lockq,      \* of each lock, its holder followed by its waiters
  mounted,    \* _runtimes: namespace -> runtime
  runtime,    \* of each runtime, its actor's state, tools and command queue
  inFlight,   \* _in_flight: namespace -> number of calls
  boot,       \* namespaces that startup has still to restore
  task        \* of each coroutine, where its request stands

fileVars == <<store, cached, previous>>
lockVars == <<lockOf, lockq>>
transportVars == <<mounted, runtime, inFlight>>
vars == <<fileVars, lockVars, transportVars, boot, task>>

-----------------------------------------------------------------------------
(* A coroutine's locals: the record copy it read (rec), the scopes it will  *)
(* grant, the cached hash it read before an await (old), the inventory it   *)
(* learnt (new), the runtime whose future it awaits (rt), and what that     *)
(* future brought (sig).                                                    *)

Idle ==
  [ pc |-> "idle", op |-> None, ns |-> None, tool |-> None, force |-> FALSE,
    grant |-> {}, rec |-> None, old |-> None, new |-> None,
    rt |-> None, sig |-> None ]

Started(o, n, tool) ==
  [Idle EXCEPT !.pc = "entering", !.op = o, !.ns = n, !.tool = tool]

(* "closing": close() was called and its command is queued.                 *)
(* "aborting": the actor was cancelled and is unwinding.                    *)
Down == [state |-> "down", tools |-> {}, queue |-> <<>>]
Fresh(tools) == [state |-> "up", tools |-> tools, queue |-> <<>>]

(* has_connection, and runtime_for(n) is not None *)
Live(n) == mounted[n] # None /\ runtime[mounted[n]].state = "up"

ResolvesAnyTool(n, tool) == Live(n)   \* mutation: the tool is not looked up again

(* _resolve_mounted_tool *)
Resolves(n, tool) == Live(n) /\ tool \in runtime[mounted[n]].tools

(* An identity nothing refers to; the lowest is taken, to have one choice. *)
UnusedRuntime(r) ==
  /\ runtime[r] = Down
  /\ \A n \in Namespace : mounted[n] # r
  /\ \A t \in Task : task[t].rt # r

UnusedLock(l) == lockq[l] = <<>> /\ \A n \in Namespace : lockOf[n] # l

NewRuntime(r) == UnusedRuntime(r) /\ \A x \in Runtime : UnusedRuntime(x) => r <= x
NewLock(l) == UnusedLock(l) /\ \A x \in Lock : UnusedLock(x) => l <= x

-----------------------------------------------------------------------------
(* Namespace locks.  asyncio.Lock hands itself to its waiters in order.     *)

Holds(t, l) == lockq[l] # <<>> /\ Head(lockq[l]) = t
HasLock(t) == \E l \in Lock : Holds(t, l)

(* mutation: the lock is created but not kept for the next caller *)
AcquireUnshared(t, n) ==
  /\ \E l \in Lock : NewLock(l) /\ lockq' = [lockq EXCEPT ![l] = Append(@, t)]
  /\ UNCHANGED lockOf

(* async with self._namespace_lock(n): the lock is looked up, or created,   *)
(* before the wait, and the waiter keeps the object it found.               *)
Acquire(t, n) ==
  \E l \in Lock :
    /\ \/ lockOf[n] = l /\ UNCHANGED lockOf
       \/ lockOf[n] = None /\ NewLock(l) /\ lockOf' = [lockOf EXCEPT ![n] = l]
    /\ lockq' = [lockq EXCEPT ![l] = Append(@, t)]

Release(t) ==
  lockq' = [l \in Lock |-> IF Holds(t, l) THEN Tail(lockq[l]) ELSE lockq[l]]

(* The request leaves its locked section and returns. *)
Return(t) ==
  /\ Release(t)
  /\ task' = [task EXCEPT ![t] = Idle]

Entering(t, o) == task[t].pc = "entering" /\ task[t].op = o /\ HasLock(t)

Put(n, rec) == store' = [store EXCEPT ![n] = rec]

-----------------------------------------------------------------------------
(* Runtime actors *)

Enqueued(r, t) == [runtime EXCEPT ![r].queue = Append(@, t)]

(* close(): a live runtime is marked closed and gets a close command; one   *)
(* that is closed or dead already is only waited for.                       *)
CloseSignal(r) == IF runtime[r].state = "up" THEN None ELSE "ok"

Closing(rts, r, t) ==
  IF rts[r].state = "up"
  THEN [rts EXCEPT ![r].state = "closing", ![r].queue = Append(@, t)]
  ELSE rts

(* mutation: the runtime is closed but stays in _runtimes *)
DisconnectStillMounted(t, n, next) ==
  LET r == mounted[n] IN
  /\ runtime' = Closing(runtime, r, t)
  /\ task' = [task EXCEPT ![t] =
                [next EXCEPT !.pc = "closing", !.rt = r, !.sig = CloseSignal(r)]]
  /\ UNCHANGED mounted

(* disconnect(n) up to its await: next is what the coroutine keeps. *)
Disconnect(t, n, next) ==
  LET r == mounted[n] IN
  /\ mounted' = [mounted EXCEPT ![n] = None]
  /\ runtime' = Closing(runtime, r, t)
  /\ task' = [task EXCEPT ![t] =
                [next EXCEPT !.pc = "closing", !.rt = r, !.sig = CloseSignal(r)]]

(* The coroutine's await of its future is over.  A timeout has aborted the  *)
(* actor, and close() returns only when the actor has ended.                *)
Answered(t) == task[t].sig = "ok"
Broken(t) ==
  \/ task[t].sig = "error"
  \/ task[t].sig = "timeout" /\ runtime[task[t].rt] = Down

(* mutation: close() does not wait for the actor to end *)
ClosedEarly(t) == task[t].pc = "closing" /\ task[t].sig \in {"ok", "timeout"}

Closed(t) ==
  /\ task[t].pc = "closing"
  /\ task[t].sig \in {"ok", "timeout"}
  /\ runtime[task[t].rt] = Down

CloseRaised(t) == task[t].pc = "closing" /\ task[t].sig = "error"

(* The actor ends.  The futures of queued commands that are still awaited   *)
(* get its error; not so the one of the command it was handling, which the  *)
(* inner finally block has dropped by then.                                 *)
Handling(r) ==
  /\ runtime[r].queue # <<>>
  /\ task[Head(runtime[r].queue)].pc \in {"calling", "probing"}

EndActor(r) ==
  /\ runtime' = [runtime EXCEPT ![r] = Down]
  /\ \E first \in {1, 2} :
       /\ first = 2 => Handling(r)
       /\ task' = [t \in Task |->
                     IF /\ task[t].sig = None
                        /\ \E i \in first .. Len(runtime[r].queue) : runtime[r].queue[i] = t
                     THEN [task[t] EXCEPT !.sig = "error"] ELSE task[t]]
  /\ UNCHANGED <<fileVars, lockVars, mounted, inFlight, boot>>

(* The actor handles its next command; a downstream server that does not    *)
(* answer keeps it from doing so.                                           *)
Serve(r) ==
  /\ runtime[r].state \in {"up", "closing"}
  /\ runtime[r].queue # <<>>
  /\ LET t == Head(runtime[r].queue) IN
     \/ /\ task[t].pc = "closing"
        /\ runtime' = [runtime EXCEPT ![r] = Down]
        /\ task' = [task EXCEPT ![t].sig = "ok"]
     \/ /\ task[t].pc \in {"calling", "probing"}
        /\ runtime' = [runtime EXCEPT ![r].queue = Tail(@)]
        /\ \/ task' = [task EXCEPT ![t].sig = "error"]
           \/ /\ task[t].pc = "calling"
              /\ task' = [task EXCEPT ![t].sig = "ok"]
           \/ /\ task[t].pc = "probing"
              /\ \E i \in Inventory :
                   task' = [task EXCEPT ![t].sig = "ok", ![t].new = i]
  /\ UNCHANGED <<fileVars, lockVars, mounted, inFlight, boot>>

(* mutation: only a tool call's wait is bounded *)
TimeOutCallsOnly(t) ==
  /\ task[t].pc = "calling"
  /\ task[t].sig = None
  /\ runtime' = [runtime EXCEPT ![task[t].rt].state = IF @ = "down" THEN @ ELSE "aborting"]
  /\ task' = [task EXCEPT ![t].sig = "timeout"]
  /\ UNCHANGED <<fileVars, lockVars, mounted, inFlight, boot>>

(* wait_for expires: the caller abandons its command and cancels the actor, *)
(* unless that has ended.                                                   *)
TimeOut(t) ==
  /\ task[t].pc \in {"calling", "probing", "closing"}
  /\ task[t].sig = None
  /\ runtime' = [runtime EXCEPT ![task[t].rt].state = IF @ = "down" THEN @ ELSE "aborting"]
  /\ task' = [task EXCEPT ![t].sig = "timeout"]
  /\ UNCHANGED <<fileVars, lockVars, mounted, inFlight, boot>>

(* The cancelled actor has unwound its transport. *)
Unwind(r) == runtime[r].state = "aborting" /\ EndActor(r)

(* The actor stops of itself: its transport raised. *)
Die(r) ==
  /\ "death" \in Fault
  /\ runtime[r].state \in {"up", "closing"}
  /\ EndActor(r)

-----------------------------------------------------------------------------
(* A client's request reaches the service. *)

Serving == boot = {} /\ \A t \in Task : task[t].op # "boot_restore"

Request(t) ==
  /\ Serving
  /\ task[t].pc = "idle"
  /\ \E n \in Namespace :
       /\ \/ \E o \in Op \ {"call"} :
               task' = [task EXCEPT ![t] = Started(o, n, None)]
          \/ /\ "call" \in Op
             /\ \E x \in Tool :
                  /\ Resolves(n, x)
                  /\ task' = [task EXCEPT ![t] = Started("call", n, x)]
       /\ Acquire(t, n)
  /\ UNCHANGED <<fileVars, transportVars, boot>>

(* maybe_restore_on_startup takes the next candidate, before serving. *)
BootRestore(t) ==
  /\ \A x \in Task : task[x].pc = "idle"
  /\ \E n \in boot :
       /\ task' = [task EXCEPT ![t] = Started("boot_restore", n, None)]
       /\ Acquire(t, n)
       /\ boot' = boot \ {n}
  /\ UNCHANGED <<fileVars, transportVars>>

-----------------------------------------------------------------------------
MayUnloadAlways(n, force) == TRUE   \* mutation: in-flight calls are not looked at

(* A runtime is not taken from calls in flight, unless the caller insists. *)
MayUnload(n, force) == force \/ inFlight[n] = 0

(* Requests that find nothing to do, or are refused: they return as they    *)
(* came.  Arguments the caller leaves open (a scope, force, if_not_loaded,  *)
(* if_stale) are chosen where the section reads them.                       *)

RegisterRefused(n) ==
  \/ store[n] # None
  \/ \E p \in Policies : ~ValidScopePolicy(NewRecord(p))

(* Without force, or with calls in flight. *)
UnregisterRefused(rec) == rec.loaded_scopes # {}

(* An unsupported scope, or an active one with if_not_loaded. *)
ActivateRefused(rec) ==
  Scope \ rec.policy.supported_scopes # {} \/ rec.loaded_scopes # {}

ScopeNotActive(rec) == Scope \ rec.loaded_scopes # {}

RefreshRefused(rec) ==
  ScopeNotActive(rec) \/ (~rec.stale /\ rec.schema_hash # None)

DeactivateRefused(n, rec) ==
  ScopeNotActive(rec) \/ (rec.loaded_scopes # {} /\ ~MayUnload(n, FALSE))

Refused(o, n, tool) ==
  LET rec == store[n] IN
  \/ o = "call" /\ ~Resolves(n, tool)
  \/ o = "register" /\ RegisterRefused(n)
  \/ o \notin {"call", "register"} /\ rec = None
  \/ /\ rec # None
     /\ \/ o = "unregister" /\ UnregisterRefused(rec)
        \/ o = "activate" /\ ActivateRefused(rec)
        \/ o = "refresh" /\ RefreshRefused(rec)
        \/ o = "deactivate" /\ DeactivateRefused(n, rec)
        \/ o = "health" /\ ScopeNotActive(rec)
        \/ o = "clear_stale" /\ ~NeedsClearing(rec)

Refuse(t) ==
  /\ task[t].pc = "entering"
  /\ HasLock(t)
  /\ Refused(task[t].op, task[t].ns, task[t].tool)
  /\ Return(t)
  /\ UNCHANGED <<fileVars, lockOf, transportVars, boot>>

-----------------------------------------------------------------------------
(* register_toolset, unregister_toolsets *)

Register(t) ==
  /\ Entering(t, "register")
  /\ LET n == task[t].ns IN
     /\ store[n] = None
     /\ \E p \in Policies : ValidScopePolicy(NewRecord(p)) /\ Put(n, NewRecord(p))
  /\ Return(t)
  /\ UNCHANGED <<cached, previous, lockOf, transportVars, boot>>

(* Both snapshots and the record go, and so does the lock this task holds. *)
Forget(t, n) ==
  /\ Put(n, None)
  /\ cached' = [cached EXCEPT ![n] = None]
  /\ previous' = [previous EXCEPT ![n] = None]
  /\ lockOf' = [lockOf EXCEPT ![n] = None]
  /\ Return(t)
  /\ UNCHANGED <<transportVars, boot>>

Unregister(t) ==
  /\ Entering(t, "unregister")
  /\ LET n == task[t].ns IN
     /\ store[n] # None
     /\ \/ store[n].loaded_scopes = {} /\ Forget(t, n)
        \/ /\ store[n].loaded_scopes # {}
           /\ MayUnload(n, FALSE)
           /\ \/ mounted[n] = None /\ Forget(t, n)
              \/ /\ mounted[n] # None
                 /\ Disconnect(t, n, [task[t] EXCEPT !.force = TRUE])
                 /\ UNCHANGED <<fileVars, lockVars, inFlight, boot>>

UnregisterClosed(t) ==
  /\ Closed(t)
  /\ task[t].op = "unregister"
  /\ Forget(t, task[t].ns)

-----------------------------------------------------------------------------
(* activate_toolsets, restore_toolsets, refresh_toolsets: a new runtime is  *)
(* opened, swapped for the mounted one, and its contract cached.            *)

Open(t, rec, grant, old) ==
  /\ task' = [task EXCEPT ![t] =
                [@ EXCEPT !.pc = "opening", !.rec = rec, !.grant = grant, !.old = old]]
  /\ UNCHANGED <<cached, previous, lockVars, transportVars, boot>>

(* A mounted runtime takes a further scope; no runtime is opened. *)
ActivateReuse(t) ==
  /\ Entering(t, "activate")
  /\ LET n == task[t].ns  rec == store[n] IN
     /\ rec # None
     /\ Live(n)
     /\ rec.loaded_scopes # {}
     /\ \E s \in rec.policy.supported_scopes \ rec.loaded_scopes :
          Put(n, Reused(AddRecoverableScopes(rec, {s}), {s}))
  /\ Return(t)
  /\ UNCHANGED <<cached, previous, lockOf, transportVars, boot>>

Activate(t) ==
  /\ Entering(t, "activate")
  /\ LET n == task[t].ns  rec == store[n] IN
     /\ rec # None
     /\ \E s \in rec.policy.supported_scopes :
          /\ ~(Live(n) /\ rec.loaded_scopes # {} /\ s \notin rec.loaded_scopes)
          /\ Put(n, InState(rec, "connecting"))
          /\ Open(t, InState(rec, "connecting"), {s}, None)

Restoring(t) == Entering(t, "restore") \/ Entering(t, "boot_restore")

(* The scopes this restore may bring back.  The caller of restore_toolsets  *)
(* says whether the host's identity is stable; startup has it configured.   *)
Candidates(t, identity) ==
  /\ task[t].op = "boot_restore" => identity = StableIdentity
  /\ store[task[t].ns] # None

RestoreSkip(t) ==
  /\ Restoring(t)
  /\ \E identity \in BOOLEAN :
       /\ Candidates(t, identity)
       /\ LET n == task[t].ns
              scopes == RecoveryScopes(store[n], identity, task[t].op = "restore")
          IN scopes = {} \/ (Live(n) /\ scopes \subseteq store[n].loaded_scopes)
  /\ Return(t)
  /\ UNCHANGED <<fileVars, lockOf, transportVars, boot>>

RestoreReuse(t) ==
  /\ Restoring(t)
  /\ \E identity \in BOOLEAN :
       /\ Candidates(t, identity)
       /\ LET n == task[t].ns
              scopes == RecoveryScopes(store[n], identity, task[t].op = "restore")
          IN /\ Live(n)
             /\ ~(scopes \subseteq store[n].loaded_scopes)
             /\ Put(n, Reused(store[n], scopes))
  /\ Return(t)
  /\ UNCHANGED <<cached, previous, lockOf, transportVars, boot>>

Restore(t) ==
  /\ Restoring(t)
  /\ \E identity \in BOOLEAN :
       /\ Candidates(t, identity)
       /\ LET n == task[t].ns
              scopes == RecoveryScopes(store[n], identity, task[t].op = "restore")
              rec == InState(store[n], "connecting")
          IN /\ scopes # {}
             /\ ~Live(n)
             /\ Put(n, rec)
             /\ Open(t, rec, scopes, None)

(* Refresh leaves the stored record alone until it knows the outcome. *)
Refresh(t) ==
  /\ Entering(t, "refresh")
  /\ LET n == task[t].ns  rec == store[n] IN
     /\ rec # None
     /\ rec.loaded_scopes # {}
     /\ Open(t, rec, {}, cached[n])
  /\ UNCHANGED store

(* The record a successful open and swap leaves. *)
Installed(k, hash) ==
  LET connected == Connected(k.rec, hash, IF k.op = "refresh" THEN k.old
                                          ELSE k.rec.schema_hash)
  IN IF k.op = "activate"
     THEN AddRecoverableScopes(AddScopes(connected, k.grant), k.grant)
     ELSE AddScopes(connected, k.grant)

(* mutation: a snapshot that is there is not replaced *)
ReplaceSnapshotOnce(n, hash) ==
  /\ cached' = [cached EXCEPT ![n] = IF @ = None THEN hash ELSE @]
  /\ UNCHANGED previous

(* replace_schema_snapshot *)
ReplaceSnapshot(n, hash) ==
  /\ previous' = [previous EXCEPT ![n] = IF cached[n] = None THEN @ ELSE cached[n]]
  /\ cached' = [cached EXCEPT ![n] = hash]

Install(t, hash) ==
  /\ Put(task[t].ns, Installed(task[t], hash))
  /\ ReplaceSnapshot(task[t].ns, hash)
  /\ Return(t)
  /\ UNCHANGED <<lockOf, inFlight, boot>>

(* open_runtime answers and swap_runtime mounts the new runtime at once;    *)
(* only then is the old one closed, if there is one to close.               *)
Opened(t) ==
  /\ task[t].pc = "opening"
  /\ \E r \in Runtime, i \in Inventory :
       LET n == task[t].ns  existing == mounted[n]
           started == [runtime EXCEPT ![r] = Fresh(i)]
       IN /\ NewRuntime(r)
          /\ mounted' = [mounted EXCEPT ![n] = r]
          /\ \/ /\ existing = None
                /\ runtime' = started
                /\ Install(t, i)
             \/ /\ existing # None
                /\ runtime' = Closing(started, existing, t)
                /\ task' = [task EXCEPT ![t] =
                              [@ EXCEPT !.pc = "closing", !.new = i, !.rt = existing,
                                        !.sig = CloseSignal(existing)]]
                /\ UNCHANGED <<fileVars, lockVars, inFlight, boot>>

Swapping(t) == task[t].op \in {"activate", "restore", "boot_restore", "refresh"}

SwapClosed(t) ==
  /\ Closed(t)
  /\ Swapping(t)
  /\ Install(t, task[t].new)
  /\ UNCHANGED <<mounted, runtime>>

(* Any exception of open_runtime or swap_runtime lands in one handler. *)
FailedRecord(k) ==
  CASE k.op = "activate" -> ActivationFailed(k.rec)
    [] k.op = "refresh"  -> RuntimeFailed(k.rec, Live(k.ns))
    [] OTHER             -> RestoreFailed(k.rec)

OpenFailed(t) ==
  /\ task[t].pc = "opening" \/ (Swapping(t) /\ CloseRaised(t))
  /\ Put(task[t].ns, FailedRecord(task[t]))
  /\ Return(t)
  /\ UNCHANGED <<cached, previous, lockOf, transportVars, boot>>

-----------------------------------------------------------------------------
(* deactivate_toolsets: a scope is dropped; the last one takes the runtime. *)

Deactivate(t) ==
  /\ Entering(t, "deactivate")
  /\ LET n == task[t].ns IN
     /\ store[n] # None
     /\ \E s \in store[n].loaded_scopes, force \in BOOLEAN :
          LET rec == RemoveScope(store[n], s) IN
          /\ MayUnload(n, force)
          /\ \/ /\ rec.loaded_scopes # {} \/ mounted[n] = None
                /\ Put(n, IF rec.loaded_scopes = {} THEN Deactivated(rec) ELSE rec)
                /\ Return(t)
                /\ UNCHANGED <<cached, previous, lockOf, transportVars, boot>>
             \/ /\ rec.loaded_scopes = {}
                /\ mounted[n] # None
                /\ Disconnect(t, n, [task[t] EXCEPT !.rec = rec, !.force = force])
                /\ UNCHANGED <<fileVars, lockVars, inFlight, boot>>

DeactivateClosed(t) ==
  /\ Closed(t)
  /\ task[t].op = "deactivate"
  /\ Put(task[t].ns, Deactivated(task[t].rec))
  /\ Return(t)
  /\ UNCHANGED <<cached, previous, lockOf, transportVars, boot>>

(* No handler catches what disconnect raises: the request fails halfway. *)
DisconnectRaised(t) ==
  /\ CloseRaised(t)
  /\ task[t].op \in {"deactivate", "unregister", "health"}
  /\ Return(t)
  /\ UNCHANGED <<fileVars, lockOf, transportVars, boot>>

-----------------------------------------------------------------------------
(* check_toolset_health *)

(* The runtime is gone though scopes are loaded. *)
HealthMissing(t) ==
  /\ Entering(t, "health")
  /\ LET n == task[t].ns IN
     /\ store[n] # None
     /\ store[n].loaded_scopes # {}
     /\ ~Live(n)
     /\ Put(n, Observed(RuntimeFailed(store[n], FALSE), "failed", FALSE))
  /\ Return(t)
  /\ UNCHANGED <<cached, previous, lockOf, transportVars, boot>>

(* The probe is queued; the hash to compare with was read before the wait. *)
HealthProbe(t) ==
  /\ Entering(t, "health")
  /\ LET n == task[t].ns IN
     /\ store[n] # None
     /\ store[n].loaded_scopes # {}
     /\ Live(n)
     /\ runtime' = Enqueued(mounted[n], t)
     /\ task' = [task EXCEPT ![t] =
                   [@ EXCEPT !.pc = "probing", !.rt = mounted[n],
                             !.old = store[n].schema_hash]]
  /\ UNCHANGED <<fileVars, lockVars, mounted, inFlight, boot>>

(* The record is read again; with none left, the request raises. *)
HealthProbed(t) ==
  /\ task[t].pc = "probing"
  /\ Answered(t)
  /\ LET k == task[t]  n == k.ns  rec == store[n] IN
     \/ rec = None /\ UNCHANGED store
     \/ /\ rec # None
        /\ k.old # None /\ k.new # k.old
        /\ Put(n, Observed(RuntimeFailed(rec, Live(n)), "stale", Live(n)))
     \/ /\ rec # None
        /\ k.old = None \/ k.new = k.old
        /\ Put(n, Observed(rec, "healthy", Live(n)))
  /\ Return(t)
  /\ UNCHANGED <<cached, previous, lockOf, transportVars, boot>>

ProbeFailedUnrecorded(n) == store[n]   \* mutation: the failure is not written down

ProbeFailedRecord(n) ==
  IF store[n] = None THEN None
  ELSE Observed(RuntimeFailed(store[n], Live(n)), "failed", Live(n))

(* A failed probe takes down whatever runtime is mounted now. *)
HealthFailed(t) ==
  /\ task[t].pc = "probing"
  /\ Broken(t)
  /\ LET n == task[t].ns IN
     \/ /\ mounted[n] = None
        /\ Put(n, ProbeFailedRecord(n))
        /\ Return(t)
        /\ UNCHANGED <<cached, previous, lockOf, transportVars, boot>>
     \/ /\ mounted[n] # None
        /\ Disconnect(t, n, task[t])
        /\ UNCHANGED <<fileVars, lockVars, inFlight, boot>>

HealthClosed(t) ==
  /\ Closed(t)
  /\ task[t].op = "health"
  /\ Put(task[t].ns, ProbeFailedRecord(task[t].ns))
  /\ Return(t)
  /\ UNCHANGED <<cached, previous, lockOf, transportVars, boot>>

-----------------------------------------------------------------------------
(* clear_stale_toolsets, mark_toolset_stale *)

ClearStale(t) ==
  /\ Entering(t, "clear_stale")
  /\ LET n == task[t].ns IN
     /\ store[n] # None
     /\ NeedsClearing(store[n])
     /\ Put(n, StaleCleared(store[n], Live(n)))
  /\ Return(t)
  /\ UNCHANGED <<cached, previous, lockOf, transportVars, boot>>

MarkStale(t) ==
  /\ Entering(t, "mark_stale")
  /\ store[task[t].ns] # None
  /\ Put(task[t].ns, MarkedStale(store[task[t].ns]))
  /\ Return(t)
  /\ UNCHANGED <<cached, previous, lockOf, transportVars, boot>>

-----------------------------------------------------------------------------
(* call_mounted_tool: the namespace lock is held only to count the call in, *)
(* and again to count it out; the call itself runs without it.              *)

CallSend(t) ==
  /\ Entering(t, "call")
  /\ LET n == task[t].ns IN
     /\ Resolves(n, task[t].tool)
     /\ inFlight' = [inFlight EXCEPT ![n] = @ + 1]
     /\ runtime' = Enqueued(mounted[n], t)
     /\ task' = [task EXCEPT ![t] = [@ EXCEPT !.pc = "calling", !.rt = mounted[n]]]
  /\ Release(t)
  /\ UNCHANGED <<fileVars, lockOf, mounted, boot>>

(* The finally block waits for the namespace lock. *)
Finishing(t) ==
  /\ task' = [task EXCEPT ![t] =
                [@ EXCEPT !.pc = "finishing", !.rt = None, !.sig = None]]
  /\ Acquire(t, task[t].ns)

CallAnswered(t) ==
  /\ task[t].pc = "calling"
  /\ Answered(t)
  /\ Finishing(t)
  /\ UNCHANGED <<fileVars, transportVars, boot>>

FailureRecorded(n) ==
  IF store[n] = None THEN None ELSE RuntimeFailed(store[n], Live(n))

(* A failed call takes down whatever runtime is mounted now, without the    *)
(* lock, and records the failure in whatever record is stored by then.      *)
CallFailed(t) ==
  /\ task[t].pc = "calling"
  /\ Broken(t)
  /\ LET n == task[t].ns IN
     \/ /\ mounted[n] = None
        /\ Put(n, FailureRecorded(n))
        /\ Finishing(t)
        /\ UNCHANGED <<cached, previous, transportVars, boot>>
     \/ /\ mounted[n] # None
        /\ Disconnect(t, n, task[t])
        /\ UNCHANGED <<fileVars, lockVars, inFlight, boot>>

(* mutation: the failing call is not counted out *)
CallClosedUncounted(t) ==
  /\ task[t].op = "call"
  /\ \/ Closed(t) /\ Put(task[t].ns, FailureRecorded(task[t].ns))
     \/ CloseRaised(t) /\ UNCHANGED store
  /\ task' = [task EXCEPT ![t] = Idle]
  /\ UNCHANGED <<cached, previous, lockVars, transportVars, boot>>

CallClosed(t) ==
  /\ task[t].op = "call"
  /\ \/ Closed(t) /\ Put(task[t].ns, FailureRecorded(task[t].ns))
     \/ CloseRaised(t) /\ UNCHANGED store
  /\ Finishing(t)
  /\ UNCHANGED <<cached, previous, transportVars, boot>>

(* note_call_finished *)
CallFinish(t) ==
  /\ task[t].pc = "finishing"
  /\ HasLock(t)
  /\ inFlight' = [inFlight EXCEPT ![task[t].ns] = IF @ = 0 THEN 0 ELSE @ - 1]
  /\ Return(t)
  /\ UNCHANGED <<fileVars, lockOf, mounted, runtime, boot>>

-----------------------------------------------------------------------------
(* The process dies and a new service starts on the state file it finds.    *)

Rebooted(n, rec) ==
  IF rec # None THEN Reconciled(rec)
  ELSE IF n \in Seeded THEN NewRecord(DefaultPolicy) ELSE None

(* Nothing is left of what was only in memory. *)
ProcessGone ==
  /\ lockOf' = [n \in Namespace |-> None]
  /\ lockq' = [l \in Lock |-> <<>>]
  /\ mounted' = [n \in Namespace |-> None]
  /\ runtime' = [r \in Runtime |-> Down]
  /\ inFlight' = [n \in Namespace |-> 0]
  /\ task' = [t \in Task |-> Idle]

Reboot(found) ==
  /\ store' = [n \in Namespace |-> Rebooted(n, found[n])]
  /\ boot' = {n \in Namespace : /\ RestoreAtBoot
                                /\ store'[n] # None
                                /\ store'[n].recoverable_scopes # {}}
  /\ ProcessGone

(* The process dies between two stretches. *)
Restart ==
  /\ "restart" \in Fault
  /\ Reboot(store)
  /\ UNCHANGED <<cached, previous>>

(* It dies inside a stretch that writes the state file more than once:      *)
(* upsert_toolset is done, replace_schema_snapshot is not;                  *)
InstallCut(t) ==
  /\ \E i \in Inventory :
       /\ \/ task[t].pc = "opening" /\ mounted[task[t].ns] = None
          \/ Closed(t) /\ Swapping(t) /\ i = task[t].new
       /\ Reboot([store EXCEPT ![task[t].ns] = Installed(task[t], i)])
  /\ UNCHANGED <<cached, previous>>

(* one snapshot is deleted, or both, and the record is not;                 *)
ForgetCut(t) ==
  /\ LET n == task[t].ns IN
     /\ \/ Closed(t) /\ task[t].op = "unregister"
        \/ /\ Entering(t, "unregister")
           /\ store[n] # None
           /\ store[n].loaded_scopes = {} \/ (MayUnload(n, FALSE) /\ mounted[n] = None)
     /\ cached' = [cached EXCEPT ![n] = None]
     /\ previous' \in {previous, [previous EXCEPT ![n] = None]}
  /\ Reboot(store)

(* the failure of a health check is recorded, its observation is not.       *)
FailureCut(t) ==
  /\ LET n == task[t].ns IN
     /\ \/ /\ Entering(t, "health")
           /\ store[n] # None
           /\ store[n].loaded_scopes # {}
           /\ ~Live(n)
        \/ task[t].pc = "probing" /\ Broken(t) /\ mounted[n] = None
        \/ task[t].pc = "probing" /\ Answered(t) /\ task[t].old \notin {None, task[t].new}
        \/ Closed(t) /\ task[t].op = "health"
     /\ store[n] # None
     /\ Reboot([store EXCEPT ![n] = RuntimeFailed(store[n], Live(n))])
  /\ UNCHANGED <<cached, previous>>

Crash(t) ==
  /\ "crash" \in Fault
  /\ InstallCut(t) \/ ForgetCut(t) \/ FailureCut(t)

Init ==
  /\ store = [n \in Namespace |->
                IF n \in Seeded THEN NewRecord(DefaultPolicy) ELSE None]
  /\ cached = [n \in Namespace |-> None]
  /\ previous = [n \in Namespace |-> None]
  /\ lockOf = [n \in Namespace |-> None]
  /\ lockq = [l \in Lock |-> <<>>]
  /\ mounted = [n \in Namespace |-> None]
  /\ runtime = [r \in Runtime |-> Down]
  /\ inFlight = [n \in Namespace |-> 0]
  /\ boot = {}
  /\ task = [t \in Task |-> Idle]

(* A request's section under the lock, from its first stretch to its last. *)
Section(t) ==
  \/ Refuse(t)
  \/ Register(t)
  \/ Unregister(t) \/ UnregisterClosed(t)
  \/ ActivateReuse(t) \/ Activate(t)
  \/ RestoreSkip(t) \/ RestoreReuse(t) \/ Restore(t)
  \/ Refresh(t)
  \/ Opened(t) \/ SwapClosed(t) \/ OpenFailed(t)
  \/ Deactivate(t) \/ DeactivateClosed(t) \/ DisconnectRaised(t)
  \/ HealthMissing(t) \/ HealthProbe(t)
  \/ HealthProbed(t) \/ HealthFailed(t) \/ HealthClosed(t)
  \/ ClearStale(t) \/ MarkStale(t)

Call(t) ==
  CallSend(t) \/ CallAnswered(t) \/ CallFailed(t) \/ CallClosed(t) \/ CallFinish(t)

Next ==
  \/ \E r \in Runtime : Serve(r) \/ Unwind(r) \/ Die(r)
  \/ \E t \in Task : Request(t) \/ BootRestore(t) \/ Section(t) \/ Call(t) \/ TimeOut(t)
  \/ Restart \/ \E t \in Task : Crash(t)

Spec == Init /\ [][Next]_vars

(* Coroutines are resumed when what they wait for has come, cancelled       *)
(* actors unwind, and timers expire: open_runtime's as OpenFailed, the      *)
(* others as TimeOut.  That a downstream server ever answers is not assumed.*)
Fairness ==
  /\ \A t \in Task : WF_vars(BootRestore(t) \/ Section(t) \/ Call(t) \/ TimeOut(t))
  /\ \A r \in Runtime : WF_vars(Unwind(r))

FairSpec == Spec /\ Fairness
=============================================================================
