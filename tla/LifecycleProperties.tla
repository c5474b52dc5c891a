------------------------ MODULE LifecycleProperties -------------------------
(***************************************************************************)
(* What the toolset lifecycle should guarantee.  Lifecycle.tla is the      *)
(* program; the .cfg files say under which operations and faults each      *)
(* property is checked.                                                    *)
(***************************************************************************)
EXTENDS Lifecycle

(* A coroutine's fields have the values its place in its request allows.   *)
TaskState ==
  [ pc    : {"idle", "entering", "opening", "closing", "probing", "calling", "finishing"},
    op    : Operation \cup {"boot_restore", None},
    ns    : Namespace \cup {None},
    tool  : Tool \cup {None},
    force : BOOLEAN,
    grant : SUBSET Scope,
    rec   : ToolsetRecord \cup {None},
    old   : Inventory \cup {None},
    new   : Inventory \cup {None},
    rt    : Runtime \cup {None},
    sig   : {"ok", "error", "timeout", None} ]

RuntimeState ==
  [ state : {"down", "up", "closing", "aborting"},
    tools : Inventory \cup {{}},
    queue : Seq(Task) ]

(* Every variable has its type. *)
TypeOK ==
  /\ store \in [Namespace -> ToolsetRecord \cup {None}]
  /\ cached \in [Namespace -> Inventory \cup {None}]
  /\ previous \in [Namespace -> Inventory \cup {None}]
  /\ lockOf \in [Namespace -> Lock \cup {None}]
  /\ lockq \in [Lock -> Seq(Task)]
  /\ mounted \in [Namespace -> Runtime \cup {None}]
  /\ runtime \in [Runtime -> RuntimeState]
  /\ inFlight \in [Namespace -> Nat]
  /\ boot \subseteq Namespace
  /\ task \in [Task -> TaskState]

-----------------------------------------------------------------------------
(* No request is inside the lock of this namespace. *)
Unlocked(n) == \A t \in Task : task[t].ns = n => ~HasLock(t)

(* No request names this namespace: what is seen is what it is left with. *)
AtRest(n) == \A t \in Task : task[t].ns # n

(* The state file can always be loaded again: every record in it, and every *)
(* copy a coroutine will write back after an await, passes the validator    *)
(* that JsonStateStore.load runs over the whole file.                       *)
StoreLoadable ==
  /\ \A n \in Namespace : store[n] # None => ValidScopePolicy(store[n])
  /\ \A t \in Task : task[t].rec # None => ValidScopePolicy(task[t].rec)

(* The counter that guards deactivation counts exactly the calls that have  *)
(* been counted in and not yet out, whatever order they fail and finish in. *)
InFlightExact ==
  \A n \in Namespace :
    inFlight[n] = Cardinality({t \in Task : /\ task[t].ns = n
                                            /\ task[t].op = "call"
                                            /\ task[t].pc \notin {"idle", "entering"}})

(* Two requests are never inside the locked section of one namespace.       *)
MutualExclusion ==
  \A t, u \in Task :
    t # u /\ HasLock(t) /\ HasLock(u) => task[t].ns # task[u].ns

(* Two activations never open runtimes for one namespace at the same time.  *)
OneOpening ==
  \A t, u \in Task :
    t # u /\ task[t].pc = "opening" /\ task[u].pc = "opening"
      => task[t].ns # task[u].ns

(* A call waits only in the queue of a runtime that has the tool it names,  *)
(* though the tool was resolved before the wait for the lock.               *)
CallRouted ==
  \A r \in Runtime : \A i \in DOMAIN runtime[r].queue :
    LET k == task[runtime[r].queue[i]] IN
    k.pc = "calling" => k.tool \in runtime[r].tools

(* A deactivation without force, and any unregistration, never closes a     *)
(* runtime that a call is still waiting on.                                 *)
SafeUnload ==
  \A t, c \in Task :
    ~ /\ task[t].pc = "closing"
      /\ task[t].op = "unregister" \/ (task[t].op = "deactivate" /\ ~task[t].force)
      /\ task[c].pc = "calling"
      /\ task[c].rt = task[t].rt

(* No request waits for an answer of an actor that has ended.               *)
EndedRuntimesAnswer ==
  \A t \in Task :
    task[t].pc \in {"calling", "probing", "closing"} /\ task[t].sig = None
      => runtime[task[t].rt] # Down

(* No downstream process is lost: an actor that has not ended is mounted,   *)
(* or a coroutine is waiting for its end.                                   *)
RuntimesOwned ==
  \A r \in Runtime :
    runtime[r] # Down =>
      \/ \E n \in Namespace : mounted[n] = r
      \/ \E t \in Task : task[t].rt = r

(* Outside the locked sections a runtime is mounted only for a registered   *)
(* toolset that has a loaded scope.                                         *)
MountedMeansLoaded ==
  \A n \in Namespace :
    mounted[n] # None /\ Unlocked(n) => store[n] # None /\ store[n].loaded_scopes # {}

(* Between requests a record that says "connected" has a mounted runtime.   *)
ConnectedMeansMounted ==
  \A n \in Namespace :
    store[n] # None /\ store[n].transport_state = "connected" /\ AtRest(n)
      => mounted[n] # None

(* While a runtime is mounted, the record names the contract in the cache:  *)
(* what an interrupted activation or refresh left is never what is served.  *)
MountedIsNamed ==
  \A n \in Namespace :
    mounted[n] # None /\ Unlocked(n) => /\ cached[n] # None
                                        /\ store[n].schema_hash = cached[n]

(* Between requests the mounted tools are those of the cached contract.     *)
MountedMatchesCached ==
  \A n \in Namespace : Live(n) /\ AtRest(n) => runtime[mounted[n]].tools = cached[n]

-----------------------------------------------------------------------------
(* The record's hashes name the two snapshots. *)
NamesSnapshots(n) ==
  store[n] # None => /\ store[n].schema_hash = cached[n]
                     /\ store[n].previous_schema_hash = previous[n]

Crashes(n) == \E t \in Task : task[t].ns = n /\ Crash(t)

(* A refresh has mounted its runtime and writes what it learnt. *)
Refreshes(n) ==
  \E t \in Task :
    /\ task[t].ns = n
    /\ task[t].op = "refresh"
    /\ SwapClosed(t) \/ (Opened(t) /\ mounted[n] = None)

(* Whatever requests interleave, hashes and snapshots come apart only when  *)
(* the process dies between the writes of the record and of its snapshot,   *)
(* and any refresh that completes afterwards brings them together again.    *)
HashesNameSnapshots ==
  /\ \A n \in Namespace : NamesSnapshots(n)
  /\ [][\A n \in Namespace :
          NamesSnapshots(n) \/ Refreshes(n) => NamesSnapshots(n)' \/ Crashes(n)]_vars

(* While startup restores, before any request is served, it loads only      *)
(* recoverable scopes of toolsets whose policy lets startup ask.            *)
BootWidensNothing ==
  [][~Serving =>
       \A n \in Namespace :
         store[n] # None /\ store'[n] # None =>
           LET rec == store[n]
               restored == store'[n].loaded_scopes \ rec.loaded_scopes
           IN  restored # {} =>
                 /\ restored \subseteq rec.recoverable_scopes
                 /\ ~rec.policy.restore_requires_explicit_request
                 /\ rec.policy.restore_requires_identity => StableIdentity]_vars

(* A new process forgets no restorable scope, whatever was under way when   *)
(* the old one ended, and loads none by itself.                             *)
RestartKeepsRestorable ==
  [][Restart \/ (\E t \in Task : Crash(t)) =>
       \A n \in Namespace :
         store[n] # None =>
           /\ store'[n].loaded_scopes = {}
           /\ store[n].loaded_scopes \cap store[n].policy.restorable_scopes
                \subseteq store'[n].recoverable_scopes]_vars

(* The scopes of every record change as ScopeRegistry promises, though       *)
(* requests write back copies they read before an await.                    *)
Registered(rec) ==
  [ policy      |-> rec.policy,
    loaded      |-> rec.loaded_scopes,
    recoverable |-> rec.recoverable_scopes ]

ASSUME EntryAssumption ==
  None \notin [policy : Policy, loaded : SUBSET Scope, recoverable : SUBSET Scope]

Registry ==
  [n \in Namespace |-> IF store[n] = None THEN None ELSE Registered(store[n])]

Scopes == INSTANCE ScopeRegistry WITH reg <- Registry

ScopesAsPromised == Scopes!Spec

(* Every runtime that is being closed ends.                                 *)
ClosedRuntimesEnd ==
  \A r \in Runtime :
    runtime[r].state \in {"closing", "aborting"} ~> runtime[r] = Down
=============================================================================
