----------------------------- MODULE StateStore -----------------------------
(***************************************************************************)
(* The files of toolbox/registry.py and toolbox/transport_secrets.py: the  *)
(* state file, the temporary file it is replaced from, and the key that    *)
(* seals the transports in it.  Every store operation loads the whole      *)
(* document, changes it and writes it back; the service makes several of   *)
(* them in a row for one change of its own.  The process may crash between *)
(* any two accesses to a file, and starts again on what it left.           *)
(*                                                                         *)
(* Lifecycle.tla sees each such row of operations as one step, or as one   *)
(* that a crash cuts (Crash there).                                        *)
(***************************************************************************)
EXTENDS Naturals, Sequences

CONSTANTS
  None,
  Torn,             \* the content of a file that was truncated, not yet filled
  Namespace,
  Seeded,           \* the namespaces _bootstrap_defaults registers
  Contract,         \* schema hashes
  RetentionLimit,   \* audit_retention_limit
  MaxEvents,        \* bound: events appended in one history
  MaxCrashes        \* bound: crashes in one history

ASSUME SeededAssumption == Seeded \subseteq Namespace
ASSUME RetentionAssumption == RetentionLimit \in Nat \ {0}
ASSUME BoundAssumption == MaxEvents \in Nat /\ MaxCrashes \in Nat

VARIABLES
  file,     \* the state file: a document, or None
  temp,     \* the temporary file: a document, Torn or None
  key,      \* the key file: "absent", "torn", "whole", or "strange" to the file
  up,       \* the service has been constructed
  step,     \* where the process stands
  todo,     \* the store operations the service has still to make, in a row
  draft,    \* the document being written
  crashes

files == <<file, temp, key>>
procVars == <<up, crashes>>
vars == <<files, procVars, step, todo, draft>>

Version == 2

(* A record: how its transport stands in the file ("bare" without arguments *)
(* and environment), its hashes, and whether a restart must reset it.       *)
StoredRecord ==
  [ transport : {"bare", "plain", "sealed"},
    hash      : Contract \cup {None},
    previous  : Contract \cup {None},
    active    : BOOLEAN ]

AuditKind == {"register", "activate", "unregister", "other"}
Event == [kind : AuditKind, ns : Namespace]

Document ==
  [ version  : {1, Version},
    toolsets : [Namespace -> StoredRecord \cup {None}],
    cache    : [Namespace -> Contract \cup {None}],
    previous : [Namespace -> Contract \cup {None}],
    next     : Nat,
    log      : Seq([sequence : Nat, event : Event]) ]

ASSUME ContentAssumption ==
  /\ None # Torn /\ None \notin StoredRecord
  /\ None \notin Document /\ Torn \notin Document

EmptyDocument ==
  [ version  |-> Version,
    toolsets |-> [n \in Namespace |-> None],
    cache    |-> [n \in Namespace |-> None],
    previous |-> [n \in Namespace |-> None],
    next     |-> 1,
    log      |-> <<>> ]

-----------------------------------------------------------------------------
(* TransportSecretManager *)

Registered(d) == {n \in Namespace : d.toolsets[n] # None}
Carrying(d, form) == {n \in Registered(d) : d.toolsets[n].transport = form}

(* protect_transport, on every record of a document that is written *)
Sealed(d) ==
  [d EXCEPT !.version = Version,
            !.toolsets = [n \in Namespace |->
                            IF n \in Carrying(d, "plain")
                            THEN [d.toolsets[n] EXCEPT !.transport = "sealed"]
                            ELSE d.toolsets[n]]]

NeedsMigrationByVersion(d) == d.version # Version   \* mutation: transports are not looked at

(* _restore_payload's second result *)
NeedsMigration(d) == d.version # Version \/ Carrying(d, "plain") # {}

(* _load_or_create_key is called for every transport sealed or opened. *)
UsesKey(d) == Carrying(d, "sealed") # {}

-----------------------------------------------------------------------------
(* The store operations, as changes of the document. *)

Upserted(d, n, rec) == [d EXCEPT !.toolsets[n] = rec]

(* replace_schema_snapshot *)
Replaced(d, n, h) ==
  [d EXCEPT !.previous[n] = IF d.cache[n] = None THEN @ ELSE d.cache[n],
            !.cache[n] = h]

(* mutation: one event more than the limit is kept *)
LoggedOver(d, e) ==
  LET log == Append(d.log, [sequence |-> d.next, event |-> e]) IN
  [d EXCEPT !.next = @ + 1,
            !.log = IF Len(log) > RetentionLimit + 1 THEN Tail(log) ELSE log]

(* append_audit_event *)
Logged(d, e) ==
  LET log == Append(d.log, [sequence |-> d.next, event |-> e]) IN
  [d EXCEPT !.next = @ + 1,
            !.log = IF Len(log) > RetentionLimit
                    THEN SubSeq(log, Len(log) - RetentionLimit + 1, Len(log)) ELSE log]

(* An operation is its kind, its namespace and one argument. *)
Do(kind, n, arg) == [kind |-> kind, ns |-> n, arg |-> arg]

Applied(d, op) ==
  CASE op.kind = "upsert"          -> Upserted(d, op.ns, op.arg)
    [] op.kind = "replace"         -> Replaced(d, op.ns, op.arg)
    [] op.kind = "delete_snapshot" -> [d EXCEPT !.cache[op.ns] = None]
    [] op.kind = "delete_previous" -> [d EXCEPT !.previous[op.ns] = None]
    [] op.kind = "delete_toolset"  -> [d EXCEPT !.toolsets[op.ns] = None]
    [] op.kind = "audit"           -> Logged(d, [kind |-> op.arg, ns |-> op.ns])

NewRecord(form) ==
  [transport |-> form, hash |-> None, previous |-> None, active |-> FALSE]

-----------------------------------------------------------------------------
(* One operation: load, change, write.  What raises fails the request, or   *)
(* the start of the process.                                                *)

Raised == IF up THEN "idle" ELSE "halted"

Raise ==
  /\ step' = Raised
  /\ todo' = <<>>
  /\ UNCHANGED <<files, draft, procVars>>

KeyUnwritten(d) == "write"   \* mutation: a new key is kept in memory only

(* A document that seals transports needs the key before it is written. *)
KeyFirst(d) == IF UsesKey(d) /\ key = "absent" THEN "new_key" ELSE "write"

Write(d) ==
  /\ draft' = Sealed(d)
  /\ step' = KeyFirst(Sealed(d))
  /\ UNCHANGED <<files, procVars>>

(* Only the key that sealed a transport opens it; any whole key seals one,  *)
(* and one that is absent is created for it.                                *)
CanOpen(d) == UsesKey(d) => key = "whole"
CanSeal(d) == UsesKey(d) => key # "torn"

Loading == step = "load" /\ CanOpen(file)
Outdated == Loading /\ NeedsMigration(file)
Loaded == Loading /\ ~NeedsMigration(file)
After(ops) == IF ops = <<>> THEN "idle" ELSE "load"

(* An outdated file is written back before anything is done with it. *)
Migrate == Outdated /\ CanSeal(Sealed(file)) /\ Write(file) /\ UNCHANGED todo

Read ==
  /\ Loaded
  /\ Head(todo).kind = "read"
  /\ step' = After(Tail(todo))
  /\ todo' = Tail(todo)
  /\ UNCHANGED <<files, draft, procVars>>

Mutate ==
  /\ Loaded
  /\ Head(todo).kind # "read"
  /\ LET d == Applied(file, Head(todo)) IN
     \/ CanSeal(Sealed(d)) /\ Write(d) /\ todo' = Tail(todo)
     \/ ~CanSeal(Sealed(d)) /\ Raise

(* A load that finds sealed transports and no key creates one first. *)
LoadRaises ==
  /\ step = "load"
  /\ ~CanOpen(file) \/ (Outdated /\ ~CanSeal(Sealed(file)))
  /\ step' = IF UsesKey(file) /\ key = "absent" THEN "new_key" ELSE Raised
  /\ todo' = <<>>
  /\ UNCHANGED <<files, draft, procVars>>

(* write_bytes truncates the key file, then fills it.  A key that was not   *)
(* created to seal a draft does not open what the file has sealed.          *)
CreateKey ==
  /\ \/ step = "new_key" /\ key' = "torn" /\ step' = "fill_key"
     \/ /\ step = "fill_key"
        /\ key' = IF draft = None THEN "strange" ELSE "whole"
        /\ step' = IF draft = None THEN Raised ELSE "write"
  /\ UNCHANGED <<file, temp, todo, draft, procVars>>

(* mutation: the state file itself is truncated and filled *)
WriteInPlace ==
  /\ \/ step = "write" /\ file' = Torn /\ step' = "fill" /\ temp' = draft
     \/ step = "fill" /\ file' = draft /\ step' = "replace" /\ temp' = draft
  /\ UNCHANGED <<key, todo, draft, procVars>>

(* write_text truncates the temporary file, then fills it. *)
WriteTemp ==
  /\ \/ step = "write" /\ temp' = Torn /\ step' = "fill"
     \/ step = "fill" /\ temp' = draft /\ step' = "replace"
  /\ UNCHANGED <<file, key, todo, draft, procVars>>

(* os.replace *)
Replace ==
  /\ step = "replace"
  /\ file' = temp
  /\ temp' = None
  /\ draft' = None
  /\ step' = After(todo)
  /\ UNCHANGED <<key, todo, procVars>>

-----------------------------------------------------------------------------
(* ToolboxService.__init__: the file is created and seeded, and what was    *)
(* active is reset.                                                         *)

Row(ops) ==
  /\ todo' = ops
  /\ step' = "load"
  /\ UNCHANGED <<files, draft, procVars>>

Ensure ==
  /\ step = "boot"
  /\ file = None
  /\ Write(EmptyDocument)
  /\ todo' = <<Do("read", None, None)>>

Boot ==
  /\ step = "boot"
  /\ file # None
  /\ Row(<<Do("read", None, None)>>)

Unseeded == Seeded \ Registered(file)
Unreconciled == {n \in Registered(file) : file.toolsets[n].active}

Construct ==
  /\ ~up /\ step = "idle"
  /\ \/ \E n \in Unseeded : Row(<<Do("upsert", n, NewRecord("plain"))>>)
     \/ /\ Unseeded = {}
        /\ \E n \in Unreconciled :
             Row(<<Do("upsert", n, [file.toolsets[n] EXCEPT !.active = FALSE])>>)
     \/ /\ Unseeded \cup Unreconciled = {}
        /\ up' = TRUE
        /\ UNCHANGED <<files, step, todo, draft, crashes>>

Crash ==
  /\ crashes < MaxCrashes
  /\ crashes' = crashes + 1
  /\ up' = FALSE
  /\ step' = "boot"
  /\ todo' = <<>>
  /\ draft' = None
  /\ UNCHANGED files

-----------------------------------------------------------------------------
(* The rows of operations of the service's requests, each undisturbed by    *)
(* other requests: there is no await within one.                            *)

Begins == up /\ step = "idle" /\ file.next < MaxEvents

(* mutation: the event is written before the record *)
RegisterAnnounced ==
  /\ Begins
  /\ \E n \in Namespace \ Registered(file), form \in {"bare", "plain"} :
       Row(<<Do("audit", n, "register"), Do("upsert", n, NewRecord(form))>>)

Register ==
  /\ Begins
  /\ \E n \in Namespace \ Registered(file), form \in {"bare", "plain"} :
       Row(<<Do("upsert", n, NewRecord(form)), Do("audit", n, "register")>>)

(* Before a runtime is opened the record says "connecting". *)
Connect ==
  /\ Begins
  /\ \E n \in Registered(file) :
       /\ ~file.toolsets[n].active
       /\ Row(<<Do("upsert", n, [file.toolsets[n] EXCEPT !.active = TRUE])>>)

(* A new runtime is mounted: activate, restore, refresh. *)
Install ==
  /\ Begins
  /\ \E n \in Unreconciled, h \in Contract :
       LET rec == file.toolsets[n] IN
       Row(<<Do("upsert", n, [rec EXCEPT !.hash = h, !.previous = rec.hash]),
             Do("replace", n, h),
             Do("audit", n, "activate")>>)

(* Every other outcome writes a record and an event, or the event alone. *)
Note ==
  /\ Begins
  /\ \/ \E n \in Namespace : Row(<<Do("audit", n, "other")>>)
     \/ \E n \in Registered(file), b \in BOOLEAN :
          Row(<<Do("upsert", n, [file.toolsets[n] EXCEPT !.active = b]),
                Do("audit", n, "other")>>)

(* mutation: the record goes first *)
UnregisterRecordFirst ==
  /\ Begins
  /\ \E n \in Registered(file) :
       Row(<<Do("delete_toolset", n, None), Do("delete_snapshot", n, None),
             Do("delete_previous", n, None), Do("audit", n, "unregister")>>)

Unregister ==
  /\ Begins
  /\ \E n \in Registered(file) :
       Row(<<Do("delete_snapshot", n, None), Do("delete_previous", n, None),
             Do("delete_toolset", n, None), Do("audit", n, "unregister")>>)

-----------------------------------------------------------------------------
(* A state file of an earlier version, or one a user has edited. *)
OldDocument(v, plain) ==
  [EmptyDocument EXCEPT
     !.version = v,
     !.toolsets = [n \in Namespace |-> IF n \in plain THEN NewRecord("plain") ELSE None]]

Init ==
  /\ \/ file = None
     \/ \E v \in {1, Version}, plain \in SUBSET Namespace : file = OldDocument(v, plain)
  /\ temp = None
  /\ key = "absent"
  /\ up = FALSE
  /\ step = "boot"
  /\ todo = <<>>
  /\ draft = None
  /\ crashes = 0

Operation == Migrate \/ Read \/ Mutate \/ LoadRaises \/ CreateKey \/ WriteTemp \/ Replace
Request == Register \/ Connect \/ Install \/ Note \/ Unregister

Next == Ensure \/ Boot \/ Construct \/ Operation \/ Request \/ Crash

Spec == Init /\ [][Next]_vars
=============================================================================
