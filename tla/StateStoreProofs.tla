-------------------------- MODULE StateStoreProofs --------------------------
(***************************************************************************)
(* The files of StateStore, for every set of namespaces and contracts and  *)
(* every retention limit, wherever the process crashes.                    *)
(*                                                                         *)
(* The invariant follows a row of store operations: whatever is left of it *)
(* to do fits the document it will be done to, which is the state file     *)
(* while the process loads and the draft while it writes; and the log of   *)
(* the draft is that of the state file, or has one event more.             *)
(***************************************************************************)
EXTENDS StateStoreProperties, SequenceTheorems, TLAPS

-----------------------------------------------------------------------------
(* Documents *)

Clean(d) == Carrying(d, "plain") = {} /\ d.version = Version

Owned(d) ==
  \A n \in Namespace :
    d.cache[n] # None \/ d.previous[n] # None => d.toolsets[n] # None

Sound(d) == d \in Document /\ Owned(d) /\ Len(d.log) <= RetentionLimit

(* What a row has yet to do, and what the document must be like for it. *)
Fits(ops, d) ==
  \/ ops = <<>>
  \/ ops = <<Do("read", None, None)>>
  \/ \E n \in Namespace, rec \in StoredRecord :
       \/ ops = <<Do("upsert", n, rec)>>
       \/ \E k \in {"register", "other"} : ops = <<Do("upsert", n, rec), Do("audit", n, k)>>
       \/ \E h \in Contract :
            /\ rec.hash = h
            /\ ops = <<Do("upsert", n, rec), Do("replace", n, h), Do("audit", n, "activate")>>
  \/ \E n \in Namespace :
       \/ ops = <<Do("audit", n, "other")>>
       \/ ops = <<Do("audit", n, "register")>> /\ n \in Registered(d)
       \/ \E h \in Contract :
            /\ n \in Registered(d) /\ d.toolsets[n].hash = h
            /\ ops = <<Do("replace", n, h), Do("audit", n, "activate")>>
       \/ /\ n \in Registered(d) /\ d.toolsets[n].hash = d.cache[n]
          /\ ops = <<Do("audit", n, "activate")>>
       \/ ops = <<Do("delete_snapshot", n, None), Do("delete_previous", n, None),
                  Do("delete_toolset", n, None), Do("audit", n, "unregister")>>
       \/ /\ d.cache[n] = None
          /\ ops = <<Do("delete_previous", n, None), Do("delete_toolset", n, None),
                     Do("audit", n, "unregister")>>
       \/ /\ d.cache[n] = None /\ d.previous[n] = None
          /\ ops = <<Do("delete_toolset", n, None), Do("audit", n, "unregister")>>
       \/ /\ d.cache[n] = None /\ d.previous[n] = None /\ n \notin Registered(d)
          /\ ops = <<Do("audit", n, "unregister")>>

(* The log of d2 is that of d1, or has one event more. *)
SameLog(d1, d2) == d2.next = d1.next /\ d2.log = d1.log

Logs(d1, d2) ==
  \E e \in Event :
    d2.next = Logged(d1, e).next /\ d2.log = Logged(d1, e).log /\ Shows(d2, e)

Follows(d) ==
  IF file = None THEN SameLog(EmptyDocument, d) ELSE SameLog(file, d) \/ Logs(file, d)

-----------------------------------------------------------------------------
(* The invariant *)

Writing == step \in {"new_key", "fill_key", "write", "fill", "replace"}

FileInv ==
  /\ file # None => Sound(file) /\ (UsesKey(file) => key = "whole")
  /\ temp \notin {Torn, None} => temp \in Document /\ Clean(temp)
  /\ key \in {"absent", "torn", "whole"}

StepInv ==
  /\ step \in {"boot", "idle", "load", "halted"} \/ Writing
  /\ up \in BOOLEAN /\ crashes \in 0 .. MaxCrashes
  /\ up \/ step = "idle" => file # None /\ Clean(file)
  /\ step \in {"boot", "idle", "halted"} => todo = <<>>
  /\ step = "halted" => key = "torn"
  /\ step = "load" => file # None /\ todo # <<>> /\ Fits(todo, file)

DraftInv ==
  /\ ~Writing => draft = None
  /\ Writing =>
       /\ draft # None /\ Sound(draft) /\ Clean(draft)
       /\ Fits(todo, draft) /\ Follows(draft)
  /\ step = "new_key" => key = "absent"
  /\ step = "fill_key" => key = "torn"
  /\ step \in {"write", "fill", "replace"} => (UsesKey(draft) => key = "whole")
  /\ step = "replace" => temp = draft

IInv == FileInv /\ StepInv /\ DraftInv

-----------------------------------------------------------------------------
(* Lemmas about the operations on documents *)

LEMMA DocumentFields ==
  ASSUME NEW d \in Document
  PROVE  /\ d.toolsets \in [Namespace -> StoredRecord \cup {None}]
         /\ d.cache \in [Namespace -> Contract \cup {None}]
         /\ d.previous \in [Namespace -> Contract \cup {None}]
         /\ d.next \in Nat
         /\ d.log \in Seq([sequence : Nat, event : Event])
         /\ d # None /\ d # Torn
         /\ Registered(d) \subseteq Namespace
         /\ \A n \in Registered(d) : d.toolsets[n] \in StoredRecord
  BY ContentAssumption DEF Document, Registered

LEMMA NewSound == Sound(EmptyDocument)
  <1>1. EmptyDocument \in Document
    BY DEF EmptyDocument, Document, Version
  <1> QED BY <1>1, RetentionAssumption DEF Sound, Owned, EmptyDocument

(* Sealing changes neither the registration, the hashes nor the log. *)
LEMMA SealedDocument ==
  ASSUME NEW d \in Document
  PROVE  /\ Sealed(d) \in Document
         /\ Clean(Sealed(d))
         /\ Sealed(d).cache = d.cache /\ Sealed(d).previous = d.previous
         /\ SameLog(d, Sealed(d))
         /\ Registered(Sealed(d)) = Registered(d)
         /\ \A n \in Namespace : d.toolsets[n] = None <=> Sealed(d).toolsets[n] = None
         /\ \A n \in Registered(d) : Sealed(d).toolsets[n].hash = d.toolsets[n].hash
  <1> DEFINE T == [n \in Namespace |-> IF n \in Carrying(d, "plain")
                                       THEN [d.toolsets[n] EXCEPT !.transport = "sealed"]
                                       ELSE d.toolsets[n]]
  <1>1. /\ Sealed(d).toolsets = T /\ Sealed(d).version = Version
        /\ Sealed(d).cache = d.cache /\ Sealed(d).previous = d.previous
        /\ Sealed(d).next = d.next /\ Sealed(d).log = d.log
        /\ Sealed(d) = [ version |-> Version, toolsets |-> T, cache |-> d.cache,
                         previous |-> d.previous, next |-> d.next, log |-> d.log ]
    <2>1. Sealed(d) = [d EXCEPT !.version = Version, !.toolsets = T]
      BY DEF Sealed
    <2> HIDE DEF T
    <2> QED BY <2>1 DEF Document
  <1>2. ASSUME NEW n \in Namespace
        PROVE  /\ T[n] \in StoredRecord \cup {None}
               /\ d.toolsets[n] = None <=> T[n] = None
               /\ n \in Registered(d) => T[n].hash = d.toolsets[n].hash /\ T[n].transport # "plain"
    <2>1. d.toolsets[n] \in StoredRecord \cup {None}
      BY DocumentFields
    <2>2. ASSUME d.toolsets[n] \in StoredRecord
          PROVE  /\ [d.toolsets[n] EXCEPT !.transport = "sealed"] \in StoredRecord
                 /\ [d.toolsets[n] EXCEPT !.transport = "sealed"].hash = d.toolsets[n].hash
                 /\ [d.toolsets[n] EXCEPT !.transport = "sealed"].transport = "sealed"
      BY <2>2 DEF StoredRecord
    <2> QED BY <2>1, <2>2, ContentAssumption DEF Carrying, Registered
  <1> HIDE DEF T
  <1>3. T \in [Namespace -> StoredRecord \cup {None}]
    BY <1>2 DEF T
  <1>4. Sealed(d) \in Document
    BY <1>1, <1>3, DocumentFields DEF Document, Version
  <1>5. Registered(Sealed(d)) = Registered(d)
    BY <1>1, <1>2 DEF Registered
  <1>6. Clean(Sealed(d))
    BY <1>1, <1>2, <1>5 DEF Clean, Carrying, Registered
  <1> QED BY <1>1, <1>2, <1>4, <1>5, <1>6 DEF SameLog, Registered

LEMMA SealedSound ==
  ASSUME NEW d, Sound(d), NEW ops, Fits(ops, d)
  PROVE  Sound(Sealed(d)) /\ Clean(Sealed(d)) /\ Fits(ops, Sealed(d))
  <1>1. d \in Document
    BY DEF Sound
  <1> DEFINE s == Sealed(d)
  <1>2. /\ s \in Document /\ Clean(s)
        /\ s.cache = d.cache /\ s.previous = d.previous /\ s.log = d.log
        /\ Registered(s) = Registered(d)
        /\ \A n \in Namespace : d.toolsets[n] = None <=> s.toolsets[n] = None
        /\ \A n \in Registered(d) : s.toolsets[n].hash = d.toolsets[n].hash
    BY <1>1, SealedDocument DEF SameLog
  <1> HIDE DEF s
  <1>3. Sound(s)
    BY <1>2 DEF Sound, Owned
  <1>4. Fits(ops, s)
    BY <1>2 DEF Fits
  <1> QED BY <1>2, <1>3, <1>4 DEF s

(* The log never outgrows the limit. *)
LEMMA LoggedLog ==
  ASSUME NEW d \in Document, Len(d.log) <= RetentionLimit, NEW e \in Event,
         NEW entry, entry = [sequence |-> d.next, event |-> e]
  PROVE  /\ Logged(d, e).next = d.next + 1
         /\ Logged(d, e).log = IF Len(d.log) < RetentionLimit THEN Append(d.log, entry)
                               ELSE Append(Tail(d.log), entry)
         /\ Logged(d, e).log \in Seq([sequence : Nat, event : Event])
         /\ Len(Logged(d, e).log) <= RetentionLimit
         /\ Logged(d, e).log # <<>>
         /\ Logged(d, e).log[Len(Logged(d, e).log)] = entry
  <1> DEFINE S == [sequence : Nat, event : Event]
  <1>0. PICK log : log = Append(d.log, entry)
    OBVIOUS
  <1>1. d.log \in Seq(S) /\ d.next \in Nat /\ entry \in S
    BY DocumentFields
  <1>2. PICK new : new = Logged(d, e).log
    OBVIOUS
  <1>3. /\ Logged(d, e).next = d.next + 1
        /\ new = IF Len(log) > RetentionLimit
                 THEN SubSeq(log, Len(log) - RetentionLimit + 1, Len(log)) ELSE log
    BY <1>0, <1>2 DEF Logged, Document
  <1> HIDE DEF S
  <1>4. /\ log \in Seq(S) /\ Len(log) = Len(d.log) + 1 /\ log[Len(log)] = entry /\ log # <<>>
        /\ Len(d.log) \in Nat
    BY <1>0, <1>1
  <1>5. /\ new = IF Len(d.log) < RetentionLimit THEN Append(d.log, entry)
                 ELSE Append(Tail(d.log), entry)
        /\ new \in Seq(S) /\ Len(new) <= RetentionLimit /\ new # <<>> /\ new[Len(new)] = entry
    <2>1. CASE Len(d.log) < RetentionLimit
      <3>1. ~(Len(log) > RetentionLimit)
        BY <1>4, <2>1, RetentionAssumption
      <3>2. new = log
        BY <1>3, <3>1
      <3>3. Len(new) <= RetentionLimit
        BY <1>4, <2>1, <3>2, RetentionAssumption
      <3> QED BY <1>0, <1>4, <2>1, <3>2, <3>3
    <2>2. CASE Len(d.log) = RetentionLimit
      <3>1. Len(log) > RetentionLimit /\ Len(log) - RetentionLimit + 1 = 2
        BY <1>4, <2>2, RetentionAssumption
      <3>2. new = SubSeq(log, 2, Len(log))
        BY <1>3, <3>1
      <3>3. d.log # <<>> /\ Tail(d.log) \in Seq(S) /\ Len(Tail(d.log)) = RetentionLimit - 1
        BY <1>1, <2>2, RetentionAssumption
      <3>4. SubSeq(log, 2, Len(log)) = Tail(log)
        BY <1>4, TailIsSubSeq
      <3>5. Tail(log) = Append(Tail(d.log), entry)
        BY <1>0, <1>1, <3>3, HeadTailAppend
      <3>6. new = Append(Tail(d.log), entry)
        BY <3>2, <3>4, <3>5
      <3>7. new \in Seq(S) /\ Len(new) = RetentionLimit /\ new[Len(new)] = entry /\ new # <<>>
        BY <1>1, <3>3, <3>6, RetentionAssumption
      <3> QED BY <2>2, <3>6, <3>7, RetentionAssumption
    <2> QED BY <1>4, <2>1, <2>2, RetentionAssumption
  <1> QED BY <1>2, <1>3, <1>5 DEF S

-----------------------------------------------------------------------------
(* One operation of a row *)

(* What an operation leaves of the rest: e is the event it logs, if it is   *)
(* one that logs.                                                           *)
Operated(d, new, ops) ==
  /\ Sound(new) /\ Fits(ops, new)
  /\ SameLog(d, new) \/ Logs(d, new)

LEMMA UpsertedIs ==
  ASSUME NEW d, Sound(d), NEW n \in Namespace, NEW rec \in StoredRecord,
         NEW new, new = Applied(d, Do("upsert", n, rec))
  PROVE  /\ Sound(new) /\ SameLog(d, new)
         /\ n \in Registered(new) /\ new.toolsets[n] = rec
  <1>1. d \in Document
    BY DEF Sound
  <1>2. new = [d EXCEPT !.toolsets[n] = rec]
    BY DEF Applied, Upserted, Do
  <1>3. /\ new \in Document /\ new.toolsets = [d.toolsets EXCEPT ![n] = rec]
        /\ new.cache = d.cache /\ new.previous = d.previous /\ SameLog(d, new)
    BY <1>1, <1>2 DEF Document, SameLog
  <1>4. new.toolsets[n] = rec /\ rec # None /\ \A m \in Namespace : m # n => new.toolsets[m] = d.toolsets[m]
    BY <1>1, <1>3, DocumentFields, ContentAssumption
  <1> QED BY <1>3, <1>4 DEF Sound, Owned, SameLog, Registered

LEMMA ReplacedIs ==
  ASSUME NEW d, Sound(d), NEW n \in Registered(d), NEW h \in Contract,
         NEW new, new = Applied(d, Do("replace", n, h))
  PROVE  /\ Sound(new) /\ SameLog(d, new)
         /\ new.toolsets = d.toolsets /\ new.cache[n] = h
  <1>1. d \in Document /\ n \in Namespace
    BY DEF Sound, Registered
  <1>2. PICK p : p = IF d.cache[n] = None THEN d.previous[n] ELSE d.cache[n]
    OBVIOUS
  <1>3. new = [d EXCEPT !.previous[n] = p, !.cache[n] = h]
    BY <1>2 DEF Applied, Replaced, Do
  <1>4. p \in Contract \cup {None}
    BY <1>1, <1>2, DocumentFields
  <1>p. PICK P : P = [d.previous EXCEPT ![n] = p]
    OBVIOUS
  <1>c. PICK C : C = [d.cache EXCEPT ![n] = h]
    OBVIOUS
  <1>f. /\ P \in [Namespace -> Contract \cup {None}] /\ C \in [Namespace -> Contract \cup {None}]
        /\ new = [d EXCEPT !.previous = P, !.cache = C]
    <2>1. P \in [Namespace -> Contract \cup {None}] /\ C \in [Namespace -> Contract \cup {None}]
      BY <1>1, <1>4, <1>p, <1>c, DocumentFields
    <2>2. PICK lost : lost = [d EXCEPT !.previous[n] = p]
      OBVIOUS
    <2>3. lost = [d EXCEPT !.previous = P] /\ lost.cache = d.cache
      BY <1>1, <1>p, <2>2 DEF Document
    <2>4. new = [lost EXCEPT !.cache = C]
      BY <1>3, <1>c, <2>2, <2>3
    <2> QED BY <1>1, <2>1, <2>3, <2>4 DEF Document
  <1>5. /\ new \in Document
        /\ new.previous = [d.previous EXCEPT ![n] = p] /\ new.cache = [d.cache EXCEPT ![n] = h]
        /\ new.toolsets = d.toolsets /\ SameLog(d, new)
    BY <1>1, <1>p, <1>c, <1>f DEF Document, SameLog
  <1> QED BY <1>1, <1>5, DocumentFields DEF Sound, Owned, SameLog, Registered

LEMMA DeletedAre ==
  ASSUME NEW d, Sound(d), NEW n \in Namespace, NEW new
  PROVE  /\ new = Applied(d, Do("delete_snapshot", n, None)) =>
              /\ Sound(new) /\ SameLog(d, new)
              /\ new.cache[n] = None
         /\ new = Applied(d, Do("delete_previous", n, None)) =>
              /\ Sound(new) /\ SameLog(d, new)
              /\ new.cache = d.cache /\ new.previous[n] = None
         /\ new = Applied(d, Do("delete_toolset", n, None))
            /\ d.cache[n] = None /\ d.previous[n] = None =>
              /\ Sound(new) /\ SameLog(d, new)
              /\ n \notin Registered(new) /\ new.cache = d.cache /\ new.previous = d.previous
  <1>0. d \in Document
    BY DEF Sound
  <1>1. ASSUME new = Applied(d, Do("delete_snapshot", n, None))
        PROVE  Sound(new) /\ SameLog(d, new) /\ new.cache[n] = None
    <2>1. new = [d EXCEPT !.cache[n] = None]
      BY <1>1 DEF Applied, Do
    <2>2. /\ new \in Document /\ new.cache = [d.cache EXCEPT ![n] = None]
          /\ new.toolsets = d.toolsets /\ new.previous = d.previous /\ SameLog(d, new)
      BY <1>0, <2>1 DEF Document, SameLog
    <2> QED BY <1>0, <2>2, DocumentFields DEF Sound, Owned, SameLog
  <1>2. ASSUME new = Applied(d, Do("delete_previous", n, None))
        PROVE  Sound(new) /\ SameLog(d, new) /\ new.cache = d.cache /\ new.previous[n] = None
    <2>1. new = [d EXCEPT !.previous[n] = None]
      BY <1>2 DEF Applied, Do
    <2>2. /\ new \in Document /\ new.previous = [d.previous EXCEPT ![n] = None]
          /\ new.toolsets = d.toolsets /\ new.cache = d.cache /\ SameLog(d, new)
      BY <1>0, <2>1 DEF Document, SameLog
    <2> QED BY <1>0, <2>2, DocumentFields DEF Sound, Owned, SameLog
  <1>3. ASSUME new = Applied(d, Do("delete_toolset", n, None)),
               d.cache[n] = None, d.previous[n] = None
        PROVE  /\ Sound(new) /\ SameLog(d, new)
               /\ n \notin Registered(new) /\ new.cache = d.cache /\ new.previous = d.previous
    <2>1. new = [d EXCEPT !.toolsets[n] = None]
      BY <1>3 DEF Applied, Do
    <2>2. /\ new \in Document /\ new.toolsets = [d.toolsets EXCEPT ![n] = None]
          /\ new.cache = d.cache /\ new.previous = d.previous /\ SameLog(d, new)
      BY <1>0, <2>1 DEF Document, SameLog
    <2> QED BY <1>0, <1>3, <2>2, DocumentFields DEF Sound, Owned, SameLog, Registered
  <1> QED BY <1>1, <1>2, <1>3

LEMMA LoggedIs ==
  ASSUME NEW d, Sound(d), NEW n \in Namespace, NEW k \in AuditKind,
         Shows(d, [kind |-> k, ns |-> n]),
         NEW new, new = Applied(d, Do("audit", n, k))
  PROVE  Sound(new) /\ Logs(d, new)
  <1>0. d \in Document /\ Len(d.log) <= RetentionLimit
    BY DEF Sound
  <1>1. PICK e : e = [kind |-> k, ns |-> n]
    OBVIOUS
  <1>2. e \in Event
    BY <1>1 DEF Event
  <1>3. new = Logged(d, e)
    BY <1>1 DEF Applied, Do
  <1>4. PICK entry : entry = [sequence |-> d.next, event |-> e]
    OBVIOUS
  <1>a. /\ Logged(d, e).next = d.next + 1
        /\ Logged(d, e).log \in Seq([sequence : Nat, event : Event])
        /\ Len(Logged(d, e).log) <= RetentionLimit
    BY <1>0, <1>2, <1>4, LoggedLog
  <1>5. /\ new.next = d.next + 1
        /\ new.log \in Seq([sequence : Nat, event : Event])
        /\ Len(new.log) <= RetentionLimit
    BY <1>3, <1>a
  <1>6. PICK N, L : new = [d EXCEPT !.next = N, !.log = L]
    BY <1>3 DEF Logged
  <1>7. /\ new.toolsets = d.toolsets /\ new.cache = d.cache /\ new.previous = d.previous
        /\ N = new.next /\ L = new.log
    BY <1>0, <1>6 DEF Document
  <1>8. new \in Document
    <2>1. N \in Nat /\ L \in Seq([sequence : Nat, event : Event])
      BY <1>0, <1>5, <1>7, DocumentFields
    <2>2. \A S : d.log \in S /\ L \in S =>
            (d \in [ version : {1, Version}, toolsets : [Namespace -> StoredRecord \cup {None}],
                     cache : [Namespace -> Contract \cup {None}],
                     previous : [Namespace -> Contract \cup {None}], next : Nat, log : S ]
             => new \in [ version : {1, Version}, toolsets : [Namespace -> StoredRecord \cup {None}],
                     cache : [Namespace -> Contract \cup {None}],
                     previous : [Namespace -> Contract \cup {None}], next : Nat, log : S ])
      BY <1>6, <2>1
    <2> QED BY <1>0, <2>1, <2>2, DocumentFields DEF Document
  <1>9. Sound(new)
    BY <1>5, <1>7, <1>8 DEF Sound, Owned
  <1>10. Shows(new, e)
    BY <1>1, <1>7 DEF Shows, Registered
  <1> QED BY <1>2, <1>3, <1>9, <1>10 DEF Logs

(* An operation leaves a sound document that the rest of its row fits.      *)
LEMMA AppliedFits ==
  ASSUME NEW d, Sound(d), NEW ops, Fits(ops, d), ops # <<>>, Head(ops).kind # "read",
         NEW new, new = Applied(d, Head(ops))
  PROVE  Operated(d, new, Tail(ops))
  <1>0. ops # <<Do("read", None, None)>>
    <2>1. SUFFICES ASSUME ops = <<Do("read", None, None)>> PROVE FALSE
      OBVIOUS
    <2>2. Head(ops) = Do("read", None, None)
      BY <2>1
    <2> QED BY <2>2 DEF Do
  <1>k. "register" \in AuditKind /\ "other" \in AuditKind /\ "activate" \in AuditKind
        /\ "unregister" \in AuditKind
    BY DEF AuditKind
  <1>1. ASSUME NEW n \in Namespace, NEW rec \in StoredRecord,
               \/ ops = <<Do("upsert", n, rec)>>
               \/ \E k \in {"register", "other"} : ops = <<Do("upsert", n, rec), Do("audit", n, k)>>
               \/ \E h \in Contract :
                    /\ rec.hash = h
                    /\ ops = <<Do("upsert", n, rec), Do("replace", n, h), Do("audit", n, "activate")>>
        PROVE  Operated(d, new, Tail(ops))
    <2>1. Head(ops) = Do("upsert", n, rec)
      BY <1>1
    <2>2. /\ Sound(new) /\ SameLog(d, new)
          /\ n \in Registered(new) /\ new.toolsets[n] = rec
      BY <2>1, UpsertedIs
    <2>3. Fits(Tail(ops), new)
      <3>1. CASE ops = <<Do("upsert", n, rec)>>
        <4>1. Tail(ops) = <<>>
          BY <3>1
        <4> QED BY <4>1 DEF Fits
      <3>2. ASSUME NEW k \in {"register", "other"},
                   ops = <<Do("upsert", n, rec), Do("audit", n, k)>>
            PROVE  Fits(Tail(ops), new)
        <4>1. Tail(ops) = <<Do("audit", n, k)>>
          BY <3>2
        <4> QED BY <2>2, <4>1 DEF Fits
      <3>3. ASSUME NEW h \in Contract, rec.hash = h,
                   ops = <<Do("upsert", n, rec), Do("replace", n, h), Do("audit", n, "activate")>>
            PROVE  Fits(Tail(ops), new)
        <4>1. Tail(ops) = <<Do("replace", n, h), Do("audit", n, "activate")>>
          BY <3>3
        <4> QED BY <2>2, <3>3, <4>1 DEF Fits
      <3> QED BY <1>1, <3>1, <3>2, <3>3
    <2> QED BY <2>2, <2>3 DEF Operated
  <1>2. ASSUME NEW n \in Namespace, NEW k \in AuditKind, ops = <<Do("audit", n, k)>>,
               Shows(d, [kind |-> k, ns |-> n])
        PROVE  Operated(d, new, Tail(ops))
    <2>1. Head(ops) = Do("audit", n, k) /\ Tail(ops) = <<>>
      BY <1>2
    <2>2. Sound(new) /\ Logs(d, new)
      BY <1>2, <2>1, LoggedIs
    <2> QED BY <2>1, <2>2 DEF Operated, Fits
  <1>3. ASSUME NEW n \in Registered(d), NEW h \in Contract, d.toolsets[n].hash = h,
               ops = <<Do("replace", n, h), Do("audit", n, "activate")>>
        PROVE  Operated(d, new, Tail(ops))
    <2>1. Head(ops) = Do("replace", n, h) /\ Tail(ops) = <<Do("audit", n, "activate")>>
      BY <1>3
    <2>2. Sound(new) /\ SameLog(d, new) /\ new.toolsets = d.toolsets /\ new.cache[n] = h
      BY <2>1, ReplacedIs
    <2>3. n \in Namespace /\ n \in Registered(new) /\ new.toolsets[n].hash = new.cache[n]
      BY <1>3, <2>2 DEF Registered
    <2> QED BY <2>1, <2>2, <2>3 DEF Operated, Fits
  <1>4. ASSUME NEW n \in Namespace,
               ops = <<Do("delete_snapshot", n, None), Do("delete_previous", n, None),
                       Do("delete_toolset", n, None), Do("audit", n, "unregister")>>
        PROVE  Operated(d, new, Tail(ops))
    <2>1. /\ Head(ops) = Do("delete_snapshot", n, None)
          /\ Tail(ops) = <<Do("delete_previous", n, None), Do("delete_toolset", n, None),
                           Do("audit", n, "unregister")>>
      BY <1>4
    <2>2. Sound(new) /\ SameLog(d, new) /\ new.cache[n] = None
      BY <2>1, DeletedAre
    <2> QED BY <2>1, <2>2 DEF Operated, Fits
  <1>5. ASSUME NEW n \in Namespace, d.cache[n] = None,
               ops = <<Do("delete_previous", n, None), Do("delete_toolset", n, None),
                       Do("audit", n, "unregister")>>
        PROVE  Operated(d, new, Tail(ops))
    <2>1. /\ Head(ops) = Do("delete_previous", n, None)
          /\ Tail(ops) = <<Do("delete_toolset", n, None), Do("audit", n, "unregister")>>
      BY <1>5
    <2>2. Sound(new) /\ SameLog(d, new) /\ new.cache = d.cache /\ new.previous[n] = None
      BY <2>1, DeletedAre
    <2> QED BY <1>5, <2>1, <2>2 DEF Operated, Fits
  <1>6. ASSUME NEW n \in Namespace, d.cache[n] = None, d.previous[n] = None,
               ops = <<Do("delete_toolset", n, None), Do("audit", n, "unregister")>>
        PROVE  Operated(d, new, Tail(ops))
    <2>1. /\ Head(ops) = Do("delete_toolset", n, None)
          /\ Tail(ops) = <<Do("audit", n, "unregister")>>
      BY <1>6
    <2>2. /\ Sound(new) /\ SameLog(d, new)
          /\ n \notin Registered(new) /\ new.cache = d.cache /\ new.previous = d.previous
      BY <1>6, <2>1, DeletedAre
    <2> QED BY <1>6, <2>1, <2>2 DEF Operated, Fits
  <1>7. ASSUME NEW n \in Namespace, ops = <<Do("audit", n, "other")>>
        PROVE  Operated(d, new, Tail(ops))
    BY <1>2, <1>7, <1>k DEF Shows
  <1>8. ASSUME NEW n \in Registered(d), n \in Namespace, ops = <<Do("audit", n, "register")>>
        PROVE  Operated(d, new, Tail(ops))
    BY <1>2, <1>8, <1>k DEF Shows
  <1>9. ASSUME NEW n \in Registered(d), n \in Namespace, d.toolsets[n].hash = d.cache[n],
               ops = <<Do("audit", n, "activate")>>
        PROVE  Operated(d, new, Tail(ops))
    BY <1>2, <1>9, <1>k DEF Shows
  <1>10. ASSUME NEW n \in Namespace, d.cache[n] = None, d.previous[n] = None,
                n \notin Registered(d), ops = <<Do("audit", n, "unregister")>>
         PROVE  Operated(d, new, Tail(ops))
    BY <1>2, <1>10, <1>k DEF Shows
  <1> QED BY <1>0, <1>3, <1>4, <1>5, <1>6, <1>7, <1>8, <1>9, <1>10, <1>1 DEF Fits

-----------------------------------------------------------------------------
(* The steps *)

LEMMA MigrationClean ==
  ASSUME NEW d
  PROVE  NeedsMigration(d) <=> ~Clean(d)
  BY DEF NeedsMigration, Clean

LEMMA FollowsSealed ==
  ASSUME IInv, NEW d, Sound(d), Follows(d)
  PROVE  Follows(Sealed(d))
  <1> DEFINE s == Sealed(d)
  <1>1. /\ s.cache = d.cache /\ s.previous = d.previous /\ SameLog(d, s)
        /\ Registered(s) = Registered(d)
        /\ \A n \in Registered(d) : s.toolsets[n].hash = d.toolsets[n].hash
    BY SealedDocument DEF Sound
  <1> HIDE DEF s
  <1>2. \A e : Shows(d, e) => Shows(s, e)
    BY <1>1 DEF Shows
  <1>3. \A f : SameLog(f, d) => SameLog(f, s)
    BY <1>1 DEF SameLog
  <1>4. \A f : Logs(f, d) => Logs(f, s)
    BY <1>1, <1>2 DEF Logs, SameLog
  <1>5. Follows(s)
    BY <1>3, <1>4 DEF Follows
  <1> QED BY <1>5 DEF s

LEMMA WriteStep ==
  ASSUME IInv, NEW d, Sound(d), Write(d), CanSeal(Sealed(d)), Fits(todo', d), Follows(d)
  PROVE  IInv'
  <1> DEFINE s == Sealed(d)
  <1>1. Sound(s) /\ Clean(s) /\ Fits(todo', s) /\ Follows(s)
    BY SealedSound, FollowsSealed
  <1>2. s # None
    BY <1>1, DocumentFields DEF Sound
  <1>3. /\ draft' = s /\ step' = (IF UsesKey(s) /\ key = "absent" THEN "new_key" ELSE "write")
        /\ ~(UsesKey(s) /\ key = "torn")
        /\ UNCHANGED <<file, temp, key, up, crashes>>
    BY DEF Write, KeyFirst, CanSeal, files, procVars
  <1> HIDE DEF s
  <1>4. Follows(draft)'
    BY <1>1, <1>3 DEF Follows
  <1>5. FileInv'
    BY <1>3 DEF IInv, FileInv
  <1>6. StepInv'
    BY <1>3 DEF IInv, StepInv, Writing
  <1>7. DraftInv'
    BY <1>1, <1>2, <1>3, <1>4 DEF IInv, FileInv, DraftInv, Writing
  <1> QED BY <1>5, <1>6, <1>7 DEF IInv

LEMMA RaiseStep ==
  ASSUME IInv, step = "load", key = "torn", Raise
  PROVE  IInv'
  <1>1. /\ step' = (IF up THEN "idle" ELSE "halted") /\ todo' = <<>>
        /\ UNCHANGED <<file, temp, key, draft, up, crashes>>
    BY DEF Raise, Raised, files, procVars
  <1>2. ~Writing /\ ~Writing'
    BY <1>1 DEF Writing
  <1>3. FileInv'
    BY <1>1 DEF IInv, FileInv
  <1>4. StepInv'
    BY <1>1 DEF IInv, StepInv, Writing
  <1>5. DraftInv'
    BY <1>1, <1>2 DEF IInv, DraftInv, Writing
  <1> QED BY <1>3, <1>4, <1>5 DEF IInv

LEMMA RowStep ==
  ASSUME IInv, step \in {"boot", "idle"}, file # None, NEW ops, ops # <<>>, Fits(ops, file),
         Row(ops), UNCHANGED <<up, crashes>>
  PROVE  IInv'
  <1>1. /\ step' = "load" /\ todo' = ops
        /\ UNCHANGED <<file, temp, key, draft, up, crashes>>
    BY DEF Row, files
  <1>2. ~Writing /\ ~Writing'
    BY <1>1 DEF Writing
  <1>3. FileInv'
    BY <1>1 DEF IInv, FileInv
  <1>4. StepInv'
    BY <1>1 DEF IInv, StepInv, Writing
  <1>5. DraftInv'
    BY <1>1, <1>2 DEF IInv, DraftInv, Writing
  <1> QED BY <1>3, <1>4, <1>5 DEF IInv

(* The rows requests start fit the state file. *)
LEMMA RequestRows ==
  ASSUME IInv, Request
  PROVE  \E ops : ops # <<>> /\ Fits(ops, file) /\ Row(ops)
  <1>0. /\ up /\ step = "idle" /\ file # None /\ file \in Document
    BY DEF Request, Register, Connect, Install, Note, Unregister, Begins,
       IInv, StepInv, FileInv, Sound
  <1>1. ASSUME NEW n \in Registered(file)
        PROVE  n \in Namespace /\ file.toolsets[n] \in StoredRecord
    BY <1>0, DocumentFields DEF Registered
  <1>2. \A form \in {"bare", "plain"} : NewRecord(form) \in StoredRecord
    BY DEF NewRecord, StoredRecord
  <1>3. \A rec \in StoredRecord, b \in BOOLEAN : [rec EXCEPT !.active = b] \in StoredRecord
    BY DEF StoredRecord
  <1>4. CASE Register
    <2>1. PICK n \in Namespace, form \in {"bare", "plain"} :
            Row(<<Do("upsert", n, NewRecord(form)), Do("audit", n, "register")>>)
      BY <1>4 DEF Register
    <2>2. Fits(<<Do("upsert", n, NewRecord(form)), Do("audit", n, "register")>>, file)
      BY <1>2 DEF Fits
    <2> QED BY <2>1, <2>2
  <1>5. CASE Connect
    <2>1. PICK n \in Registered(file) :
            Row(<<Do("upsert", n, [file.toolsets[n] EXCEPT !.active = TRUE])>>)
      BY <1>5 DEF Connect
    <2>2. Fits(<<Do("upsert", n, [file.toolsets[n] EXCEPT !.active = TRUE])>>, file)
      BY <1>1, <1>3 DEF Fits
    <2> QED BY <2>1, <2>2
  <1>6. CASE Install
    <2>1. PICK n \in Unreconciled, h \in Contract :
            Row(<<Do("upsert", n, [file.toolsets[n] EXCEPT !.hash = h,
                                                           !.previous = file.toolsets[n].hash]),
                  Do("replace", n, h), Do("audit", n, "activate")>>)
      BY <1>6 DEF Install
    <2>2. PICK rec : rec = [file.toolsets[n] EXCEPT !.hash = h, !.previous = file.toolsets[n].hash]
      OBVIOUS
    <2>3. n \in Namespace /\ rec \in StoredRecord /\ rec.hash = h
      BY <1>1, <2>2 DEF Unreconciled, StoredRecord
    <2>4. Fits(<<Do("upsert", n, rec), Do("replace", n, h), Do("audit", n, "activate")>>, file)
      BY <2>3 DEF Fits
    <2> QED BY <2>1, <2>2, <2>4
  <1>7. CASE Note
    <2>1. CASE \E n \in Namespace : Row(<<Do("audit", n, "other")>>)
      <3>1. PICK n \in Namespace : Row(<<Do("audit", n, "other")>>)
        BY <2>1
      <3>2. Fits(<<Do("audit", n, "other")>>, file)
        BY DEF Fits
      <3> QED BY <3>1, <3>2
    <2>2. CASE \E n \in Registered(file), b \in BOOLEAN :
                 Row(<<Do("upsert", n, [file.toolsets[n] EXCEPT !.active = b]),
                       Do("audit", n, "other")>>)
      <3>1. PICK n \in Registered(file), b \in BOOLEAN :
                 Row(<<Do("upsert", n, [file.toolsets[n] EXCEPT !.active = b]),
                       Do("audit", n, "other")>>)
        BY <2>2
      <3>2. Fits(<<Do("upsert", n, [file.toolsets[n] EXCEPT !.active = b]),
                   Do("audit", n, "other")>>, file)
        BY <1>1, <1>3 DEF Fits
      <3> QED BY <3>1, <3>2
    <2> QED BY <1>7, <2>1, <2>2 DEF Note
  <1>8. CASE Unregister
    <2>1. PICK n \in Registered(file) :
            Row(<<Do("delete_snapshot", n, None), Do("delete_previous", n, None),
                  Do("delete_toolset", n, None), Do("audit", n, "unregister")>>)
      BY <1>8 DEF Unregister
    <2>2. Fits(<<Do("delete_snapshot", n, None), Do("delete_previous", n, None),
                 Do("delete_toolset", n, None), Do("audit", n, "unregister")>>, file)
      BY <1>1 DEF Fits
    <2> QED BY <2>1, <2>2
  <1> QED BY <1>4, <1>5, <1>6, <1>7, <1>8 DEF Request

LEMMA FitsSome ==
  ASSUME NEW ops, NEW d, Fits(ops, d)
  PROVE  /\ Len(ops) <= 4
         /\ ops # <<>> /\ Head(ops).kind = "read" => Tail(ops) = <<>>
  <1> DEFINE Good(s) == Len(s) <= 4 /\ (s # <<>> /\ Head(s).kind = "read" => Tail(s) = <<>>)
  <1>1. Good(<<>>)
    OBVIOUS
  <1>2. \A a : Good(<<a>>)
    OBVIOUS
  <1>3. \A a, b : a.kind # "read" => Good(<<a, b>>)
    OBVIOUS
  <1>4. \A a, b, c : a.kind # "read" => Good(<<a, b, c>>)
    OBVIOUS
  <1>5. \A a, b, c, e : a.kind # "read" => Good(<<a, b, c, e>>)
    OBVIOUS
  <1>6. \A k, n, a : Do(k, n, a).kind = k
    BY DEF Do
  <1> HIDE DEF Good
  <1>7. Good(ops)
    BY <1>1, <1>2, <1>3, <1>4, <1>5, <1>6 DEF Fits
  <1> QED BY <1>7 DEF Good

LEMMA OperationStep ==
  ASSUME IInv, Operation
  PROVE  IInv'
  <1>1. CASE Migrate
    <2>1. step = "load" /\ Write(file) /\ CanSeal(Sealed(file)) /\ todo' = todo
      BY <1>1 DEF Migrate, Outdated, Loading
    <2>2. file # None /\ Sound(file) /\ Fits(todo, file)
      BY <2>1 DEF IInv, StepInv, FileInv
    <2>3. Follows(file)
      BY <2>2 DEF Follows, SameLog
    <2> QED BY <2>1, <2>2, <2>3, WriteStep
  <1>2. CASE Read
    <2>1. /\ step = "load" /\ ~NeedsMigration(file) /\ Head(todo).kind = "read"
          /\ step' = After(Tail(todo)) /\ todo' = Tail(todo)
          /\ UNCHANGED <<file, temp, key, draft, up, crashes>>
      BY <1>2 DEF Read, Loaded, Loading, files, procVars
    <2>2. Tail(todo) = <<>>
      BY <2>1, FitsSome DEF IInv, StepInv
    <2>3. step' = "idle" /\ todo' = <<>> /\ Clean(file)
      BY <2>1, <2>2, MigrationClean DEF After
    <2>4. ~Writing /\ ~Writing'
      BY <2>1, <2>3 DEF Writing
    <2>5. FileInv'
      BY <2>1 DEF IInv, FileInv
    <2>6. StepInv'
      BY <2>1, <2>3 DEF IInv, StepInv, Writing
    <2>7. DraftInv'
      BY <2>1, <2>3, <2>4 DEF IInv, DraftInv, Writing
    <2> QED BY <2>5, <2>6, <2>7 DEF IInv
  <1>3. CASE Mutate
    <2>1. PICK d : d = Applied(file, Head(todo))
      OBVIOUS
    <2>2. /\ step = "load" /\ Head(todo).kind # "read"
          /\ \/ CanSeal(Sealed(d)) /\ Write(d) /\ todo' = Tail(todo)
             \/ ~CanSeal(Sealed(d)) /\ Raise
      BY <1>3, <2>1 DEF Mutate, Loaded, Loading
    <2>3. file # None /\ Sound(file) /\ todo # <<>> /\ Fits(todo, file)
      BY <2>2 DEF IInv, StepInv, FileInv
    <2>4. Operated(file, d, Tail(todo))
      BY <2>1, <2>2, <2>3, AppliedFits
    <2>5. Sound(d) /\ Fits(Tail(todo), d) /\ Follows(d)
      BY <2>3, <2>4 DEF Operated, Follows
    <2>6. CASE CanSeal(Sealed(d)) /\ Write(d) /\ todo' = Tail(todo)
      BY <2>5, <2>6, WriteStep
    <2>7. CASE ~CanSeal(Sealed(d)) /\ Raise
      BY <2>2, <2>7, RaiseStep DEF CanSeal
    <2> QED BY <2>2, <2>6, <2>7
  <1>4. CASE LoadRaises
    <2>1. step = "load" /\ CanOpen(file)
      BY <1>4 DEF LoadRaises, CanOpen, IInv, StepInv, FileInv
    <2>2. key = "torn"
      BY <1>4, <2>1 DEF LoadRaises, CanSeal
    <2>3. Raise
      BY <1>4, <2>1, <2>2 DEF LoadRaises, CanOpen, Raise
    <2> QED BY <2>1, <2>2, <2>3, RaiseStep
  <1>5. CASE CreateKey
    <2>1. /\ \/ step = "new_key" /\ key' = "torn" /\ step' = "fill_key"
             \/ step = "fill_key" /\ key' = "whole" /\ step' = "write"
          /\ UNCHANGED <<file, temp, todo, draft, up, crashes>>
      BY <1>5 DEF CreateKey, procVars, IInv, DraftInv, Writing
    <2>2. Writing /\ Writing'
      BY <2>1 DEF Writing
    <2>3. FileInv'
      BY <2>1 DEF IInv, FileInv, DraftInv
    <2>4. StepInv'
      BY <2>1, <2>2 DEF IInv, StepInv
    <2>5. Follows(draft)'
      BY <2>1, <2>2 DEF IInv, DraftInv, Follows
    <2>6. DraftInv'
      BY <2>1, <2>2, <2>5 DEF IInv, DraftInv
    <2> QED BY <2>3, <2>4, <2>6 DEF IInv
  <1>6. CASE WriteTemp
    <2>1. /\ \/ step = "write" /\ temp' = Torn /\ step' = "fill"
             \/ step = "fill" /\ temp' = draft /\ step' = "replace"
          /\ UNCHANGED <<file, key, todo, draft, up, crashes>>
      BY <1>6 DEF WriteTemp, procVars
    <2>2. Writing /\ Writing'
      BY <2>1 DEF Writing
    <2>3. FileInv'
      BY <2>1, <2>2 DEF IInv, FileInv, DraftInv, Sound
    <2>4. StepInv'
      BY <2>1, <2>2 DEF IInv, StepInv
    <2>5. Follows(draft)'
      BY <2>1, <2>2 DEF IInv, DraftInv, Follows
    <2>6. DraftInv'
      BY <2>1, <2>2, <2>5 DEF IInv, DraftInv
    <2> QED BY <2>3, <2>4, <2>6 DEF IInv
  <1>7. CASE Replace
    <2>1. /\ step = "replace" /\ file' = temp /\ temp' = None /\ draft' = None
          /\ step' = After(todo)
          /\ UNCHANGED <<key, todo, up, crashes>>
      BY <1>7 DEF Replace, procVars
    <2>2. /\ file' = draft /\ draft # None /\ Sound(draft) /\ Clean(draft)
          /\ Fits(todo, draft) /\ (UsesKey(draft) => key = "whole")
      BY <2>1 DEF IInv, DraftInv, Writing
    <2>3. IF todo = <<>> THEN step' = "idle" ELSE step' = "load"
      BY <2>1 DEF After
    <2>4. ~Writing'
      BY <2>3 DEF Writing
    <2>5. FileInv'
      BY <2>1, <2>2 DEF IInv, FileInv
    <2>6. StepInv'
      BY <2>1, <2>2, <2>3 DEF IInv, StepInv
    <2>7. DraftInv'
      BY <2>1, <2>3, <2>4 DEF DraftInv
    <2> QED BY <2>5, <2>6, <2>7 DEF IInv
  <1> QED BY <1>1, <1>2, <1>3, <1>4, <1>5, <1>6, <1>7 DEF Operation

LEMMA ConstructStep ==
  ASSUME IInv, Construct
  PROVE  IInv'
  <1>0. ~up /\ step = "idle" /\ file # None /\ file \in Document /\ Clean(file)
    BY DEF Construct, IInv, StepInv, FileInv, Sound
  <1>1. ASSUME NEW n \in Unseeded, Row(<<Do("upsert", n, NewRecord("plain"))>>),
               UNCHANGED <<up, crashes>>
        PROVE  IInv'
    <2>1. n \in Namespace /\ NewRecord("plain") \in StoredRecord
      BY SeededAssumption DEF Unseeded, NewRecord, StoredRecord
    <2>2. Fits(<<Do("upsert", n, NewRecord("plain"))>>, file)
      BY <2>1 DEF Fits
    <2> QED BY <1>0, <1>1, <2>2, RowStep
  <1>2. ASSUME NEW n \in Unreconciled,
               Row(<<Do("upsert", n, [file.toolsets[n] EXCEPT !.active = FALSE])>>),
               UNCHANGED <<up, crashes>>
        PROVE  IInv'
    <2>1. n \in Namespace /\ [file.toolsets[n] EXCEPT !.active = FALSE] \in StoredRecord
      <3>1. n \in Registered(file)
        BY DEF Unreconciled
      <3>2. n \in Namespace /\ file.toolsets[n] \in StoredRecord
        BY <1>0, <3>1, DocumentFields DEF Registered
      <3> QED BY <3>2 DEF StoredRecord
    <2>2. Fits(<<Do("upsert", n, [file.toolsets[n] EXCEPT !.active = FALSE])>>, file)
      BY <2>1 DEF Fits
    <2> QED BY <1>0, <1>2, <2>2, RowStep
  <1>3. CASE up' = TRUE /\ UNCHANGED <<files, step, todo, draft, crashes>>
    <2>1. ~Writing /\ ~Writing'
      BY <1>0, <1>3 DEF Writing
    <2>2. FileInv' /\ StepInv' /\ DraftInv'
      BY <1>0, <1>3, <2>1 DEF IInv, FileInv, StepInv, DraftInv, Writing, files
    <2> QED BY <2>2 DEF IInv
  <1> QED BY <1>1, <1>2, <1>3 DEF Construct, Row, procVars

LEMMA IInvStep ==
  ASSUME IInv, [Next]_vars
  PROVE  IInv'
  <1>1. CASE Ensure
    <2>1. /\ step = "boot" /\ file = None /\ Write(EmptyDocument)
          /\ todo' = <<Do("read", None, None)>>
      BY <1>1 DEF Ensure
    <2>2. Fits(todo', EmptyDocument)
      BY <2>1 DEF Fits
    <2>3. Follows(EmptyDocument)
      BY <2>1 DEF Follows, SameLog
    <2>4. CanSeal(Sealed(EmptyDocument))
      <3>1. EmptyDocument \in Document /\ Registered(EmptyDocument) = {}
        BY NewSound DEF Sound, Registered, EmptyDocument
      <3>2. Registered(Sealed(EmptyDocument)) = {}
        BY <3>1, SealedDocument
      <3> QED BY <3>2 DEF CanSeal, UsesKey, Carrying
    <2> QED BY <2>1, <2>2, <2>3, <2>4, NewSound, WriteStep
  <1>2. CASE Boot
    <2>1. /\ step = "boot" /\ file # None /\ Row(<<Do("read", None, None)>>)
          /\ UNCHANGED <<up, crashes>>
      BY <1>2 DEF Boot, Row, procVars
    <2>2. Fits(<<Do("read", None, None)>>, file)
      BY DEF Fits
    <2> QED BY <2>1, <2>2, RowStep
  <1>3. CASE Construct
    BY <1>3, ConstructStep
  <1>4. CASE Operation
    BY <1>4, OperationStep
  <1>5. CASE Request
    <2>1. PICK ops : ops # <<>> /\ Fits(ops, file) /\ Row(ops)
      BY <1>5, RequestRows
    <2>2. step = "idle" /\ file # None
      BY <1>5 DEF Request, Register, Connect, Install, Note, Unregister, Begins, IInv, StepInv
    <2>3. UNCHANGED <<up, crashes>>
      BY <2>1 DEF Row, procVars
    <2> QED BY <2>1, <2>2, <2>3, RowStep
  <1>6. CASE Crash
    <2>1. /\ crashes' \in 0 .. MaxCrashes /\ up' = FALSE /\ step' = "boot" /\ todo' = <<>>
          /\ draft' = None /\ UNCHANGED <<file, temp, key>>
      BY <1>6, BoundAssumption DEF Crash, files, IInv, StepInv
    <2>2. ~Writing'
      BY <2>1 DEF Writing
    <2>3. FileInv'
      BY <2>1 DEF IInv, FileInv
    <2>4. StepInv'
      BY <2>1 DEF StepInv
    <2>5. DraftInv'
      BY <2>1, <2>2 DEF DraftInv
    <2> QED BY <2>3, <2>4, <2>5 DEF IInv
  <1>7. CASE UNCHANGED vars
    BY <1>7 DEF vars, files, procVars, IInv, FileInv, StepInv, DraftInv, Writing, Follows
  <1> QED BY <1>1, <1>2, <1>3, <1>4, <1>5, <1>6, <1>7 DEF Next

LEMMA OldSound ==
  ASSUME NEW v \in {1, Version}, NEW plain \in SUBSET Namespace
  PROVE  /\ Sound(OldDocument(v, plain)) /\ ~UsesKey(OldDocument(v, plain))
         /\ OldDocument(v, plain).next = 1 /\ OldDocument(v, plain).log = <<>>
  <1> DEFINE d == OldDocument(v, plain)
             T == [n \in Namespace |-> IF n \in plain THEN NewRecord("plain") ELSE None]
  <1>1. d = [ version |-> v, toolsets |-> T, cache |-> [n \in Namespace |-> None],
              previous |-> [n \in Namespace |-> None], next |-> 1, log |-> <<>> ]
    <2>1. d = [EmptyDocument EXCEPT !.version = v, !.toolsets = T]
      BY DEF OldDocument
    <2> HIDE DEF T
    <2> QED BY <2>1 DEF EmptyDocument
  <1>2. T \in [Namespace -> StoredRecord \cup {None}]
    BY DEF NewRecord, StoredRecord
  <1>3. \A n \in Namespace : T[n] # None => T[n].transport = "plain"
    BY DEF NewRecord
  <1> HIDE DEF d, T
  <1>4. d \in Document
    BY <1>1, <1>2 DEF Document
  <1>5. Sound(d)
    BY <1>1, <1>4, RetentionAssumption DEF Sound, Owned
  <1>6. ~UsesKey(d)
    BY <1>1, <1>3 DEF UsesKey, Carrying, Registered
  <1> QED BY <1>1, <1>5, <1>6 DEF d

LEMMA IInvInit == Init => IInv
  <1> SUFFICES ASSUME Init PROVE IInv
    OBVIOUS
  <1>1. file # None => Sound(file) /\ ~UsesKey(file)
    BY OldSound DEF Init
  <1>2. ~Writing
    BY DEF Init, Writing
  <1>3. FileInv
    BY <1>1 DEF Init, FileInv
  <1>4. StepInv
    <2>1. crashes \in 0 .. MaxCrashes
      BY BoundAssumption DEF Init
    <2> QED BY <2>1 DEF Init, StepInv
  <1>5. DraftInv
    BY <1>2 DEF Init, DraftInv
  <1> QED BY <1>3, <1>4, <1>5 DEF IInv

(* The state file is always sound, a draft logs at most one event more than *)
(* it, and what is left of a row fits the document it is done to.           *)
THEOREM FilesInvariant == Spec => []IInv
  <1>1. IInv /\ [Next]_vars => IInv'
    BY IInvStep
  <1> QED BY <1>1, IInvInit, PTL DEF Spec

(* Every variable has its type: above all, the state file is never partial. *)
THEOREM Types == Spec => []TypeOK
  <1>1. ASSUME IInv PROVE TypeOK
    <2>1. file \in Document \cup {None} /\ draft \in Document \cup {None}
      BY <1>1 DEF IInv, FileInv, DraftInv, Sound
    <2>2. todo = <<>> \/ \E d : Fits(todo, d)
      BY <1>1 DEF IInv, StepInv, DraftInv
    <2>3. Len(todo) <= 4
      BY <2>2, FitsSome
    <2> QED BY <1>1, <2>1, <2>3 DEF TypeOK, IInv, FileInv, StepInv, Writing
  <1> QED BY <1>1, FilesInvariant, PTL

(* What is sealed in the state file can be opened, wherever a process       *)
(* crashed: the key is whole on disk before a file that needs it.           *)
THEOREM SealsOpen == Spec => []SealedHasKey
  <1>1. IInv => SealedHasKey
    BY DEF IInv, FileInv, SealedHasKey
  <1> QED BY <1>1, FilesInvariant, PTL

(* Once the process serves, the state file it found holds no transport in   *)
(* plain text, and no file it writes ever does.                             *)
THEOREM NothingInPlainText == Spec => []NothingPlain
  <1>1. IInv => NothingPlain
    BY DEF IInv, FileInv, StepInv, Clean, NothingPlain
  <1> QED BY <1>1, FilesInvariant, PTL

(* A crash in the middle of an unregistration leaves no snapshot that a     *)
(* later registration of the namespace would inherit.                       *)
THEOREM SnapshotsAreOwned == Spec => []SnapshotsOwned
  <1>1. IInv => SnapshotsOwned
    BY DEF IInv, FileInv, Sound, Owned, SnapshotsOwned
  <1> QED BY <1>1, FilesInvariant, PTL

(* Only a key file that a crash left truncated keeps a process from         *)
(* starting: no crash leaves a sealed file beside a key that was not kept,  *)
(* for which a load would create another one that opens nothing.            *)
THEOREM Restartable == Spec => []HaltsOnTornKeyOnly
  <1>1. IInv => HaltsOnTornKeyOnly
    BY DEF IInv, StepInv, HaltsOnTornKeyOnly
  <1> QED BY <1>1, FilesInvariant, PTL

-----------------------------------------------------------------------------
(* What a step makes of the state file *)

LEMMA FileStep ==
  ASSUME IInv, [Next]_vars
  PROVE  UNCHANGED file \/ (file' = draft /\ draft # None /\ Sound(draft) /\ Follows(draft))
  <1>1. CASE Replace
    BY <1>1 DEF Replace, IInv, DraftInv, Writing
  <1>2. CASE ~Replace
    BY <1>2 DEF Next, vars, files, Ensure, Write, Boot, Row, Construct, Operation, Migrate, Read,
       Mutate, Raise, LoadRaises, CreateKey, WriteTemp, Request, Register, Connect, Install,
       Note, Unregister, Crash
  <1> QED BY <1>1, <1>2

(* What the log says was appended last is its last event. *)
LEMMA LoggedEvent ==
  ASSUME NEW d, Sound(d), NEW e \in Event
  PROVE  /\ Logged(d, e).next = d.next + 1
         /\ Logged(d, e).log = IF Len(d.log) < RetentionLimit
                               THEN Append(d.log, [sequence |-> d.next, event |-> e])
                               ELSE Append(Tail(d.log), [sequence |-> d.next, event |-> e])
         /\ Logged(d, e).log[Len(Logged(d, e).log)].event = e
  <1>1. d \in Document /\ Len(d.log) <= RetentionLimit
    BY DEF Sound
  <1>2. PICK entry : entry = [sequence |-> d.next, event |-> e]
    OBVIOUS
  <1>3. /\ Logged(d, e).next = d.next + 1
        /\ Logged(d, e).log = IF Len(d.log) < RetentionLimit THEN Append(d.log, entry)
                              ELSE Append(Tail(d.log), entry)
        /\ Logged(d, e).log[Len(Logged(d, e).log)] = entry
    BY <1>1, <1>2, LoggedLog
  <1> QED BY <1>2, <1>3

(* An event of success is logged only when the file shows its effect,       *)
(* though the event is a write of its own after those that make the effect. *)
THEOREM EventsComeAfter == Spec => EventsFollowEffects
  <1> DEFINE P == file # None /\ file'.next > file.next =>
                    Shows(file', file'.log[Len(file'.log)].event)
  <1>1. ASSUME IInv, [Next]_vars, file # None, file'.next > file.next
        PROVE  Shows(file', file'.log[Len(file'.log)].event)
    <2>1. Sound(file) /\ file.next \in Nat
      BY <1>1, DocumentFields DEF IInv, FileInv, Sound
    <2>2. file' = draft /\ Follows(draft)
      BY <1>1, <2>1, FileStep
    <2>3. Logs(file, file')
      BY <1>1, <2>1, <2>2 DEF Follows, SameLog
    <2>4. PICK e \in Event : file'.log = Logged(file, e).log /\ Shows(file', e)
      BY <2>3 DEF Logs
    <2>5. Logged(file, e).log[Len(Logged(file, e).log)].event = e
      BY <2>1, LoggedEvent
    <2> QED BY <2>4, <2>5
  <1>2. IInv /\ [Next]_vars => [P]_vars
    BY <1>1
  <1>3. Spec => [][P]_vars
    BY <1>2, FilesInvariant, PTL DEF Spec
  <1> QED BY <1>3 DEF EventsFollowEffects

(* The log is what AuditLog promises, though every write of anything else   *)
(* rewrites it too and the process crashes between any two accesses.        *)
THEOREM LogKeepsPromise == Spec => AuditAsPromised
  <1>1. Init => Log!Init
    <2> SUFFICES ASSUME Init PROVE Log!Init
      OBVIOUS
    <2>1. file = None \/ (file # None /\ file.next = 1 /\ file.log = <<>>)
      BY OldSound, DocumentFields DEF Init
    <2> QED BY <2>1 DEF Log!Init, Appended, Kept
  <1>2. ASSUME IInv, [Next]_vars
        PROVE  [Log!Next]_<<Appended, Kept>>
    <2>1. CASE UNCHANGED file
      BY <2>1 DEF Appended, Kept
    <2>2. CASE file' = draft /\ draft # None /\ Follows(draft)
      <3>1. CASE file = None
        BY <2>2, <3>1 DEF Follows, SameLog, EmptyDocument, Appended, Kept
      <3>2. CASE file # None /\ SameLog(file, draft)
        BY <2>2, <3>2 DEF SameLog, Appended, Kept
      <3>3. CASE file # None /\ Logs(file, draft)
        <4>1. PICK e \in Event : draft.next = Logged(file, e).next /\ draft.log = Logged(file, e).log
          BY <3>3 DEF Logs
        <4>2. Sound(file) /\ file.next \in Nat
          BY <1>2, <3>3, DocumentFields DEF IInv, FileInv, Sound
        <4>3. /\ Appended = file.next - 1 /\ Kept = file.log
              /\ Appended' = draft.next - 1 /\ Kept' = draft.log
          BY <2>2, <3>3 DEF Appended, Kept
        <4>4. Appended + 1 = file.next /\ Appended' = Appended + 1
          <5>1. draft.next = file.next + 1
            BY <4>1, <4>2, LoggedEvent
          <5> QED BY <4>2, <4>3, <5>1
        <4>5. Log!Entry(e) = [sequence |-> file.next, event |-> e]
          BY <4>4 DEF Log!Entry
        <4>6. Log!Append1(e)
          BY <4>1, <4>2, <4>3, <4>4, <4>5, LoggedEvent DEF Log!Append1
        <4> QED BY <4>6 DEF Log!Next
      <3> QED BY <2>2, <3>1, <3>2, <3>3 DEF Follows
    <2> QED BY <1>2, <2>1, <2>2, FileStep
  <1>3. IInv /\ [Next]_vars => [Log!Next]_<<Appended, Kept>>
    BY <1>2
  <1> QED BY <1>1, <1>3, FilesInvariant, PTL DEF Spec, AuditAsPromised, Log!Spec

=============================================================================
