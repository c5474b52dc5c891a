------------------------------ MODULE AuditLog ------------------------------
(***************************************************************************)
(* What the audit log promises: it is only appended to, one event at a     *)
(* time; the events are numbered in the order they were appended; the      *)
(* newest are kept, up to a limit.  Neither a write of something else nor  *)
(* a crash changes it.                                                     *)
(***************************************************************************)
EXTENDS Naturals, Sequences

CONSTANTS Event, Limit

VARIABLES
  appended,  \* how many events were ever appended
  kept       \* the newest of them, as [sequence, event]

Init == appended = 0 /\ kept = <<>>

Entry(e) == [sequence |-> appended + 1, event |-> e]

Append1(e) ==
  /\ appended' = appended + 1
  /\ kept' = IF Len(kept) < Limit THEN Append(kept, Entry(e))
             ELSE Append(Tail(kept), Entry(e))

Next == \E e \in Event : Append1(e)

Spec == Init /\ [][Next]_<<appended, kept>>
=============================================================================
