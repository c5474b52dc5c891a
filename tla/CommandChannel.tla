--------------------------- MODULE CommandChannel ---------------------------
(***************************************************************************)
(* What a runtime promises to those who send it commands.  A command gets  *)
(* one outcome; commands are answered in the order they were accepted;     *)
(* a broken channel answers nothing more, and when it ends it fails all    *)
(* that wait in line, except perhaps the one it had in hand; nothing is    *)
(* accepted behind a close.                                                *)
(***************************************************************************)
EXTENDS Naturals, Sequences

CONSTANTS Caller, Closer

VARIABLES
  line,       \* the commands accepted and not dealt with, in order
  fate,       \* of each command: "none", "pending", or its outcome
  accepting,  \* further commands are accepted
  broken      \* no further command is answered

Command == Caller \cup Closer

Init ==
  /\ line = <<>>
  /\ fate = [c \in Command |-> "none"]
  /\ accepting = TRUE
  /\ broken = FALSE

Decided(C, outcome) ==
  fate' = [c \in Command |->
             IF c \in C /\ fate[c] = "pending" THEN outcome ELSE fate[c]]

(* A channel that broke of itself still accepts commands, and fails them.   *)
Accept(c) ==
  /\ accepting
  /\ fate[c] = "none"
  /\ line' = Append(line, c)
  /\ fate' = [fate EXCEPT ![c] = "pending"]
  /\ accepting' = (c \notin Closer)
  /\ UNCHANGED broken

(* The answer to a close ends the channel. *)
Answer ==
  /\ ~broken
  /\ line # <<>>
  /\ line' = Tail(line)
  /\ \/ Head(line) \in Caller /\ \E o \in {"answer", "error"} : Decided({Head(line)}, o)
     \/ Head(line) \in Closer /\ Decided({Head(line)}, "answer")
  /\ broken' = (Head(line) \in Closer)
  /\ UNCHANGED accepting

(* A sender stops waiting, and may close the channel as it goes. *)
GiveUp(c) ==
  /\ Decided({c}, "cancelled")
  /\ accepting' \in {accepting, FALSE}
  /\ UNCHANGED <<line, broken>>

Break ==
  /\ ~broken
  /\ broken' = TRUE
  /\ line' = line \/ (line # <<>> /\ line' = Tail(line))
  /\ UNCHANGED <<fate, accepting>>

Finish ==
  /\ \E first \in {1, 2} :
       /\ first = 2 => ~broken
       /\ Decided({line[i] : i \in first .. Len(line)}, "error")
  /\ line' = <<>>
  /\ accepting' = FALSE
  /\ broken' = TRUE

Next == Answer \/ Break \/ Finish \/ \E c \in Command : Accept(c) \/ GiveUp(c)

Spec == Init /\ [][Next]_<<line, fate, accepting, broken>>
=============================================================================
