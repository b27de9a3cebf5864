----------------------------- MODULE LineQueue -----------------------------
(***************************************************************************)
(* What the console promises its readers: what is typed can be edited up   *)
(* to the end of its line, and from then on is read once, in order.        *)
(***************************************************************************)
EXTENDS Sequences, SequencesExt

CONSTANTS Char, EndOfLine, Size

VARIABLES ready,  \* whole lines, not yet read
          edit    \* the line being typed

Init == ready = <<>> /\ edit = <<>>

Type == \E c \in Char \ EndOfLine :
  /\ Len(ready) + Len(edit) + 1 < Size
  /\ edit' = Append(edit, c) /\ UNCHANGED ready

(* The end of a line, or of the space there is. *)
Commit == \E c \in Char :
  /\ c \in EndOfLine \/ Len(ready) + Len(edit) + 1 = Size
  /\ Len(ready) + Len(edit) < Size
  /\ ready' = ready \o Append(edit, c) /\ edit' = <<>>

Erase == edit # <<>> /\ edit' = Front(edit) /\ UNCHANGED ready

Read == ready # <<>> /\ ready' = Tail(ready) /\ UNCHANGED edit

Next == Type \/ Commit \/ Erase \/ Read
Spec == Init /\ [][Next]_<<ready, edit>>
=============================================================================
