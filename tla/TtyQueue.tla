------------------------------ MODULE TtyQueue ------------------------------
(***************************************************************************)
(* What the console promises: typed characters form a line that can still  *)
(* be edited; the line is handed over as a whole; readers take characters  *)
(* in the order in which they were typed, each one once.  Line and queue   *)
(* together never exceed the capacity.                                     *)
(***************************************************************************)
EXTENDS Naturals, Sequences

CONSTANTS Chars, Capacity

VARIABLES ready, edit

Init == ready = << >> /\ edit = << >>

Type == \E c \in Chars :
    /\ Len(ready) + Len(edit) < Capacity
    /\ \/ edit' = Append(edit, c) /\ UNCHANGED ready
       \/ ready' = Append(ready \o edit, c) /\ edit' = << >>

Erase ==
    /\ edit # << >>
    /\ edit' = SubSeq(edit, 1, Len(edit) - 1)
    /\ UNCHANGED ready

Take ==
    /\ ready # << >>
    /\ ready' = Tail(ready)
    /\ UNCHANGED edit

TSpec == Init /\ [][Type \/ Erase \/ Take]_<<ready, edit>>
=============================================================================
