------------------------------ MODULE MCConsole ------------------------------
(* Console for TLC.                                                        *)
EXTENDS Console, TLC

Symmetry == Permutations(Readers)
Cooked == [icanon |-> TRUE, icrnl |-> TRUE, vmin |-> 1, vtime |-> 0]
Raw(min, time) == [icanon |-> FALSE, icrnl |-> TRUE, vmin |-> min, vtime |-> time]

CookedAndRaw == {Cooked, Raw(2, 1)}

(* Not told apart: cells of the ring that hold nothing, and the locals of  *)
(* raw mode of a reader that has settled for a line.                       *)
RawOnly(f) == [p \in Readers |-> IF canonical[p] /\ rpc[p] # "lock" THEN 0 ELSE f[p]]
View == <<Between(r, w), Between(w, e), r, termios, con_lock, rpc, rkilled, n, got,
          canonical, RawOnly(termios_target), RawOnly(timeout), ret>>
=============================================================================
