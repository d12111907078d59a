------------------------------ MODULE MCProcess ------------------------------
(* Process for TLC: the addresses other than init's are interchangeable.   *)
EXTENDS Process, TLC

Symmetry == Permutations(Procs \ {InitProc})
=============================================================================
