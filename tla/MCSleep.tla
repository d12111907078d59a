------------------------------ MODULE MCSleep ------------------------------
(* Module Sleep with a few processes and CPUs.                             *)
EXTENDS Sleep, TLC

Symmetry == Permutations(Procs) \cup Permutations(CPUs)
=============================================================================
