---------------------------- MODULE MCNamespace ----------------------------
(* Directory entries, inodes and the calls that change them: an instance.  *)
EXTENDS Namespace, TLC

Paths == {<<"a">>, <<"x">>, <<"a", "x">>}
Symmetry == Permutations(NProcs)
Spec == NsInit /\ [][NsNext]_nsVars
=============================================================================
