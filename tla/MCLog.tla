-------------------------------- MODULE MCLog --------------------------------
(* Log for TLC.                                                            *)
EXTENDS Log, TLC

Symmetry == Permutations(Procs)
SmallRequests == {<<1, 1>>, <<1, 3>>, <<2, 2>>}
MixedRequests == {<<1, 1>>, <<2, 3>>}
=============================================================================
