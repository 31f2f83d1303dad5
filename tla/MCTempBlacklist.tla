--------------------------- MODULE MCTempBlacklist ---------------------------
(***************************************************************************)
(* Values for the constants of TempBlacklist.                               *)
(***************************************************************************)
EXTENDS TempBlacklistRefinement, TLC

CONSTANTS s1, s2, i1, i2, w1, w2

TwoServers == {s1, s2}
OneServer == {s1}
TwoIdents == {i1, i2}
OneIdent == {i1}
TwoWorkers == {w1, w2}

Symmetry == Permutations(Worker)
=============================================================================
