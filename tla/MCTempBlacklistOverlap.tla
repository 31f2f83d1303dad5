------------------------ MODULE MCTempBlacklistOverlap ------------------------
(* Values for the constants of TempBlacklistOverlap. *)
EXTENDS TempBlacklistOverlap, TLC

CONSTANTS s1, s2, i1, w1, w2

TwoServers == {s1, s2}
OneIdent == {i1}
TwoWorkers == {w1, w2}

Symmetry == Permutations(Worker) \cup Permutations(Server)
===============================================================================
