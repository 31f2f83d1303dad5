---------------------------- MODULE MCEdgeSettings ----------------------------
(* Small instances of EdgeSettings for TLC. *)
EXTENDS EdgeSettings, TLC

CONSTANTS e1, e2, h1, h2, x1, x2, m1, m2

OneEdge == {e1}
TwoEdges == {e1, e2}
OneAddress == {x1}
TwoAddresses == {x1, x2}
OneMode == {m1}
TwoModes == {m1, m2}
OneActor == {h1}
TwoActors == {h1, h2}
FourIds == 1 .. 4
SixIds == 1 .. 6

Symmetry == Permutations(TwoEdges) \cup Permutations(TwoAddresses) \cup Permutations(TwoModes)
=============================================================================
