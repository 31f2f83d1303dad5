----------------------------- MODULE MCSiteEdges -----------------------------
(* Small instances of SiteEdges for TLC. *)
EXTENDS SiteEdges, TLC

CONSTANTS e1, e2, h1, h2, d1, d2

TwoEdges == {e1, e2}
OneDomain == {d1}
TwoDomains == {d1, d2}
OneActor == {h1}
TwoActors == {h1, h2}

Symmetry == Permutations(TwoEdges) \cup Permutations(TwoDomains)
ActorSymmetry == Permutations(TwoEdges) \cup Permutations(TwoActors)
=============================================================================
