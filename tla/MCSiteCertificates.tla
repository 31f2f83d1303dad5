-------------------------- MODULE MCSiteCertificates --------------------------
(* Small instances of SiteCertificates for TLC. *)
EXTENDS SiteCertificates, TLC

CONSTANTS a, b, o1, p1, p2, p3, p4, p5, p6

OneDomain == {a}
TwoDomains == {a, b}
OneOperator == {o1}
FourPairs == {p1, p2, p3, p4}
FivePairs == {p1, p2, p3, p4, p5}
SixPairs == {p1, p2, p3, p4, p5, p6}

Symmetry == Permutations(TwoDomains)
=============================================================================
