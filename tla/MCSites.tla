-------------------------------- MODULE MCSites --------------------------------
(* Small instances for TLC of SiteEdges and WafRuleSets: which edges serve a site, and     *)
(* which rules they enforce for it.  The two have no variable in common, so what one does  *)
(* never changes what the other may do: each behaviour is that of one of them, the other   *)
(* standing still.                                                                          *)
EXTENDS MCSiteEdges, WafRuleSets

CONSTANTS s1, s2, c1, c2, c3, r1, r2, v1, k1, k2

TwoSites == {s1, s2}
ThreeSets == {c1, c2, c3}
\* A table that travels with the whole site only, and one that also has a post of its own.
TwoKinds == {"anti-cc", "interval-freq-limit"}
TwoRules == {r1, r2}
OneRule == {r1}
OneVersion == {v1}
TwoWorkers == {k1, k2}

VARIABLE moving

SitesInit ==
    /\ Init /\ WafInit
    /\ \/ moving = "edges" /\ \A s \in Site, c \in DOMAIN ruleSets :
                                 uses[s] = NoSet /\ ruleSets[c].role = "custom"
       \/ moving = "rules"

SitesNext ==
    \/ moving = "edges" /\ Next /\ UNCHANGED <<wVars, moving>>
    \/ moving = "rules" /\ WafNext /\ UNCHANGED <<vars, moving>>

SitesSpec == SitesInit /\ [][SitesNext]_<<vars, wVars, moving>>

SitesSymmetry == Symmetry \cup Permutations(TwoSites) \cup Permutations(TwoWorkers)
=============================================================================
