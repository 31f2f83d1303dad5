-------------------------------- MODULE MCPages --------------------------------
(* Small instances for TLC of SiteEdges, with two handlers at once, and Analytics.  The    *)
(* two have no variable in common, so what one does never changes what the other may do:   *)
(* each behaviour is that of one of them, the other standing still.                         *)
EXTENDS MCSiteEdges, Analytics

CONSTANTS n1, n2, t1, u1, adm, a1, a2

TwoNodes == {n1, n2}
OneSite == {t1}
Users == {u1, adm}
Admins == {adm}
TwoNames == {a1, a2}
\* A minute in which the site was asked, and one under attack whose list of sites was lost.
Samples ==
    {[nic |-> 1, peak |-> 0, attacks |-> a1 :> 0 @@ a2 :> 0, all |-> [asked |-> 3, blocked |-> 1],
      site |-> [s \in Site |-> [asked |-> 1, blocked |-> 1, hit |-> 2, miss |-> 1, bytes |-> 5]], hits |-> [s \in Site |-> a1 :> 1 @@ a2 :> 0]],
     [nic |-> 2, peak |-> 3, attacks |-> a1 :> 1 @@ a2 :> 1, all |-> [asked |-> 2, blocked |-> 2],
      site |-> [s \in Site |-> [asked |-> 0, blocked |-> 0, hit |-> 0, miss |-> 0, bytes |-> 0]], hits |-> [s \in Site |-> a1 :> 0 @@ a2 :> 2]]}
\* One whose chart has a point for each minute, one whose buckets it cuts, one backwards.
Windows == {<<0, 1>>, <<1, 3>>, <<3, 1>>}

VARIABLE moving

PagesInit ==
    /\ Init /\ PageInit
    /\ \/ moving = "edges" /\ \A x \in Viewer \ Admin, y \in Site : grants[x] = {} /\ serves[y] = {}
       \/ moving = "pages"

PagesNext ==
    \/ moving = "edges" /\ Next /\ UNCHANGED <<pageVars, moving>>
    \/ moving = "pages" /\ PageNext /\ UNCHANGED <<vars, moving>>

PagesSpec == PagesInit /\ [][PagesNext]_<<vars, pageVars, moving>>

PagesSymmetry == ActorSymmetry \cup Permutations(TwoNodes)
=============================================================================
