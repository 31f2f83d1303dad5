------------------------ MODULE TempBlacklistOverlap ------------------------
(***************************************************************************)
(* The store of temporary blocks, watched: for which edges requests that    *)
(* store blocks have been inside the store at the same time.                *)
(***************************************************************************)
EXTENDS TempBlacklist

VARIABLE crossed    \* history: the edges on which storing requests have met

\* A request that has blocks to store: a create, or a report that names a block.
Storing(s) == {w \in Worker : job[w].srv = s /\ (job[w].op = "create" \/ job[w].named # {})}

Meeting == {s \in Server : Cardinality(Storing(s)) > 1}

\* Rows that hold the same block.
Twins == {k \in DOMAIN entry : \E l \in DOMAIN entry \ {k} :
             entry[l].srv = entry[k].srv /\ entry[l].ident = entry[k].ident}

\* A meeting is over for an edge when no request stores anything for it, and no block is
\* left in two rows.
Lasting(s) == Storing(s) # {} \/ \E k \in Twins : entry[k].srv = s

Watch == crossed' = {s \in crossed \cup Meeting' : Lasting(s)'}

WatchedSpec == Init /\ crossed = {} /\ [][Next /\ Watch]_<<vars, crossed>>

\* A block comes to be in two rows only where two requests that store blocks of its edge
\* met: as long as they come one after the other, the deletes, flushes, reads, expiries and
\* failures next to them, and ids used again after a flush, never make a row twice; and
\* when the twins of a meeting are gone, only another meeting brings new ones.  (At a
\* meeting both can find no row and store one each, which the search of
\* blacklist.go:233-234 means to prevent.)
TwinsNeedAMeeting == \A k \in Twins : entry[k].srv \in crossed
=============================================================================
