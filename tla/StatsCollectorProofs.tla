-------------------------- MODULE StatsCollectorProofs --------------------------
(***************************************************************************)
(* Proofs about StatsCollector, for any number of edges, minutes, requests,    *)
(* failing calls and restarts and any memory of the edges: what is stored is    *)
(* what was counted, and a list that is missing from a minute the collector     *)
(* will not ask for again was lost to a failure or fetched too early.           *)
(*                                                                             *)
(* The collector goes by the newest minute it has stored (Newest), so nothing    *)
(* behind that minute may be unsettled: this is Behind.  It is kept because the  *)
(* walk over one edge's minutes (Walk) goes upwards, passes a minute only when   *)
(* each of its lists is settled, and leaves out only minutes with nothing in     *)
(* them.  The lists in hand are what the edge has counted (InHandOK), as long    *)
(* as the minute was over when they were fetched.                                *)
(***************************************************************************)
EXTENDS StatsCollector, WellFoundedInduction, TLAPS

-----------------------------------------------------------------------------
(* The invariant. *)

Fetching == {"fetch", "insert", "perf"}
FetchingL4 == {"l4fetch", "l4insert"}
Away == {"idle", "next"}
Visiting == {"mark", "list", "snapshot", "l4mark", "l4list"} \cup Fetching \cup FetchingL4

JobSet == [pc : Away \cup Visiting, todo : SUBSET Edge, edge : Edge \cup {0},
           last : 0 .. MaxMinute, list : SUBSET Minute, at : 0 .. MaxMinute,
           i : 0 .. Len(Lists), rows : SUBSET Row]

JobOK(j) ==
    /\ j \in JobSet
    /\ j.pc \in Visiting => j.edge \in Edge
    /\ j.pc \in Fetching \cup FetchingL4 => /\ j.at \in Minute /\ j.at <= now
                                           /\ \A m \in j.list : m <= now
    /\ j.pc \in Fetching => j.i \in DOMAIN Lists
    /\ j.pc = "perf" => Lists[j.i] = "site"

TypeInv ==
    /\ now \in Minute
    /\ seen \in [Edge -> [Minute -> [Kind -> Nat]]]
    /\ table \in [Edge -> [Tables -> [Minute -> SUBSET Row]]]
    /\ missed \subseteq Edge \X Tables \X Minute /\ early \subseteq Edge \X Tables \X (1 .. now)
    /\ JobOK(c)

\* The tables of what an edge counts, and those that go by the rows of one of them.
Counting == Tables \ {"server"}
Marks == {"ip", "l4"}
Of(t) == IF t = "l4" THEN {"l4"} ELSE Counting \ {"l4"}

\* What an edge tells of a minute, and how much it has heard in it.
Source(f) == IF f = "performance" THEN "site" ELSE f
Told(e, f, m) ==
    IF f = "l4" THEN {[site |-> 0, name |-> "", n |-> seen[e][m]["packet"]]}
    ELSE Decode(Source(f), Shape[e], Entries(Source(f), seen[e][m]))
Heard(e, t, m) == IF t = "l4" THEN seen[e][m]["packet"] ELSE Requests(e, m)

\* Nothing more can come of a list.
Settled(e, f, m) ==
    Excused(e, f, m) \/ (m < now /\ (table[e][f][m] # {} \/ Wanted(e, f, m) = {}))

Counted ==
    \A e \in Edge, f \in Counting, m \in Minute :
       \/ table[e][f][m] = {} \/ <<e, f, m>> \in early
       \/ m < now /\ table[e][f][m] = Wanted(e, f, m)

Right(j, f) ==
    \/ <<j.edge, f, j.at>> \in early
    \/ j.at < now /\ j.rows = Told(j.edge, f, j.at)

InHandOK(j) ==
    /\ j.pc = "insert" => \A f \in Fed(Lists[j.i]) : Right(j, f)
    /\ j.pc = "perf" => Right(j, "performance")
    /\ j.pc = "l4insert" => Right(j, "l4")

\* The minutes up to low are settled; those still to come, L, lie above it and leave out
\* only quiet ones.
Passed(e, t, low) == \A m \in Kept(e), f \in Of(t) : m <= low => Settled(e, f, m)
Ahead(e, t, L, low) ==
    \A l \in L : /\ l > low /\ l <= now
                 /\ t = "l4" => Heard(e, t, l) > 0
                 /\ \A m \in Kept(e) : low < m /\ m < l => m \in L \/ Heard(e, t, m) = 0

Walk(j) ==
    /\ j.pc \in Fetching =>
         /\ Passed(j.edge, "ip", j.at - 1) /\ Ahead(j.edge, "ip", j.list, j.at)
         /\ \A n \in HasRows(j.edge, "ip") : n <= j.at
         /\ \A k \in 1 .. j.i - 1 : \A f \in Fed(Lists[k]) : Settled(j.edge, f, j.at)
         /\ j.pc = "perf" => Settled(j.edge, "site", j.at)
    /\ j.pc \in FetchingL4 =>
         /\ Passed(j.edge, "l4", j.at - 1) /\ Ahead(j.edge, "l4", j.list, j.at)
         /\ \A n \in HasRows(j.edge, "l4") : n < j.at
         /\ seen[j.edge][j.at]["packet"] > 0
    /\ j.pc = "list" => j.last = Newest(j.edge, "ip")
    /\ j.pc = "l4list" => j.last = Newest(j.edge, "l4")

Handling(e, t, m) == t = "ip" /\ c.edge = e /\ c.at = m /\ c.pc \in Fetching
Behind ==
    \A e \in Edge, t \in Marks : \A m \in Kept(e), n \in HasRows(e, t) :
       m <= n => Handling(e, t, m) \/ \A f \in Of(t) : Settled(e, f, m)

IInv == TypeInv /\ Counted /\ InHandOK(c) /\ Walk(c) /\ Behind

-----------------------------------------------------------------------------
(* The least and the greatest of a set of minutes. *)

Below == {p \in Nat \X Nat : p[1] < p[2]}

LEMMA BelowWellFounded == IsWellFoundedOn(Below, Nat)
  BY NatLessThanWellFounded DEF OpToRel, Below

LEMMA LeastIs ==
    ASSUME NEW S, S \subseteq Nat, S # {}
    PROVE  Least(S) \in S /\ \A y \in S : Least(S) <= y
<1>1. PICK x \in S : \A y \in S : ~(<<y, x>> \in Below)
  BY BelowWellFounded, WFMin
<1>2. ASSUME NEW y \in S PROVE x <= y
  <2>1. x \in Nat /\ y \in Nat /\ <<y, x>> \notin Below
    BY <1>1
  <2>2. ~(y < x)
    BY <2>1 DEF Below
  <2>. QED  BY <2>1, <2>2
<1>. QED  BY <1>2 DEF Least

LEMMA BoundsOK == MaxMinute \in Nat /\ Keep \in Nat /\ 1 \in Minute
<1>. \A x \in {MaxMinute, Keep, MaxEvent, MaxFault} : x \in Nat
  BY BoundAssumption
<1>. QED  BY BoundAssumption DEF Minute

LEMMA GreatestIs ==
    ASSUME NEW S, S \subseteq Minute, S # {}
    PROVE  Greatest(S) \in S /\ \A y \in S : y <= Greatest(S)
<1>. DEFINE D == {MaxMinute - y : y \in S}
<1>0. \A y \in S : y \in Nat /\ y <= MaxMinute
  BY BoundsOK DEF Minute
<1>1. D \subseteq Nat /\ D # {}
  <2>1. \A y \in S : MaxMinute - y \in Nat
    BY <1>0, BoundsOK
  <2>. QED  BY <2>1
<1>2. PICK x \in D : \A y \in D : x <= y
  BY <1>1, LeastIs
<1>3. PICK z \in S : x = MaxMinute - z
  BY <1>2
<1>4. ASSUME NEW y \in S PROVE y <= z
  <2>1. MaxMinute - z <= MaxMinute - y
    BY <1>2, <1>3
  <2>. QED  BY <1>0, <2>1, BoundsOK
<1>. QED  BY <1>3, <1>4 DEF Greatest

LEMMA NewestIs ==
    ASSUME NEW e \in Edge, NEW f
    PROVE  /\ Newest(e, f) \in 0 .. MaxMinute
           /\ HasRows(e, f) \subseteq Minute
           /\ \A n \in HasRows(e, f) : n <= Newest(e, f)
           /\ HasRows(e, f) = {} => Newest(e, f) = 0
           /\ HasRows(e, f) # {} => Newest(e, f) \in HasRows(e, f)
<1>1. HasRows(e, f) \subseteq Minute
  BY DEF HasRows
<1>2. CASE HasRows(e, f) = {}
  BY <1>2, BoundsOK DEF Newest
<1>3. CASE HasRows(e, f) # {}
  BY <1>1, <1>3, GreatestIs, BoundsOK DEF Newest, Minute
<1>. QED  BY <1>1, <1>2, <1>3

-----------------------------------------------------------------------------
(* Lists and statements. *)

ListNames ==
    {"ip", "isp", "country", "referer", "url", "useragent", "site", "domain", "reason"}

LEMMA ListsOK ==
    /\ Lists \in Seq(ListNames) /\ Len(Lists) \in Nat /\ DOMAIN Lists = 1 .. Len(Lists)
    /\ 1 \in DOMAIN Lists /\ \A i \in DOMAIN Lists : Lists[i] \in ListNames
<1>1. {AllLists[i] : i \in DOMAIN AllLists} = ListNames
  <2>1. DOMAIN AllLists = 1 .. 9
    BY DEF AllLists
  <2>2. \A i \in 1 .. 9 : AllLists[i] \in ListNames
    BY DEF AllLists, ListNames
  <2>3. \A f \in ListNames : \E i \in 1 .. 9 : AllLists[i] = f
    <3>1. /\ AllLists[1] = "ip" /\ AllLists[2] = "isp" /\ AllLists[3] = "country"
          /\ AllLists[4] = "referer" /\ AllLists[5] = "url" /\ AllLists[6] = "useragent"
          /\ AllLists[7] = "site" /\ AllLists[8] = "domain" /\ AllLists[9] = "reason"
      BY DEF AllLists
    <3>. QED  BY <3>1 DEF ListNames
  <2>. QED  BY <2>1, <2>2, <2>3
<1>2. Lists \in Seq(ListNames) /\ Lists # <<>>
  BY <1>1, ListsAssumption
<1>. QED  BY <1>2

LEMMA TablesOK ==
    /\ Marks \subseteq Tables /\ Marks \subseteq Counting /\ Counting \subseteq Tables
    /\ "server" \in Tables \ Counting
    /\ \A i \in DOMAIN Lists : Lists[i] \in Of("ip")
    /\ \A i \in DOMAIN Lists : \A f \in Fed(Lists[i]) : f \in Of("ip") /\ Source(f) = Lists[i]
    /\ \A f \in Of("ip") : f # "l4" /\ f # "server" /\ f \in Counting
                           /\ \E i \in DOMAIN Lists : f \in Fed(Lists[i])
    /\ \A f \in Of("ip") : f \in ListNames \cup {"performance"}
    /\ Of("l4") = {"l4"} /\ Counting = Of("ip") \cup {"l4"}
<1>1. \A i \in DOMAIN Lists : Lists[i] \in ListNames
  BY ListsOK
<1>2. "ip" \in Tables
  BY ListsOK, ListsAssumption DEF Tables
<1>3. \A i \in DOMAIN Lists : Lists[i] \in Tables
  BY DEF Tables
<1>4. \A i \in DOMAIN Lists : Lists[i] \notin {"l4", "server", "performance"}
  BY <1>1 DEF ListNames
<1>5. \E i \in DOMAIN Lists : Lists[i] = "site"
  BY ListsAssumption
<1>6. \A f \in Of("ip") : f = "performance" \/ \E i \in DOMAIN Lists : f = Lists[i]
  BY DEF Of, Counting, Tables
<1>7. \A i \in DOMAIN Lists : Lists[i] \in Of("ip")
  BY <1>3, <1>4 DEF Of, Counting
<1>8. "performance" \in Of("ip")
  BY DEF Of, Counting, Tables
<1>9. "l4" \in Tables /\ "server" \in Tables
  BY DEF Tables
<1>10. \A f \in Of("ip") : f # "l4" /\ f # "server" /\ f \in Counting
  BY DEF Of, Counting
<1>11. \A f \in Of("ip") : \E i \in DOMAIN Lists : f \in Fed(Lists[i])
  BY <1>5, <1>6 DEF Fed
<1>12. \A i \in DOMAIN Lists : \A f \in Fed(Lists[i]) : f \in Of("ip") /\ Source(f) = Lists[i]
  BY <1>4, <1>7, <1>8 DEF Fed, Source
<1>13. \A f \in Of("ip") : f \in ListNames \cup {"performance"}
  BY <1>1, <1>6
<1>14. /\ Marks \subseteq Tables /\ Marks \subseteq Counting /\ Counting \subseteq Tables
       /\ "server" \in Tables \ Counting
       /\ Of("l4") = {"l4"} /\ Counting = Of("ip") \cup {"l4"}
  BY <1>2, <1>9 DEF Marks, Counting, Of
<1>. QED  BY <1>7, <1>10, <1>11, <1>12, <1>13, <1>14

\* A statement leaves rows it found or was given; of nothing it makes nothing.
LEMMA StoredWithin ==
    ASSUME NEW f, NEW T, NEW L
    PROVE  Stored(f, T, L) \subseteq T \cup L
<1>1. \A R : R \subseteq L => Upsert(T, R) \subseteq T \cup L
  BY DEF Upsert
<1>2. /\ InsertIP(T, L) \subseteq T \cup L /\ InsertISP(T, L) \subseteq T \cup L
      /\ InsertCountry(T, L) \subseteq T \cup L /\ InsertReferer(T, L) \subseteq T \cup L
      /\ InsertURL(T, L) \subseteq T \cup L /\ InsertUserAgent(T, L) \subseteq T \cup L
      /\ InsertDomain(T, L) \subseteq T \cup L
  BY <1>1 DEF InsertIP, InsertISP, InsertCountry, InsertReferer, InsertURL, InsertUserAgent, InsertDomain
<1>3. InsertSite(T, L) \subseteq T \cup L
  BY <1>1 DEF InsertSite
<1>4. InsertPerformance(T, L) \subseteq T \cup L /\ InsertReason(T, L) \subseteq T \cup L
  BY DEF InsertPerformance, InsertReason
<1>5. InsertL4(T, L) \subseteq T \cup L /\ InsertServer(T, L) \subseteq T \cup L
  BY <1>1 DEF InsertL4, InsertServer
<1>. QED  BY <1>2, <1>3, <1>4, <1>5 DEF Stored

\* A list that is stored twice is stored once.
LEMMA StoredTwice ==
    ASSUME NEW f \in ListNames \cup {"performance"}, NEW T, NEW L,
           T = {} \/ T = Stored(f, {}, L)
    PROVE  Stored(f, T, L) = Stored(f, {}, L)
<1>1. \A R : Upsert({}, R) = R /\ Upsert(R, R) = R
  BY DEF Upsert, SameKey
<1>2. CASE T = {}
  BY <1>2
<1>3. CASE T = Stored(f, {}, L)
  <2>. DEFINE P == {r \in L : r.name # "" /\ r.n > 0}
              Q == {r \in L : r.site > 0}
  <2>1. ASSUME f \in {"ip", "isp", "country", "referer", "url", "useragent", "domain"}
        PROVE  \A V : Stored(f, V, L) = Upsert(V, P)
    BY <2>1 DEF Stored, InsertIP, InsertISP, InsertCountry, InsertReferer, InsertURL, InsertUserAgent, InsertDomain
  <2>2. ASSUME f = "site" PROVE \A V : Stored(f, V, L) = Upsert(V, Q)
    BY <2>2 DEF Stored, InsertSite
  <2>3. ASSUME f = "reason" PROVE \A V : Stored(f, V, L) = P
    BY <2>3 DEF Stored, InsertReason
  <2>4. ASSUME f = "performance"
        PROVE  \A V : Stored(f, V, L) = IF \E r \in L : r.site > 0 THEN Q ELSE V
    BY <2>4 DEF Stored, InsertPerformance
  <2>. QED  BY <1>1, <1>3, <2>1, <2>2, <2>3, <2>4, ZenonT(60) DEF ListNames
<1>. QED  BY <1>2, <1>3

LEMMA NothingStored == ASSUME NEW f PROVE Stored(f, {}, {}) = {}
  BY StoredWithin

\* What an edge tells is rows; when it has heard nothing, nothing is wanted.
LEMMA EntriesOK ==
    ASSUME NEW f, NEW k \in [Kind -> Nat], NEW shape
    PROVE  /\ Entries(f, k) \subseteq Row
           /\ Decode(f, shape, Entries(f, k)) \subseteq Row
           /\ k["full"] = 0 /\ k["bare"] = 0 => Decode(f, shape, Entries(f, k)) = {}
<1>1. k["full"] \in Nat /\ k["bare"] \in Nat
  BY DEF Kind
<1>2. [site |-> 1, name |-> "x", n |-> k["full"]] \in Row
  BY <1>1 DEF Row
<1>3. [site |-> 0, name |-> Named(f), n |-> k["bare"]] \in Row
  BY <1>1 DEF Row, Named
<1>4. Entries(f, k) \subseteq Row
  BY <1>2, <1>3 DEF Entries
<1>5. \A r \in Row : [r EXCEPT !.site = 0] \in Row
  BY DEF Row
<1>6. Decode(f, shape, Entries(f, k)) \subseteq Row
  BY <1>4, <1>5 DEF Decode
<1>7. ASSUME k["full"] = 0, k["bare"] = 0 PROVE Entries(f, k) = {}
  BY <1>7 DEF Entries
<1>8. Decode(f, shape, {}) = {}
  BY DEF Decode
<1>. QED  BY <1>4, <1>6, <1>7, <1>8

LEMMA WantedIs ==
    ASSUME NEW e \in Edge, NEW m \in Minute, NEW f \in Of("ip")
    PROVE  Wanted(e, f, m) = Stored(f, {}, Told(e, f, m))
  BY TablesOK DEF Wanted, Told, Source

LEMMA ToldOK ==
    ASSUME TypeInv, NEW e \in Edge, NEW m \in Minute, NEW f \in Counting
    PROVE  Told(e, f, m) \subseteq Row
<1>1. seen[e][m] \in [Kind -> Nat]
  BY DEF TypeInv
<1>2. CASE f = "l4"
  BY <1>1, <1>2 DEF Told, Row, Kind
<1>3. CASE f # "l4"
  BY <1>1, <1>3, EntriesOK DEF Told
<1>. QED  BY <1>2, <1>3

LEMMA Quiet ==
    ASSUME TypeInv, NEW e \in Edge, NEW m \in Minute, NEW t \in Marks, Heard(e, t, m) = 0,
           NEW f \in Of(t)
    PROVE  Wanted(e, f, m) = {}
<1>1. seen[e][m] \in [Kind -> Nat]
  BY DEF TypeInv
<1>2. CASE t = "l4"
  <2>. DEFINE r == [site |-> 0, name |-> "", n |-> seen[e][m]["packet"]]
  <2>1. r.n = 0 /\ f = "l4"
    BY <1>2 DEF Heard, Of
  <2>2. Wanted(e, f, m) = {q \in {r} : q.n > 0}
    BY <2>1 DEF Wanted
  <2>. HIDE DEF r
  <2>. QED  BY <2>1, <2>2
<1>3. CASE t = "ip"
  <2>1. seen[e][m]["full"] = 0 /\ seen[e][m]["bare"] = 0
    BY <1>1, <1>3 DEF Heard, Requests, Kind
  <2>2. Told(e, f, m) = {}
    BY <1>1, <1>3, <2>1, EntriesOK, TablesOK DEF Told
  <2>. QED  BY <1>3, <2>2, WantedIs, NothingStored
<1>. QED  BY <1>2, <1>3 DEF Marks

-----------------------------------------------------------------------------
(* What a call of the collector may do to the tables.                           *)

Grows == early \subseteq early' /\ missed \subseteq missed'

\* It changes tables of F, of the minute in hand, and leaves in them what the edge counted.
Call(F) ==
    /\ Calm /\ Grows
    /\ \A e \in Edge, f \in Counting, m \in Minute :
         \/ table'[e][f][m] = table[e][f][m]
         \/ /\ f \in F /\ e = c.edge /\ m = c.at
            /\ <<e, f, m>> \in early \/ (m < now /\ table'[e][f][m] = Wanted(e, f, m))

\* An edge tells and is asked for the same before and after a call.
LEMMA CalmKeeps ==
    ASSUME Calm
    PROVE  /\ now' = now /\ seen' = seen
           /\ \A e, f, m : Told(e, f, m)' = Told(e, f, m)
           /\ \A e, f, m : Wanted(e, f, m)' = Wanted(e, f, m)
           /\ \A e, t, m : Heard(e, t, m)' = Heard(e, t, m)
           /\ \A e : Kept(e)' = Kept(e)
<1>1. now' = now /\ seen' = seen
  BY DEF Calm
<1>. QED  BY <1>1 DEF Told, Wanted, Heard, Requests, Kept

LEMMA CallSettles ==
    ASSUME IInv, NEW F, F \subseteq Counting, Call(F)
    PROVE  /\ \A e \in Edge, f \in Counting, m \in Minute : Settled(e, f, m) => Settled(e, f, m)'
           /\ \A low : \A e \in Edge, t \in Marks : Passed(e, t, low) => Passed(e, t, low)'
           /\ \A L, low : \A e \in Edge, t \in Marks : Ahead(e, t, L, low) <=> Ahead(e, t, L, low)'
           /\ Counted'
<1>1. /\ now' = now /\ \A e, f, m : Wanted(e, f, m)' = Wanted(e, f, m)
      /\ \A e, t, m : Heard(e, t, m)' = Heard(e, t, m)
      /\ \A e : Kept(e)' = Kept(e)
  BY CalmKeeps DEF Call
<1>2. early \subseteq early' /\ missed \subseteq missed'
  BY DEF Call, Grows
<1>3. ASSUME NEW e \in Edge, NEW f \in Counting, NEW m \in Minute, Settled(e, f, m)
      PROVE  Settled(e, f, m)'
  <2>1. CASE Excused(e, f, m)
    BY <1>2, <2>1 DEF Settled, Excused
  <2>2. CASE ~Excused(e, f, m)
    <3>1. m < now /\ (table[e][f][m] # {} \/ Wanted(e, f, m) = {}) /\ <<e, f, m>> \notin early
      BY <1>3, <2>2 DEF Settled, Excused
    <3>2. table'[e][f][m] = table[e][f][m] \/ table'[e][f][m] = Wanted(e, f, m)
      BY <3>1 DEF Call
    <3>. QED  BY <1>1, <3>1, <3>2 DEF Settled
  <2>. QED  BY <2>1, <2>2
<1>4. \A t \in Marks : Of(t) \subseteq Counting
  BY TablesOK DEF Marks
<1>5. \A e : Kept(e) \subseteq Minute
  BY DEF Kept
<1>6. ASSUME NEW e \in Edge, NEW t \in Marks, NEW low, Passed(e, t, low)
      PROVE  Passed(e, t, low)'
  <2>1. ASSUME NEW m \in Kept(e), NEW f \in Of(t), m <= low PROVE Settled(e, f, m)'
    BY <1>3, <1>4, <1>5, <1>6, <2>1 DEF Passed
  <2>. QED  BY <1>1, <2>1 DEF Passed
<1>7. ASSUME NEW e \in Edge, NEW t \in Marks, NEW L, NEW low
      PROVE  Ahead(e, t, L, low) <=> Ahead(e, t, L, low)'
  BY <1>1 DEF Ahead
<1>8. ASSUME NEW e \in Edge, NEW f \in Counting, NEW m \in Minute
      PROVE  \/ table'[e][f][m] = {} \/ <<e, f, m>> \in early'
             \/ m < now' /\ table'[e][f][m] = Wanted(e, f, m)'
  BY <1>1, <1>2 DEF Call, IInv, Counted
<1>9. Counted'
  BY <1>8 DEF Counted
<1>. QED  BY <1>3, <1>6, <1>7, <1>9

\* A statement that stores what the edge counted settles the list.
LEMMA PutIs ==
    ASSUME IInv, NEW f \in Counting, NEW d, NEW a, d = c.edge, a = c.at, c.pc \in {"insert", "perf", "l4insert"}, Right(c, f),
           f = "l4" => seen[c.edge][c.at]["packet"] > 0,
           Put(f, c.at, c.rows), Calm, UNCHANGED early, missed \subseteq missed'
    PROVE  Call({f}) /\ Settled(d, f, a)'
           /\ table' \in [Edge -> [Tables -> [Minute -> SUBSET Row]]]
<1>1. c.edge \in Edge /\ c.at \in Minute /\ c.rows \subseteq Row /\ f \in Tables
  BY TablesOK DEF IInv, TypeInv, JobOK, JobSet, Visiting, Fetching, FetchingL4
<1>. DEFINE T == table[c.edge][f][c.at]
            U == Stored(f, T, c.rows)
<1>2. T \subseteq Row /\ U \subseteq Row
  <2>1. T \subseteq Row
    BY <1>1 DEF IInv, TypeInv
  <2>. QED  BY <1>1, <2>1, StoredWithin
<1>3. table' = [table EXCEPT ![c.edge][f][c.at] = U]
  BY DEF Put
<1>. HIDE DEF U
<1>4. table' \in [Edge -> [Tables -> [Minute -> SUBSET Row]]]
  BY <1>1, <1>2, <1>3 DEF IInv, TypeInv
<1>5. /\ table'[c.edge][f][c.at] = U
      /\ \A e \in Edge, g \in Tables, m \in Minute :
            <<e, g, m>> # <<c.edge, f, c.at>> => table'[e][g][m] = table[e][g][m]
  BY <1>1, <1>2, <1>3 DEF IInv, TypeInv
<1>6. <<c.edge, f, c.at>> \in early \/ (c.at < now /\ U = Wanted(c.edge, f, c.at))
  <2>. SUFFICES ASSUME <<c.edge, f, c.at>> \notin early
                PROVE  c.at < now /\ U = Wanted(c.edge, f, c.at)
    OBVIOUS
  <2>1. c.at < now /\ c.rows = Told(c.edge, f, c.at)
    BY DEF Right
  <2>2. T = {} \/ T = Wanted(c.edge, f, c.at)
    BY <1>1 DEF IInv, Counted
  <2>3. CASE f \in Of("ip")
    <3>1. Wanted(c.edge, f, c.at) = Stored(f, {}, c.rows) /\ f \in ListNames \cup {"performance"}
      BY <1>1, <2>1, <2>3, WantedIs, TablesOK
    <3>2. Stored(f, T, c.rows) = Stored(f, {}, c.rows)
      BY <2>2, <3>1, StoredTwice
    <3>. QED  BY <2>1, <3>1, <3>2 DEF U
  <2>4. CASE f = "l4"
    <3>. DEFINE r == [site |-> 0, name |-> "", n |-> seen[c.edge][c.at]["packet"]]
    <3>1. c.rows = {r} /\ r.n > 0
      BY <2>1, <2>4 DEF Told
    <3>2. Wanted(c.edge, f, c.at) = {r}
      BY <2>4, <3>1 DEF Wanted
    <3>. HIDE DEF r
    <3>3. Stored(f, T, {r}) = Upsert(T, {r})
      BY <2>4 DEF Stored, InsertL4
    <3>4. T = {} \/ T = {r}
      BY <2>2, <3>2
    <3>5. Upsert(T, {r}) = {r}
      BY <3>4 DEF Upsert, SameKey
    <3>. QED  BY <2>1, <3>1, <3>2, <3>3, <3>5 DEF U
  <2>. QED  BY <2>3, <2>4, TablesOK
<1>7. Call({f})
  <2>1. \A e \in Edge, g \in Counting, m \in Minute :
           \/ table'[e][g][m] = table[e][g][m]
           \/ /\ g \in {f} /\ e = c.edge /\ m = c.at
              /\ <<e, g, m>> \in early \/ (m < now /\ table'[e][g][m] = Wanted(e, g, m))
    BY <1>5, <1>6, TablesOK
  <2>. QED  BY <2>1 DEF Call, Grows
<1>8. Settled(d, f, a)'
  <2>1. now' = now /\ \A e, g, m : Wanted(e, g, m)' = Wanted(e, g, m)
    BY CalmKeeps
  <2>2. \/ <<d, f, a>> \in early'
        \/ a < now' /\ (table'[d][f][a] # {} \/ Wanted(d, f, a)' = {})
    BY <1>5, <1>6, <2>1
  <2>. QED  BY <2>2 DEF Settled, Excused
<1>. QED  BY <1>4, <1>7, <1>8

-----------------------------------------------------------------------------
(* Types. *)

LEMMA IdleOK ==
    /\ Idle \in JobSet
    /\ \A S : S \subseteq Edge => [Idle EXCEPT !.pc = "next", !.todo = S] \in JobSet
    /\ \A S, e : S \subseteq Edge /\ e \in Edge =>
          [Idle EXCEPT !.pc = "mark", !.todo = S, !.edge = e] \in JobSet
<1>1. /\ {} \in SUBSET Edge /\ {} \in SUBSET Minute /\ {} \in SUBSET Row
      /\ 0 \in 0 .. MaxMinute /\ 0 \in 0 .. Len(Lists) /\ 0 \in Edge \cup {0}
      /\ {"idle", "next", "mark"} \subseteq Away \cup Visiting
  BY ListsOK, BoundsOK DEF Away, Visiting
<1>2. Idle \in JobSet
  BY <1>1 DEF Idle, JobSet
<1>. QED  BY <1>1, <1>2 DEF JobSet

LEMMA LeaveIs ==
    ASSUME TypeInv, LeaveEdge
    PROVE  JobOK(c)' /\ c'.pc = "next"
<1>1. c.todo \subseteq Edge
  BY DEF TypeInv, JobOK, JobSet
<1>2. c' \in JobSet /\ c'.pc = "next"
  BY <1>1, IdleOK DEF LeaveEdge, Idle
<1>. QED  BY <1>2 DEF JobOK, Visiting, Fetching, FetchingL4

\* The next minute is the least of those that are left.
LEMMA NextIs ==
    ASSUME TypeInv, now' = now, c.pc \in Visiting, NEW L, L \subseteq Minute, NEW last,
           \A m \in L : m <= now, NextMinute(L, last)
    PROVE  LET S == {m \in L : m > last} IN
           /\ JobOK(c)' /\ c'.edge = c.edge
           /\ \/ S = {} /\ c'.pc = "snapshot"
              \/ \E a \in S : /\ \A y \in S : a <= y
                              /\ c'.pc = "fetch" /\ c'.list = S \ {a} /\ c'.at = a /\ c'.i = 1
<1>. DEFINE S == {m \in L : m > last}
<1>1. c \in JobSet /\ c.edge \in Edge
  BY DEF TypeInv, JobOK
<1>2. S \subseteq Minute
  OBVIOUS
<1>3. CASE S = {}
  <2>1. c' = [c EXCEPT !.pc = "snapshot", !.list = {}, !.rows = {}]
    BY <1>3 DEF NextMinute
  <2>2. c' \in JobSet /\ c'.pc = "snapshot" /\ c'.edge = c.edge
    BY <1>1, <2>1 DEF JobSet, Visiting
  <2>. QED  BY <1>1, <1>3, <2>2 DEF JobOK, Fetching, FetchingL4
<1>4. CASE S # {}
  <2>1. PICK a \in S : a = Least(S) /\ \A y \in S : a <= y
    <3>1. S \subseteq Nat
      BY <1>2 DEF Minute
    <3>. HIDE DEF S
    <3>. QED  BY <1>4, <3>1, LeastIs
  <2>2. c' = [c EXCEPT !.pc = "fetch", !.list = S \ {a}, !.at = a, !.i = 1, !.rows = {}]
    BY <1>4, <2>1 DEF NextMinute
  <2>3. a \in Minute /\ a <= now
    OBVIOUS
  <2>. HIDE DEF S
  <2>5. /\ S \ {a} \in SUBSET Minute /\ a \in 0 .. MaxMinute /\ {} \in SUBSET Row
        /\ 1 \in 0 .. Len(Lists) /\ "fetch" \in Away \cup Visiting
    BY <1>2, <2>3, BoundsOK, ListsOK DEF Minute, Visiting, Fetching
  <2>4. /\ c' \in JobSet /\ c'.pc = "fetch" /\ c'.edge = c.edge /\ c'.list = S \ {a}
        /\ c'.at = a /\ c'.i = 1
    BY <1>1, <2>2, <2>5 DEF JobSet
  <2>. QED  BY <1>1, <2>1, <2>3, <2>4, ListsOK DEF JobOK, Fetching, FetchingL4, S
<1>. QED  BY <1>3, <1>4

LEMMA NextL4Is ==
    ASSUME TypeInv, now' = now, c.pc \in Visiting, NEW L, L \subseteq Minute, NEW last,
           \A m \in L : m <= now, NextL4(L, last)
    PROVE  LET S == {m \in L : m > last} IN
           /\ JobOK(c)'
           /\ \/ S = {} /\ c'.pc = "next"
              \/ \E a \in S : /\ \A y \in S : a <= y
                              /\ c'.pc = "l4fetch" /\ c'.list = S \ {a} /\ c'.at = a
                              /\ c'.edge = c.edge
<1>. DEFINE S == {m \in L : m > last}
<1>1. c \in JobSet /\ c.edge \in Edge
  BY DEF TypeInv, JobOK
<1>2. S \subseteq Minute
  OBVIOUS
<1>3. CASE S = {}
  <2>1. LeaveEdge
    BY <1>3 DEF NextL4
  <2>. QED  BY <1>3, <2>1, LeaveIs
<1>4. CASE S # {}
  <2>1. PICK a \in S : a = Least(S) /\ \A y \in S : a <= y
    <3>1. S \subseteq Nat
      BY <1>2 DEF Minute
    <3>. HIDE DEF S
    <3>. QED  BY <1>4, <3>1, LeastIs
  <2>2. c' = [c EXCEPT !.pc = "l4fetch", !.list = S \ {a}, !.at = a, !.rows = {}]
    BY <1>4, <2>1 DEF NextL4
  <2>3. a \in Minute /\ a <= now
    OBVIOUS
  <2>. HIDE DEF S
  <2>5. S \ {a} \in SUBSET Minute /\ a \in 0 .. MaxMinute /\ {} \in SUBSET Row
    BY <1>2, <2>3, BoundsOK DEF Minute
  <2>4. /\ c' \in JobSet /\ c'.pc = "l4fetch" /\ c'.edge = c.edge /\ c'.list = S \ {a} /\ c'.at = a
    BY <1>1, <2>2, <2>5 DEF JobSet, Visiting, FetchingL4
  <2>. QED  BY <1>1, <2>1, <2>3, <2>4 DEF JobOK, Fetching, FetchingL4, S
<1>. QED  BY <1>3, <1>4

LEMMA FollowingOK ==
    ASSUME TypeInv, now' = now, c.pc \in Fetching, Following
    PROVE  JobOK(c)'
<1>1. /\ c \in JobSet /\ c.edge \in Edge /\ c.at \in Minute /\ c.at <= now /\ c.i \in DOMAIN Lists
      /\ \A m \in c.list : m <= now
  BY DEF TypeInv, JobOK, Visiting
<1>2. CASE c.i = Len(Lists)
  <2>1. NextMinute(c.list, 0) /\ c.list \subseteq Minute
    BY <1>1, <1>2 DEF Following, JobSet
  <2>. QED  BY <1>1, <2>1, NextIs DEF Visiting
<1>3. CASE c.i # Len(Lists)
  <2>1. c' = [c EXCEPT !.pc = "fetch", !.i = c.i + 1, !.rows = {}]
    BY <1>3 DEF Following
  <2>2. c.i + 1 \in DOMAIN Lists /\ c.i + 1 \in 0 .. Len(Lists)
    BY <1>1, <1>3, ListsOK
  <2>3. /\ c' \in JobSet /\ c'.pc = "fetch" /\ c'.i = c.i + 1 /\ c'.at = c.at
        /\ c'.edge = c.edge /\ c'.list = c.list
    BY <1>1, <2>1, <2>2 DEF JobSet, Visiting, Fetching
  <2>. QED  BY <1>1, <2>2, <2>3 DEF JobOK, Fetching, FetchingL4
<1>. QED  BY <1>2, <1>3

LEMMA PutType ==
    ASSUME TypeInv, c.edge \in Edge, NEW f \in Tables, NEW m \in Minute, NEW L, L \subseteq Row,
           Put(f, m, L)
    PROVE  table' \in [Edge -> [Tables -> [Minute -> SUBSET Row]]]
<1>. DEFINE U == Stored(f, table[c.edge][f][m], L)
<1>1. U \subseteq Row
  <2>1. table[c.edge][f][m] \subseteq Row
    BY DEF TypeInv
  <2>. QED  BY <2>1, StoredWithin
<1>2. table' = [table EXCEPT ![c.edge][f][m] = U]
  BY DEF Put
<1>. HIDE DEF U
<1>. QED  BY <1>1, <1>2 DEF TypeInv

LEMMA LoseType ==
    ASSUME TypeInv, c.edge \in Edge, NEW F, F \subseteq Tables, NEW m \in Minute, Lose(F, m)
    PROVE  missed' \subseteq Edge \X Tables \X Minute /\ missed \subseteq missed'
  BY DEF TypeInv, Lose

LEMMA EarlyType ==
    ASSUME TypeInv, now' = now, c.edge \in Edge, c.at \in Minute, NEW F, F \subseteq Tables, Early(F)
    PROVE  /\ early' \subseteq Edge \X Tables \X (1 .. now') /\ early \subseteq early'
           /\ \A f \in F : c.at = now => <<c.edge, f, c.at>> \in early'
<1>1. CASE c.at = now
  <2>1. early' = early \cup {<<c.edge, f, c.at>> : f \in F} /\ c.at \in 1 .. now
    BY <1>1 DEF Early, TypeInv, Minute
  <2>. QED  BY <2>1 DEF TypeInv
<1>2. CASE c.at # now
  BY <1>2 DEF Early, TypeInv
<1>. QED  BY <1>1, <1>2

\* The job changes in its phase and a few fields.
LEMMA JobMoves ==
    ASSUME TypeInv, now' = now, c.pc \in Visiting, NEW p, NEW l, NEW R, p \in Visiting, l \in 0 .. MaxMinute,
           R \subseteq Row,
           p \in Fetching => c.pc \in Fetching, p \in FetchingL4 => c.pc \in FetchingL4,
           p = "perf" => Lists[c.i] = "site",
           c' = [c EXCEPT !.pc = p, !.last = l, !.rows = R]
    PROVE  /\ JobOK(c)' /\ c'.pc = p /\ c'.last = l /\ c'.rows = R
           /\ c'.edge = c.edge /\ c'.at = c.at /\ c'.i = c.i /\ c'.list = c.list
<1>1. c \in JobSet /\ c.edge \in Edge
  BY DEF TypeInv, JobOK
<1>2. /\ c' \in JobSet /\ c'.pc = p /\ c'.last = l /\ c'.rows = R
      /\ c'.edge = c.edge /\ c'.at = c.at /\ c'.i = c.i /\ c'.list = c.list
  BY <1>1 DEF JobSet
<1>. QED  BY <1>1, <1>2 DEF TypeInv, JobOK, Fetching, FetchingL4

LEMMA JobFacts ==
    ASSUME TypeInv
    PROVE  /\ c.last \in 0 .. MaxMinute /\ c.rows \subseteq Row /\ c.todo \subseteq Edge
           /\ c.list \subseteq Minute
           /\ c \in JobSet
           /\ \A p : [c EXCEPT !.pc = p] = [c EXCEPT !.pc = p, !.last = c.last, !.rows = c.rows]
           /\ \A p, R : [c EXCEPT !.pc = p, !.rows = R] = [c EXCEPT !.pc = p, !.last = c.last, !.rows = R]
           /\ \A p, l : [c EXCEPT !.last = l, !.pc = p] = [c EXCEPT !.pc = p, !.last = l, !.rows = c.rows]
  BY DEF TypeInv, JobOK, JobSet

-----------------------------------------------------------------------------
(* Consequences of a call. *)

LEMMA RowsAfter ==
    ASSUME IInv, TypeInv', NEW F, F \subseteq Counting, Call(F), NEW e \in Edge, NEW t \in Marks, NEW n,
           n \in HasRows(e, t)'
    PROVE  n \in Minute /\ (n \in HasRows(e, t) \/ (t \in F /\ e = c.edge /\ n = c.at))
<1>1. n \in Minute /\ table'[e][t][n] # {} /\ t \in Counting
  BY TablesOK DEF HasRows
<1>2. table'[e][t][n] = table[e][t][n] \/ (t \in F /\ e = c.edge /\ n = c.at)
  BY <1>1 DEF Call
<1>. QED  BY <1>1, <1>2 DEF HasRows

\* Behind the newest minute everything stays settled, if the collector does not leave a
\* minute with a list unsettled.
LEMMA BehindKeeps ==
    ASSUME IInv, TypeInv', NEW F, F \subseteq Counting, Call(F), NEW d, NEW a, d = c.edge, a = c.at,
           "ip" \in F => c.pc \in Fetching,
           "l4" \in F => c.pc \in FetchingL4 /\ Settled(d, "l4", a)',
           \/ c.pc \notin Fetching
           \/ c'.pc \in Fetching /\ c'.edge = d /\ c'.at = a
           \/ \A f \in Of("ip") : Settled(d, f, a)'
    PROVE  Behind'
<1>1. Kept(d)' = Kept(d) /\ \A e \in Edge : Kept(e)' = Kept(e) /\ Kept(e) \subseteq Minute
  BY CalmKeeps DEF Call, Kept
<1>2. \A e \in Edge, f \in Counting, m \in Minute : Settled(e, f, m) => Settled(e, f, m)'
  BY CallSettles
<1>3. ASSUME NEW e \in Edge, NEW t \in Marks, NEW m \in Kept(e), NEW n \in HasRows(e, t)', m <= n,
             NEW f \in Of(t), ~Handling(e, t, m)'
      PROVE  Settled(e, f, m)'
  <2>1. f \in Counting /\ m \in Minute /\ n \in Minute
    BY <1>1, <1>3, TablesOK, RowsAfter DEF Marks
  <2>2. CASE n \in HasRows(e, t)
    <3>1. Handling(e, t, m) \/ Settled(e, f, m)
      BY <1>3, <2>2 DEF IInv, Behind
    <3>2. CASE Handling(e, t, m)
      <4>1. c.pc \in Fetching /\ e = d /\ m = a /\ t = "ip"
        BY <3>2 DEF Handling
      <4>2. ~(c'.pc \in Fetching /\ c'.edge = d /\ c'.at = a)
        BY <1>3, <4>1 DEF Handling
      <4>. QED  BY <1>3, <4>1, <4>2
    <3>. QED  BY <1>2, <2>1, <3>1, <3>2
  <2>3. CASE n \notin HasRows(e, t)
    <3>1. t \in F /\ e = d /\ n = a
      BY <1>3, <2>3, RowsAfter
    <3>2. m <= a /\ m \in Nat /\ a \in Nat
      BY <1>3, <2>1, <3>1 DEF Minute
    <3>3. CASE m < a
      <4>1. Passed(d, t, a - 1)
        BY <3>1 DEF IInv, Walk, Marks
      <4>2. m <= a - 1
        BY <3>2, <3>3
      <4>. QED  BY <1>2, <1>3, <2>1, <3>1, <4>1, <4>2 DEF Passed
    <3>4. CASE m = a
      <4>1. CASE t = "l4"
        <5>1. f = "l4"
          BY <4>1 DEF Of
        <5>. QED  BY <3>1, <3>4, <4>1, <5>1
      <4>2. CASE t = "ip"
        <5>1. ~(c'.pc \in Fetching /\ c'.edge = d /\ c'.at = a)
          BY <1>3, <3>1, <3>4, <4>2 DEF Handling
        <5>. QED  BY <1>3, <3>1, <3>4, <4>2, <5>1
      <4>. QED  BY <4>1, <4>2 DEF Marks
    <3>. QED  BY <3>2, <3>3, <3>4
  <2>. QED  BY <2>2, <2>3
<1>4. \A e \in Edge, t \in Marks : \A m \in Kept(e), n \in HasRows(e, t)' :
         m <= n => Handling(e, t, m)' \/ \A f \in Of(t) : Settled(e, f, m)'
  BY <1>3
<1>. QED  BY <1>1, <1>4 DEF Behind

\* From low the walk goes up to the least minute that is left.
LEMMA WalkUp ==
    ASSUME IInv, TypeInv', NEW F, F \subseteq Counting, Call(F), NEW d \in Edge, NEW t \in Marks,
           NEW S, S \subseteq Minute, NEW low \in Int, Passed(d, t, low)', Ahead(d, t, S, low),
           \A n \in HasRows(d, t)' : n <= low,
           NEW a \in S, \A y \in S : a <= y
    PROVE  /\ Passed(d, t, a - 1)' /\ Ahead(d, t, S \ {a}, a)'
           /\ \A n \in HasRows(d, t)' : n < a
           /\ t = "l4" => seen'[d][a]["packet"] > 0
<1>1. /\ now' = now /\ seen' = seen /\ Kept(d)' = Kept(d) /\ Kept(d) \subseteq Minute /\ now \in Nat
      /\ \A e, f, m : Wanted(e, f, m)' = Wanted(e, f, m)
      /\ \A e, u, m : Heard(e, u, m)' = Heard(e, u, m)
  BY CalmKeeps DEF Call, Kept, IInv, TypeInv, Minute
<1>2. a \in Nat /\ a > low /\ a <= now /\ S \subseteq Nat
  BY <1>1 DEF Ahead, Minute
<1>3. ASSUME NEW m \in Kept(d), NEW f \in Of(t), m <= a - 1 PROVE Settled(d, f, m)'
  <2>1. m \in Nat /\ m \in Minute
    BY <1>1 DEF Minute
  <2>2. CASE m <= low
    BY <1>1, <2>2 DEF Passed
  <2>3. CASE m > low
    <3>1. m < a
      BY <1>2, <1>3, <2>1
    <3>2. m \notin S
      BY <1>2, <2>1, <3>1
    <3>3. Heard(d, t, m) = 0
      BY <2>1, <2>3, <3>1, <3>2 DEF Ahead
    <3>4. Wanted(d, f, m) = {}
      BY <2>1, <3>3, Quiet DEF IInv
    <3>5. m < now
      BY <1>1, <1>2, <2>1, <3>1
    <3>. QED  BY <1>1, <3>4, <3>5 DEF Settled
  <2>. QED  BY <1>2, <2>1, <2>2, <2>3
<1>4. Passed(d, t, a - 1)'
  BY <1>1, <1>3 DEF Passed
<1>5. Ahead(d, t, S \ {a}, a)
  <2>1. ASSUME NEW l \in S \ {a}
        PROVE  /\ l > a /\ l <= now /\ (t = "l4" => Heard(d, t, l) > 0)
               /\ \A m \in Kept(d) : a < m /\ m < l => m \in S \ {a} \/ Heard(d, t, m) = 0
    <3>1. /\ l <= now /\ (t = "l4" => Heard(d, t, l) > 0)
          /\ \A m \in Kept(d) : low < m /\ m < l => m \in S \/ Heard(d, t, m) = 0
      BY DEF Ahead
    <3>2. l \in Nat /\ l >= a /\ l # a
      BY <1>2
    <3>3. ASSUME NEW m \in Kept(d), a < m, m < l PROVE m \in S \ {a} \/ Heard(d, t, m) = 0
      <4>1. m \in Nat /\ low < m /\ m # a
        BY <1>1, <1>2, <3>3 DEF Minute
      <4>. QED  BY <3>1, <3>3, <4>1
    <3>. QED  BY <1>2, <3>1, <3>2, <3>3
  <2>. QED  BY <2>1 DEF Ahead
<1>6. Ahead(d, t, S \ {a}, a)'
  BY <1>5, CallSettles
<1>7. ASSUME NEW n \in HasRows(d, t)' PROVE n < a
  <2>1. n \in Nat /\ n <= low
    BY RowsAfter DEF Minute
  <2>. QED  BY <1>2, <2>1
<1>8. t = "l4" => seen'[d][a]["packet"] > 0
  BY <1>1 DEF Ahead, Heard
<1>. QED  BY <1>4, <1>6, <1>7, <1>8

LEMMA NextKeeps ==
    ASSUME IInv, TypeInv', NEW F, F \subseteq Counting, Call(F), NEW d \in Edge, d = c.edge,
           c.pc \in Visiting, NEW L, L \subseteq Minute, NEW last, \A m \in L : m <= now,
           NextMinute(L, last), NEW S, S = {m \in L : m > last},
           NEW low \in Int, Passed(d, "ip", low)', Ahead(d, "ip", S, low),
           \A n \in HasRows(d, "ip")' : n <= low
    PROVE  InHandOK(c)' /\ Walk(c)'
<1>1. now' = now /\ "ip" \in Marks
  BY CalmKeeps DEF Call, Marks
<1>2. /\ c'.edge = d
      /\ \/ S = {} /\ c'.pc = "snapshot"
         \/ \E a \in S : /\ \A y \in S : a <= y
                         /\ c'.pc = "fetch" /\ c'.list = S \ {a} /\ c'.at = a /\ c'.i = 1
  BY <1>1, NextIs DEF IInv
<1>3. CASE c'.pc = "snapshot"
  BY <1>3 DEF InHandOK, Walk, Fetching, FetchingL4
<1>4. ASSUME NEW a \in S, \A y \in S : a <= y,
             c'.pc = "fetch", c'.list = S \ {a}, c'.at = a, c'.i = 1
      PROVE  InHandOK(c)' /\ Walk(c)'
  <2>1. Passed(d, "ip", a - 1)' /\ Ahead(d, "ip", S \ {a}, a)' /\ \A n \in HasRows(d, "ip")' : n < a
    BY <1>1, <1>4, WalkUp
  <2>2. \A n \in HasRows(d, "ip")' : n <= a
    <3>1. \A n \in HasRows(d, "ip")' : n \in Nat
      BY <1>1, RowsAfter DEF Minute
    <3>2. a \in Nat
      BY DEF Minute
    <3>. QED  BY <2>1, <3>1, <3>2
  <2>3. InHandOK(c)'
    BY <1>4 DEF InHandOK
  <2>4. Walk(c)'
    BY <1>2, <1>4, <2>1, <2>2 DEF Walk, Fetching, FetchingL4
  <2>. QED  BY <2>3, <2>4
<1>. QED  BY <1>2, <1>3, <1>4

LEMMA NextL4Keeps ==
    ASSUME IInv, TypeInv', NEW F, F \subseteq Counting, Call(F), NEW d \in Edge, d = c.edge,
           c.pc \in Visiting, NEW L, L \subseteq Minute, NEW last, \A m \in L : m <= now,
           NextL4(L, last), NEW S, S = {m \in L : m > last},
           NEW low \in Int, Passed(d, "l4", low)', Ahead(d, "l4", S, low),
           \A n \in HasRows(d, "l4")' : n <= low
    PROVE  InHandOK(c)' /\ Walk(c)' /\ c'.pc \notin Fetching
<1>1. now' = now /\ "l4" \in Marks
  BY CalmKeeps DEF Call, Marks
<1>2. \/ S = {} /\ c'.pc = "next"
      \/ \E a \in S : /\ \A y \in S : a <= y
                      /\ c'.pc = "l4fetch" /\ c'.list = S \ {a} /\ c'.at = a /\ c'.edge = d
  BY <1>1, NextL4Is DEF IInv
<1>3. CASE c'.pc = "next"
  BY <1>3 DEF InHandOK, Walk, Fetching, FetchingL4
<1>4. ASSUME NEW a \in S, \A y \in S : a <= y,
             c'.pc = "l4fetch", c'.list = S \ {a}, c'.at = a, c'.edge = d
      PROVE  InHandOK(c)' /\ Walk(c)'
  <2>1. /\ Passed(d, "l4", a - 1)' /\ Ahead(d, "l4", S \ {a}, a)' /\ \A n \in HasRows(d, "l4")' : n < a
        /\ seen'[d][a]["packet"] > 0
    BY <1>1, <1>4, WalkUp
  <2>. QED  BY <1>4, <2>1 DEF InHandOK, Walk, Fetching, FetchingL4
<1>. QED  BY <1>2, <1>3, <1>4 DEF Fetching

\* A call after which the collector goes to the next list.
LEMMA FollowingKeeps ==
    ASSUME IInv, TypeInv', c.pc \in Fetching, NEW F, F \subseteq Of("ip"), Call(F), Following,
           NEW d, NEW a, d = c.edge, a = c.at,
           \A f \in Fed(Lists[c.i]) : Settled(d, f, a)'
    PROVE  IInv'
<1>1. /\ d \in Edge /\ a \in Minute /\ a \in Nat /\ c.i \in DOMAIN Lists /\ c.list \subseteq Minute
      /\ a <= now /\ (\A m \in c.list : m <= now) /\ c \in JobSet
  BY DEF IInv, TypeInv, JobOK, JobSet, Visiting, Minute
<1>2. F \subseteq Counting /\ "l4" \notin F /\ "ip" \in Marks
  BY TablesOK DEF Marks
<1>3. Passed(d, "ip", a - 1) /\ Ahead(d, "ip", c.list, a) /\ \A n \in HasRows(d, "ip") : n <= a
  BY DEF IInv, Walk
<1>3a. Counted'
  BY <1>2, CallSettles
<1>3b. \A low : Passed(d, "ip", low) => Passed(d, "ip", low)'
  BY <1>1, <1>2, CallSettles
<1>3c. \A L, low : Ahead(d, "ip", L, low) <=> Ahead(d, "ip", L, low)'
  BY <1>1, <1>2, CallSettles
<1>3d. PICK L : L = c.list
  OBVIOUS
<1>4. Passed(d, "ip", a - 1)' /\ Ahead(d, "ip", L, a)' /\ Counted'
  BY <1>3, <1>3a, <1>3b, <1>3c, <1>3d
<1>5. \A n \in HasRows(d, "ip")' : n <= a
  BY <1>1, <1>2, <1>3, RowsAfter
<1>6. ASSUME NEW k \in 1 .. c.i, NEW f \in Fed(Lists[k]) PROVE Settled(d, f, a)'
  <2>1. CASE k = c.i
    BY <2>1
  <2>2. CASE k # c.i
    <3>1. k \in 1 .. c.i - 1 /\ k \in DOMAIN Lists
      BY <1>1, <2>2, ListsOK
    <3>2. Settled(d, f, a) /\ f \in Counting
      BY <3>1, TablesOK DEF IInv, Walk
    <3>. QED  BY <1>1, <1>2, <3>2, CallSettles
  <2>. QED  BY <2>1, <2>2
<1>7. CASE c.i = Len(Lists)
  <2>1. NextMinute(c.list, 0)
    BY <1>7 DEF Following
  <2>2. \A f \in Of("ip") : Settled(d, f, a)'
    BY <1>1, <1>6, <1>7, TablesOK, ListsOK
  <2>3. Passed(d, "ip", a)'
    <3>1. \A m \in Kept(d)' : m \in Nat
      BY DEF Kept, Minute
    <3>2. \A m \in Kept(d)' : m <= a => m <= a - 1 \/ m = a
      BY <1>1, <3>1
    <3>. QED  BY <1>4, <2>2, <3>2 DEF Passed
  <2>4. c.list = {m \in c.list : m > 0}
    BY <1>1 DEF Minute
  <2>5. InHandOK(c)' /\ Walk(c)'
    BY <1>1, <1>2, <1>3, <1>5, <2>1, <2>3, <2>4, NextKeeps DEF Visiting
  <2>6. Behind'
    BY <1>2, <2>2, BehindKeeps
  <2>. QED  BY <1>4, <2>5, <2>6 DEF IInv
<1>8. CASE c.i # Len(Lists)
  <2>1. c' = [c EXCEPT !.pc = "fetch", !.i = c.i + 1, !.rows = {}]
    BY <1>8 DEF Following
  <2>2. c'.pc = "fetch" /\ c'.i = c.i + 1 /\ c'.at = a /\ c'.edge = d /\ c'.list = L
    BY <1>1, <1>3d, <2>1 DEF JobSet
  <2>3. \A k \in 1 .. c'.i - 1 : \A f \in Fed(Lists[k]) : Settled(d, f, a)'
    <3>1. c'.i - 1 = c.i
      BY <1>1, <2>2, ListsOK
    <3>. QED  BY <1>6, <3>1
  <2>4. InHandOK(c)'
    BY <2>2 DEF InHandOK
  <2>5. Walk(c)'
    BY <1>4, <1>5, <2>2, <2>3 DEF Walk, Fetching, FetchingL4
  <2>6. Behind'
    BY <1>2, <2>2, BehindKeeps DEF Fetching
  <2>. QED  BY <1>4, <2>4, <2>5, <2>6 DEF IInv
<1>. QED  BY <1>7, <1>8

-----------------------------------------------------------------------------
(* The steps. *)

LEMMA TypeInit == Init => TypeInv
<1>. SUFFICES ASSUME Init PROVE TypeInv
  OBVIOUS
<1>1. now \in Minute /\ missed = {} /\ early = {} /\ c = Idle
  BY BoundsOK DEF Init
<1>2. seen \in [Edge -> [Minute -> [Kind -> Nat]]]
  BY DEF Init
<1>3. table \in [Edge -> [Tables -> [Minute -> SUBSET Row]]]
  BY DEF Init
<1>4. JobOK(c)
  BY <1>1, IdleOK DEF JobOK, Idle, Visiting, Fetching, FetchingL4
<1>. QED  BY <1>1, <1>2, <1>3, <1>4 DEF TypeInv

LEMMA InvInit == Init => IInv
<1>. SUFFICES ASSUME Init PROVE IInv
  OBVIOUS
<1>1. TypeInv /\ c.pc = "idle"
  BY TypeInit DEF Init, Idle
<1>2. \A e \in Edge, f \in Tables, m \in Minute : table[e][f][m] = {}
  BY DEF Init
<1>3. Counted
  BY <1>2, TablesOK DEF Counted
<1>4. \A e \in Edge, t \in Marks : HasRows(e, t) = {}
  BY <1>2, TablesOK DEF HasRows
<1>5. Behind
  BY <1>4 DEF Behind
<1>. QED  BY <1>1, <1>3, <1>5 DEF IInv, InHandOK, Walk, Fetching, FetchingL4

\* The steps that leave the tables alone are calls that change nothing.
LEMMA NoPut ==
    ASSUME Calm, Grows, UNCHANGED table
    PROVE  Call({})
  BY DEF Call

\* A step that ends outside of a walk and the lists that start one.
LEMMA Outside ==
    ASSUME IInv, TypeInv', NEW F, F \subseteq Counting \ {"ip", "l4"}, Call(F),
           c.pc \notin Fetching, c'.pc \in {"idle", "next", "mark", "snapshot", "l4mark"}
    PROVE  IInv'
<1>1. Counted'
  BY CallSettles
<1>2. InHandOK(c)' /\ Walk(c)'
  BY DEF InHandOK, Walk, Fetching, FetchingL4
<1>3. Behind'
  BY BehindKeeps
<1>. QED  BY <1>1, <1>2, <1>3 DEF IInv

LEMMA PollStep == ASSUME IInv, Poll \/ NextEdge \/ EdgeFails \/ SnapshotFails PROVE IInv'
<1>1. /\ Calm /\ UNCHANGED <<table, missed, early>> /\ c.pc \notin Fetching
  BY DEF Poll, NextEdge, EdgeFails, SnapshotFails, Fetching
<1>2. Call({})
  BY <1>1, NoPut DEF Grows
<1>3. JobOK(c)' /\ c'.pc \in {"idle", "next", "mark", "snapshot", "l4mark"}
  <2>1. CASE Poll
    <3>1. c' = [Idle EXCEPT !.pc = "next", !.todo = Edge]
      BY <2>1 DEF Poll
    <3>2. c' \in JobSet /\ c'.pc = "next"
      BY <3>1, IdleOK DEF Idle
    <3>. QED  BY <3>2 DEF JobOK, Visiting, Fetching, FetchingL4
  <2>2. CASE NextEdge
    <3>1. CASE c.todo = {}
      <4>1. c' = Idle
        BY <2>2, <3>1 DEF NextEdge
      <4>. QED  BY <4>1, IdleOK DEF JobOK, Idle, Visiting, Fetching, FetchingL4
    <3>2. CASE c.todo # {}
      <4>1. PICK e \in c.todo : c' = [Idle EXCEPT !.pc = "mark", !.todo = c.todo \ {e}, !.edge = e]
        BY <2>2, <3>2 DEF NextEdge
      <4>2. e \in Edge /\ c.todo \ {e} \subseteq Edge
        BY JobFacts DEF IInv
      <4>3. c' \in JobSet /\ c'.pc = "mark" /\ c'.edge = e
        BY <4>1, <4>2, IdleOK DEF Idle
      <4>. QED  BY <4>2, <4>3 DEF JobOK, Visiting, Fetching, FetchingL4
    <3>. QED  BY <3>1, <3>2
  <2>3. CASE EdgeFails
    BY <2>3, LeaveIs DEF EdgeFails, IInv
  <2>4. CASE SnapshotFails
    <3>1. c.pc = "snapshot" /\ c' = [c EXCEPT !.pc = "l4mark"] /\ now' = now
      BY <2>4 DEF SnapshotFails, Calm
    <3>2. c' = [c EXCEPT !.pc = "l4mark", !.last = c.last, !.rows = c.rows]
      BY <3>1, JobFacts DEF IInv
    <3>3. c.last \in 0 .. MaxMinute /\ c.rows \subseteq Row /\ c.pc \in Visiting
      BY <3>1, JobFacts DEF IInv, Visiting
    <3>4. "l4mark" \in Visiting /\ "l4mark" \notin Fetching \cup FetchingL4
      BY DEF Visiting, Fetching, FetchingL4
    <3>. QED  BY <3>1, <3>2, <3>3, <3>4, JobMoves DEF IInv
  <2>. QED  BY <2>1, <2>2, <2>3, <2>4
<1>4. TypeInv'
  BY <1>1, <1>3 DEF IInv, TypeInv, Calm
<1>. QED  BY <1>1, <1>2, <1>3, <1>4, Outside

LEMMA ReadNewestStep == ASSUME IInv, ReadNewest PROVE IInv'
<1>1. Calm /\ UNCHANGED <<table, missed, early>> /\ c.pc \in {"mark", "l4mark"}
  BY DEF ReadNewest
<1>2. Call({})
  BY <1>1, NoPut DEF Grows
<1>. DEFINE t == IF c.pc = "mark" THEN "ip" ELSE "l4"
            p == IF c.pc = "mark" THEN "list" ELSE "l4list"
<1>3. c.edge \in Edge /\ Newest(c.edge, t) \in 0 .. MaxMinute
  BY <1>1, NewestIs DEF IInv, TypeInv, JobOK, Visiting
<1>4. c' = [c EXCEPT !.pc = p, !.last = Newest(c.edge, t), !.rows = c.rows]
  <2>1. c' = [c EXCEPT !.last = Newest(c.edge, t), !.pc = p]
    BY DEF ReadNewest
  <2>. QED  BY <2>1, JobFacts DEF IInv
<1>5. p \in Visiting /\ p \notin Fetching \cup FetchingL4 /\ c.pc \in Visiting
  BY <1>1 DEF Visiting, Fetching, FetchingL4
<1>6. JobOK(c)' /\ c'.pc = p /\ c'.edge = c.edge /\ c'.last = Newest(c.edge, t)
  <2>. HIDE DEF t, p
  <2>1. now' = now /\ c.rows \subseteq Row /\ p # "perf"
    BY <1>1, <1>5, JobFacts DEF IInv, Calm, Fetching
  <2>. QED  BY <1>3, <1>4, <1>5, <2>1, JobMoves DEF IInv
<1>7. TypeInv'
  BY <1>1, <1>6 DEF IInv, TypeInv, Calm
<1>8. \A e, f : Newest(e, f)' = Newest(e, f)
  BY <1>1 DEF Newest, HasRows
<1>9. InHandOK(c)' /\ Walk(c)'
  <2>1. (c'.pc = "list" => c'.last = Newest(c'.edge, "ip")) /\ (c'.pc = "l4list" => c'.last = Newest(c'.edge, "l4"))
    BY <1>1, <1>6
  <2>. QED  BY <1>6, <1>8, <2>1 DEF InHandOK, Walk, Fetching, FetchingL4
<1>10. Counted'
  BY <1>2, CallSettles
<1>11. Behind'
  BY <1>1, <1>2, <1>7, BehindKeeps DEF Fetching
<1>. QED  BY <1>7, <1>9, <1>10, <1>11 DEF IInv

\* The minutes that an edge lists: those in which it heard something.
LEMMA ListMinutesStep == ASSUME IInv, ListMinutes PROVE IInv'
<1>1. /\ Calm /\ UNCHANGED <<table, missed, early>> /\ c.pc = "list" /\ "ip" \in Marks
      /\ now' = now
  BY DEF ListMinutes, Calm, Marks
<1>2. Call({})
  BY <1>1, NoPut DEF Grows
<1>3. PICK L : /\ \E running \in BOOLEAN :
                     L = {m \in Kept(c.edge) : Requests(c.edge, m) > 0 /\ (running \/ m < now)}
               /\ IF L = {} THEN LeaveEdge ELSE NextMinute(L, c.last)
  BY DEF ListMinutes
<1>4. PICK d \in Edge : d = c.edge
  BY <1>1 DEF IInv, TypeInv, JobOK, Visiting
<1>5. c.last = Newest(d, "ip") /\ c.last \in 0 .. MaxMinute
  BY <1>1, <1>4, JobFacts DEF IInv, Walk
<1>6. L \subseteq Minute /\ (\A m \in L : m <= now) /\ Kept(d) \subseteq Minute
  BY <1>3, <1>4 DEF Kept
<1>7. Counted'
  BY <1>2, CallSettles
<1>8. CASE L = {}
  <2>1. JobOK(c)' /\ c'.pc = "next"
    BY <1>3, <1>8, LeaveIs DEF IInv
  <2>2. TypeInv'
    BY <1>1, <2>1 DEF IInv, TypeInv, Calm
  <2>. QED  BY <1>1, <1>2, <2>1, <2>2, Outside DEF Fetching
<1>9. CASE L # {}
  <2>1. NextMinute(L, c.last)
    BY <1>3, <1>9
  <2>2. JobOK(c)'
    BY <1>1, <1>6, <2>1, NextIs DEF IInv, Visiting
  <2>3. TypeInv'
    BY <1>1, <2>2 DEF IInv, TypeInv, Calm
  <2>. DEFINE S == {m \in L : m > c.last}
  <2>4. PICK low \in Int : low = c.last /\ low \in Nat
    BY <1>5, BoundsOK
  <2>5. Passed(d, "ip", low)
    <3>. SUFFICES ASSUME NEW m \in Kept(d), NEW f \in Of("ip"), m <= low PROVE Settled(d, f, m)
      BY DEF Passed
    <3>1. m \in Nat /\ m >= 1
      BY <1>6 DEF Minute
    <3>2. HasRows(d, "ip") # {} /\ low \in HasRows(d, "ip")
      BY <1>5, <2>4, <3>1, NewestIs
    <3>3. ~Handling(d, "ip", m)
      BY <1>1 DEF Handling, Fetching
    <3>. QED  BY <1>1, <3>2, <3>3 DEF IInv, Behind
  <2>6. Ahead(d, "ip", S, low)
    <3>1. ASSUME NEW l \in S
          PROVE  /\ l > low /\ l <= now
                 /\ \A m \in Kept(d) : low < m /\ m < l => m \in S \/ Heard(d, "ip", m) = 0
      <4>1. l > low /\ l <= now /\ l \in Nat
        BY <1>6, <2>4 DEF Minute
      <4>2. ASSUME NEW m \in Kept(d), low < m, m < l, m \notin S PROVE Heard(d, "ip", m) = 0
        <5>1. m \in Nat /\ m < now
          BY <1>1, <1>6, <4>1, <4>2 DEF IInv, TypeInv, Minute
        <5>2. m \notin L
          BY <2>4, <4>2
        <5>3. ~(Requests(d, m) > 0)
          BY <1>3, <1>4, <5>1, <5>2
        <5>4. seen[d][m]["full"] \in Nat /\ seen[d][m]["bare"] \in Nat
          BY <1>6 DEF IInv, TypeInv, Kind
        <5>. QED  BY <5>3, <5>4 DEF Heard, Requests
      <4>. QED  BY <4>1, <4>2
    <3>. QED  BY <3>1 DEF Ahead
  <2>7. Passed(d, "ip", low)'
    BY <1>1, <1>2, <2>5, CallSettles
  <2>8. \A n \in HasRows(d, "ip")' : n <= low
    <3>1. HasRows(d, "ip")' = HasRows(d, "ip")
      BY <1>1 DEF HasRows
    <3>. QED  BY <1>5, <2>4, <3>1, NewestIs
  <2>9. PICK last : last = c.last
    OBVIOUS
  <2>10. InHandOK(c)' /\ Walk(c)'
    <3>1. NextMinute(L, last) /\ S = {m \in L : m > last} /\ c.pc \in Visiting
      BY <1>1, <2>1, <2>9 DEF Visiting
    <3>. HIDE DEF S
    <3>. QED  BY <1>2, <1>4, <1>6, <2>3, <2>6, <2>7, <2>8, <3>1, NextKeeps
  <2>11. Behind'
    BY <1>1, <1>2, <2>3, BehindKeeps DEF Fetching
  <2>. QED  BY <1>7, <2>3, <2>10, <2>11 DEF IInv
<1>. QED  BY <1>8, <1>9

LEMMA ListL4Step == ASSUME IInv, ListL4 PROVE IInv'
<1>1. /\ Calm /\ UNCHANGED <<table, missed, early>> /\ c.pc = "l4list" /\ "l4" \in Marks
      /\ now' = now
  BY DEF ListL4, Calm, Marks
<1>2. Call({})
  BY <1>1, NoPut DEF Grows
<1>3. PICK L : /\ \E running \in BOOLEAN :
                     L = {m \in Kept(c.edge) : seen[c.edge][m]["packet"] > 0 /\ (running \/ m < now)}
               /\ NextL4(L, c.last)
  BY DEF ListL4
<1>4. PICK d \in Edge : d = c.edge
  BY <1>1 DEF IInv, TypeInv, JobOK, Visiting, FetchingL4
<1>5. c.last = Newest(d, "l4") /\ c.last \in 0 .. MaxMinute
  BY <1>1, <1>4, JobFacts DEF IInv, Walk
<1>6. L \subseteq Minute /\ (\A m \in L : m <= now) /\ Kept(d) \subseteq Minute
  BY <1>3, <1>4 DEF Kept
<1>7. Counted'
  BY <1>2, CallSettles
<1>8. JobOK(c)'
  BY <1>1, <1>3, <1>6, NextL4Is DEF IInv, Visiting
<1>9. TypeInv'
  BY <1>1, <1>8 DEF IInv, TypeInv, Calm
<1>. DEFINE S == {m \in L : m > c.last}
<1>10. PICK low \in Int : low = c.last /\ low \in Nat
  BY <1>5, BoundsOK
<1>11. Passed(d, "l4", low)
  <2>. SUFFICES ASSUME NEW m \in Kept(d), NEW f \in Of("l4"), m <= low PROVE Settled(d, f, m)
    BY DEF Passed
  <2>1. m \in Nat /\ m >= 1
    BY <1>6 DEF Minute
  <2>2. HasRows(d, "l4") # {} /\ low \in HasRows(d, "l4")
    BY <1>5, <1>10, <2>1, NewestIs
  <2>3. ~Handling(d, "l4", m)
    BY DEF Handling
  <2>. QED  BY <1>1, <2>2, <2>3 DEF IInv, Behind
<1>12. Ahead(d, "l4", S, low)
  <2>1. ASSUME NEW l \in S
        PROVE  /\ l > low /\ l <= now /\ Heard(d, "l4", l) > 0
               /\ \A m \in Kept(d) : low < m /\ m < l => m \in S \/ Heard(d, "l4", m) = 0
    <3>1. l > low /\ l <= now /\ l \in Nat
      BY <1>6, <1>10 DEF Minute
    <3>2. Heard(d, "l4", l) > 0
      BY <1>3, <1>4 DEF Heard
    <3>3. ASSUME NEW m \in Kept(d), low < m, m < l, m \notin S PROVE Heard(d, "l4", m) = 0
      <4>1. m \in Nat /\ m < now
        BY <1>1, <1>6, <3>1, <3>3 DEF IInv, TypeInv, Minute
      <4>2. m \notin L
        BY <1>10, <3>3
      <4>3. ~(seen[d][m]["packet"] > 0)
        BY <1>3, <1>4, <4>1, <4>2
      <4>4. seen[d][m]["packet"] \in Nat
        BY <1>6 DEF IInv, TypeInv, Kind
      <4>. QED  BY <4>3, <4>4 DEF Heard
    <3>. QED  BY <3>1, <3>2, <3>3
  <2>. QED  BY <2>1 DEF Ahead
<1>13. Passed(d, "l4", low)'
  BY <1>1, <1>2, <1>11, CallSettles
<1>14. \A n \in HasRows(d, "l4")' : n <= low
  <2>1. HasRows(d, "l4")' = HasRows(d, "l4")
    BY <1>1 DEF HasRows
  <2>. QED  BY <1>5, <1>10, <2>1, NewestIs
<1>15. PICK last : last = c.last
  OBVIOUS
<1>16. InHandOK(c)' /\ Walk(c)'
  <2>1. NextL4(L, last) /\ S = {m \in L : m > last} /\ c.pc \in Visiting
    BY <1>1, <1>3, <1>15 DEF Visiting
  <2>. HIDE DEF S
  <2>. QED  BY <1>2, <1>4, <1>6, <1>9, <1>12, <1>13, <1>14, <2>1, NextL4Keeps
<1>17. Behind'
  BY <1>1, <1>2, <1>9, BehindKeeps DEF Fetching
<1>. QED  BY <1>7, <1>9, <1>16, <1>17 DEF IInv

\* A call after which the collector still has the same list in hand.
LEMMA SameListKeeps ==
    ASSUME IInv, TypeInv', c.pc \in Fetching, NEW F, F \subseteq Of("ip"), Call(F),
           NEW d, NEW a, d = c.edge, a = c.at, c'.pc \in Fetching, c'.edge = d, c'.at = a,
           c'.i = c.i, c'.list = c.list, c'.pc = "perf" => Settled(d, "site", a)'
    PROVE  Counted' /\ Walk(c)' /\ Behind'
<1>1. d \in Edge /\ a \in Minute /\ a \in Nat /\ c.i \in DOMAIN Lists
  BY DEF IInv, TypeInv, JobOK, Visiting, Minute
<1>2. F \subseteq Counting /\ "l4" \notin F /\ "ip" \in Marks
  BY TablesOK DEF Marks
<1>3. Counted'
  BY <1>2, CallSettles
<1>4. Behind'
  BY <1>2, BehindKeeps
<1>5. PICK L, i : L = c.list /\ i = c.i
  OBVIOUS
<1>6. \A low : Passed(d, "ip", low) => Passed(d, "ip", low)'
  BY <1>1, <1>2, CallSettles
<1>7. \A M, low : Ahead(d, "ip", M, low) <=> Ahead(d, "ip", M, low)'
  BY <1>1, <1>2, CallSettles
<1>8. /\ Passed(d, "ip", a - 1) /\ Ahead(d, "ip", L, a) /\ \A n \in HasRows(d, "ip") : n <= a
      /\ \A k \in 1 .. i - 1 : \A f \in Fed(Lists[k]) : Settled(d, f, a)
  BY <1>5 DEF IInv, Walk
<1>9. Passed(d, "ip", a - 1)' /\ Ahead(d, "ip", L, a)'
  BY <1>6, <1>7, <1>8
<1>10. \A n \in HasRows(d, "ip")' : n <= a
  BY <1>1, <1>2, <1>8, RowsAfter
<1>11. \A k \in 1 .. i - 1 : \A f \in Fed(Lists[k]) : Settled(d, f, a)'
  <2>1. ASSUME NEW k \in 1 .. i - 1, NEW f \in Fed(Lists[k]) PROVE Settled(d, f, a)'
    <3>1. k \in DOMAIN Lists
      BY <1>1, <1>5, ListsOK
    <3>2. f \in Counting /\ Settled(d, f, a)
      BY <1>8, <3>1, TablesOK
    <3>. QED  BY <1>1, <1>2, <3>2, CallSettles
  <2>. QED  BY <2>1
<1>12. c'.list = L /\ c'.i = i
  BY <1>5
<1>13. Walk(c)'
  BY <1>9, <1>10, <1>11, <1>12 DEF Walk, Fetching, FetchingL4
<1>. QED  BY <1>3, <1>4, <1>13

\* What is known of the list in hand.
LEMMA ListInHand ==
    ASSUME IInv, c.pc \in Fetching
    PROVE  /\ c.edge \in Edge /\ c.at \in Minute /\ c.at <= now /\ c.i \in DOMAIN Lists
           /\ Fed(Lists[c.i]) \subseteq Of("ip") /\ Fed(Lists[c.i]) \subseteq Counting
           /\ Fed(Lists[c.i]) \subseteq Tables /\ Lists[c.i] \in Fed(Lists[c.i])
           /\ \A f \in Fed(Lists[c.i]) : Source(f) = Lists[c.i]
           /\ c.pc \in Visiting
<1>1. /\ c.edge \in Edge /\ c.at \in Minute /\ c.at <= now /\ c.i \in DOMAIN Lists
      /\ c.pc \in Visiting
  BY DEF IInv, TypeInv, JobOK, Visiting
<1>2. Lists[c.i] \in Fed(Lists[c.i])
  BY DEF Fed
<1>. QED  BY <1>1, <1>2, TablesOK

\* A list is fetched: it is in hand, or the edge has nothing to tell.
LEMMA FetchListStep == ASSUME IInv, FetchList PROVE IInv'
<1>. DEFINE F == Fed(Lists[c.i])
<1>1. /\ Calm /\ UNCHANGED <<table, missed>> /\ c.pc = "fetch" /\ c.pc \in Fetching
      /\ now' = now /\ Early(F)
  BY DEF FetchList, Calm, Fetching, List
<1>2a. PICK d \in Edge, a \in Minute, g \in ListNames : d = c.edge /\ a = c.at /\ g = Lists[c.i]
  BY <1>1, ListInHand, ListsOK
<1>2b. PICK L : L = Decode(g, Shape[d], Entries(g, seen[d][a]))
  OBVIOUS
<1>2. /\ d = c.edge /\ a = c.at /\ g = Lists[c.i] /\ L = Decode(g, Shape[d], Entries(g, seen[d][a]))
      /\ IF L = {} THEN Following ELSE c' = [c EXCEPT !.pc = "insert", !.rows = L]
  BY <1>1, <1>2a, <1>2b DEF FetchList, List
<1>3. /\ early' \subseteq Edge \X Tables \X (1 .. now') /\ early \subseteq early'
      /\ \A f \in F : a = now => <<d, f, a>> \in early'
  BY <1>1, <1>2, EarlyType, ListInHand DEF IInv
<1>4. Call({})
  BY <1>1, <1>3, NoPut DEF Grows
<1>5. \A f \in F : Told(d, f, a) = L
  BY <1>1, <1>2, ListInHand, TablesOK DEF Told
<1>6. L \subseteq Row
  <2>1. seen[d][a] \in [Kind -> Nat]
    BY DEF IInv, TypeInv
  <2>. QED  BY <1>2, <2>1, EntriesOK
<1>7. now \in Nat /\ a \in Nat /\ a <= now
  BY <1>1, <1>2, ListInHand DEF IInv, TypeInv, Minute
<1>8. ASSUME JobOK(c)' PROVE TypeInv'
  BY <1>1, <1>3, <1>8 DEF IInv, TypeInv, Calm
<1>9. CASE L = {}
  <2>1. Following
    BY <1>2, <1>9
  <2>2. TypeInv'
    BY <1>1, <1>8, <2>1, FollowingOK DEF IInv
  <2>3. ASSUME NEW f \in F PROVE Settled(d, f, a)'
    <3>1. f \in Of("ip")
      BY <1>1, ListInHand
    <3>2. Wanted(d, f, a) = {}
      BY <1>5, <1>9, <3>1, WantedIs, NothingStored
    <3>3. Wanted(d, f, a)' = {}
      BY <1>1, <3>2, CalmKeeps
    <3>. QED  BY <1>1, <1>3, <1>7, <3>3 DEF Settled, Excused
  <2>. QED  BY <1>1, <1>2, <1>4, <2>1, <2>2, <2>3, FollowingKeeps
<1>10. CASE L # {}
  <2>1. c' = [c EXCEPT !.pc = "insert", !.last = c.last, !.rows = L]
    BY <1>2, <1>10, JobFacts, ZenonT(60) DEF IInv
  <2>2. /\ JobOK(c)' /\ c'.pc = "insert" /\ c'.rows = L
        /\ c'.edge = c.edge /\ c'.at = c.at /\ c'.i = c.i /\ c'.list = c.list
    <3>1. c.last \in 0 .. MaxMinute /\ "insert" \in Visiting /\ "insert" \notin FetchingL4 /\ c.pc \in Visiting
      BY <1>1, ListInHand, JobFacts DEF IInv, Visiting, Fetching, FetchingL4
    <3>2. TypeInv /\ now' = now /\ c.pc \in Fetching /\ "insert" # "perf"
      BY <1>1 DEF IInv
    <3>. QED  BY <1>6, <2>1, <3>1, <3>2, JobMoves
  <2>3. TypeInv'
    BY <1>8, <2>2
  <2>4. Counted' /\ Walk(c)' /\ Behind'
    BY <1>1, <1>2, <1>4, <2>2, <2>3, SameListKeeps DEF Fetching
  <2>5. InHandOK(c)'
    <3>1. PICK i : i = c.i
      OBVIOUS
    <3>2. ASSUME NEW f \in Fed(Lists[i])
          PROVE  <<d, f, a>> \in early' \/ (a < now' /\ L = Told(d, f, a)')
      <4>1. Told(d, f, a)' = L
        BY <1>1, <1>5, <3>1, CalmKeeps
      <4>. QED  BY <1>1, <1>3, <1>7, <3>1, <4>1
    <3>. QED  BY <1>2, <2>2, <3>1, <3>2 DEF InHandOK, Right
  <2>. QED  BY <2>3, <2>4, <2>5 DEF IInv
<1>. QED  BY <1>9, <1>10

\* A list is stored.
LEMMA InsertListStep == ASSUME IInv, InsertList \/ InsertSecond PROVE IInv'
<1>1. /\ Calm /\ UNCHANGED <<missed, early>> /\ c.pc \in {"insert", "perf"} /\ c.pc \in Fetching
      /\ now' = now
  BY DEF InsertList, InsertSecond, Calm, Fetching
<1>2. PICK d \in Edge, a \in Minute, g \in ListNames : d = c.edge /\ a = c.at /\ g = Lists[c.i]
  BY <1>1, ListInHand, ListsOK
<1>2a. PICK f : f = IF c.pc = "insert" THEN g ELSE "performance"
  OBVIOUS
<1>3. f \in Fed(g) /\ f \in Of("ip") /\ f \in Counting /\ f \in Tables
  <2>1. c.pc = "perf" => g = "site"
    BY <1>1, <1>2 DEF IInv, TypeInv, JobOK
  <2>2. f \in Fed(g)
    BY <1>1, <1>2a, <2>1 DEF Fed
  <2>. QED  BY <1>1, <1>2, <2>2, ListInHand
<1>4. Put(f, c.at, c.rows) /\ f # "l4"
  BY <1>1, <1>2, <1>2a, <1>3, TablesOK DEF InsertList, InsertSecond, List
<1>5. Right(c, f)
  BY <1>1, <1>2, <1>2a, <1>3 DEF IInv, InHandOK
<1>6. Call({f}) /\ Settled(d, f, a)' /\ table' \in [Edge -> [Tables -> [Minute -> SUBSET Row]]]
  BY <1>1, <1>2, <1>3, <1>4, <1>5, PutIs
<1>7. ASSUME JobOK(c)' PROVE TypeInv'
  BY <1>1, <1>6, <1>7 DEF IInv, TypeInv, Calm
<1>8. CASE g = "site" /\ c.pc = "insert"
  <2>1. c' = [c EXCEPT !.pc = "perf"]
    BY <1>2, <1>8 DEF InsertList, InsertSecond, List
  <2>2. c' = [c EXCEPT !.pc = "perf", !.last = c.last, !.rows = c.rows]
    BY <2>1, JobFacts DEF IInv
  <2>3. /\ JobOK(c)' /\ c'.pc = "perf" /\ c'.rows = c.rows
        /\ c'.edge = c.edge /\ c'.at = c.at /\ c'.i = c.i /\ c'.list = c.list
    <3>1. /\ c.last \in 0 .. MaxMinute /\ c.rows \subseteq Row /\ "perf" \in Visiting
          /\ "perf" \notin FetchingL4 /\ c.pc \in Visiting
      BY <1>1, ListInHand, JobFacts DEF IInv, Visiting, Fetching, FetchingL4
    <3>. QED  BY <1>1, <1>2, <1>8, <2>2, <3>1, JobMoves, ZenonT(60) DEF IInv
  <2>4. TypeInv'
    BY <1>7, <2>3
  <2>5. Counted' /\ Walk(c)' /\ Behind'
    <3>1. f = "site" /\ {f} \subseteq Of("ip")
      BY <1>2a, <1>3, <1>8
    <3>. QED  BY <1>1, <1>2, <1>6, <2>3, <2>4, <3>1, SameListKeeps DEF Fetching
  <2>6. InHandOK(c)'
    <3>1. Right(c, "performance")
      BY <1>2, <1>8 DEF IInv, InHandOK, Fed
    <3>2. Told(d, "performance", a)' = Told(d, "performance", a)
      BY <1>1, CalmKeeps
    <3>3. Right(c, "performance")'
      BY <1>1, <1>2, <2>3, <3>1, <3>2 DEF Right
    <3>. QED  BY <2>3, <3>3 DEF InHandOK
  <2>. QED  BY <2>4, <2>5, <2>6 DEF IInv
<1>9. CASE ~(g = "site" /\ c.pc = "insert")
  <2>1. Following
    BY <1>1, <1>2, <1>9 DEF InsertList, InsertSecond, List
  <2>2. TypeInv'
    BY <1>1, <1>7, <2>1, FollowingOK DEF IInv
  <2>3. ASSUME NEW h \in Fed(g) PROVE Settled(d, h, a)'
    <3>1. CASE h = f
      BY <1>6, <3>1
    <3>2. CASE h # f
      <4>1. c.pc = "perf" /\ h = "site" /\ g = "site"
        BY <1>1, <1>2, <1>2a, <1>3, <1>9, <3>2 DEF Fed
      <4>2. Settled(d, "site", a)
        BY <1>1, <1>2, <4>1 DEF IInv, Walk
      <4>3. "site" \in Counting
        BY <1>1, <1>2, <4>1, ListInHand
      <4>4. \A e \in Edge, u \in Counting, m \in Minute : Settled(e, u, m) => Settled(e, u, m)'
        BY <1>3, <1>6, CallSettles
      <4>. QED  BY <4>1, <4>2, <4>3, <4>4
    <3>. QED  BY <3>1, <3>2
  <2>4. {f} \subseteq Of("ip")
    BY <1>3
  <2>. QED  BY <1>1, <1>2, <1>6, <2>1, <2>2, <2>3, <2>4, FollowingKeeps
<1>. QED  BY <1>8, <1>9

\* What is known of the L4 minute in hand.
LEMMA L4InHand ==
    ASSUME IInv, c.pc \in FetchingL4
    PROVE  /\ c.edge \in Edge /\ c.at \in Minute /\ c.at <= now /\ c.list \subseteq Minute
           /\ (\A m \in c.list : m <= now) /\ c.pc \in Visiting /\ c.pc \notin Fetching
           /\ seen[c.edge][c.at]["packet"] > 0 /\ "l4" \in Marks /\ "l4" \in Counting
           /\ Passed(c.edge, "l4", c.at - 1) /\ Ahead(c.edge, "l4", c.list, c.at)
           /\ \A n \in HasRows(c.edge, "l4") : n < c.at
<1>1. /\ c.edge \in Edge /\ c.at \in Minute /\ c.at <= now /\ c.list \subseteq Minute
      /\ (\A m \in c.list : m <= now) /\ c.pc \in Visiting /\ c.pc \notin Fetching
  BY DEF IInv, TypeInv, JobOK, JobSet, Visiting, Fetching, FetchingL4
<1>2. "l4" \in Marks /\ "l4" \in Counting
  BY TablesOK DEF Marks
<1>3. /\ seen[c.edge][c.at]["packet"] > 0
      /\ Passed(c.edge, "l4", c.at - 1) /\ Ahead(c.edge, "l4", c.list, c.at)
      /\ \A n \in HasRows(c.edge, "l4") : n < c.at
  BY DEF IInv, Walk
<1>. QED  BY <1>1, <1>2, <1>3

\* A call after which the collector goes to the next L4 minute.
LEMMA NextL4Follows ==
    ASSUME IInv, TypeInv', c.pc \in FetchingL4, NEW F, F \subseteq {"l4"}, Call(F), NextL4(c.list, 0),
           NEW d, NEW a, d = c.edge, a = c.at, Settled(d, "l4", a)'
    PROVE  IInv'
<1>1. d \in Edge /\ a \in Minute /\ a \in Nat /\ "l4" \in Marks /\ c.pc \notin Fetching
  BY L4InHand DEF Minute
<1>2. F \subseteq Counting /\ "ip" \notin F
  BY L4InHand
<1>3. Counted' /\ \A low : Passed(d, "l4", low) => Passed(d, "l4", low)'
  BY <1>1, <1>2, CallSettles
<1>4. Passed(d, "l4", a)'
  <2>1. Passed(d, "l4", a - 1)'
    BY <1>3, L4InHand
  <2>2. \A m \in Kept(d)' : m \in Nat
    BY DEF Kept, Minute
  <2>3. \A m \in Kept(d)' : m <= a => m <= a - 1 \/ m = a
    BY <1>1, <2>2
  <2>. QED  BY <2>1, <2>3 DEF Passed, Of
<1>5. \A n \in HasRows(d, "l4")' : n <= a
  <2>1. \A n \in HasRows(d, "l4")' : n \in Minute /\ (n \in HasRows(d, "l4") \/ n = a)
    BY <1>1, <1>2, RowsAfter
  <2>2. \A n \in HasRows(d, "l4") : n < a
    BY L4InHand
  <2>. QED  BY <1>1, <2>1, <2>2 DEF Minute
<1>6. c.list = {m \in c.list : m > 0}
  BY L4InHand DEF Minute
<1>7. InHandOK(c)' /\ Walk(c)'
  <2>1. c.pc \in Visiting /\ c.list \subseteq Minute /\ (\A m \in c.list : m <= now) /\ a \in Int
        /\ Ahead(d, "l4", c.list, a)
    BY <1>1, L4InHand
  <2>. QED  BY <1>1, <1>2, <1>4, <1>5, <1>6, <2>1, NextL4Keeps
<1>8. Behind'
  BY <1>1, <1>2, BehindKeeps
<1>. QED  BY <1>3, <1>7, <1>8 DEF IInv

LEMMA FetchL4Step == ASSUME IInv, FetchL4 PROVE IInv'
<1>1. /\ Calm /\ UNCHANGED <<table, missed>> /\ c.pc = "l4fetch" /\ c.pc \in FetchingL4
      /\ now' = now /\ Early({"l4"})
  BY DEF FetchL4, Calm, FetchingL4
<1>2. PICK d \in Edge, a \in Minute : d = c.edge /\ a = c.at
  BY <1>1, L4InHand
<1>3. PICK L : L = Told(d, "l4", a)
  OBVIOUS
<1>4. L \subseteq Row /\ "l4" \in Counting /\ "l4" \in Marks /\ "l4" \in Tables
  BY <1>1, <1>3, L4InHand, ToldOK, TablesOK DEF IInv
<1>5. /\ early' \subseteq Edge \X Tables \X (1 .. now') /\ early \subseteq early'
      /\ (a = now => <<d, "l4", a>> \in early')
  <2>1. /\ early' \subseteq Edge \X Tables \X (1 .. now') /\ early \subseteq early'
        /\ \A f \in {"l4"} : c.at = now => <<c.edge, f, c.at>> \in early'
    BY <1>1, <1>4, EarlyType, L4InHand DEF IInv
  <2>. QED  BY <1>2, <2>1
<1>6. Call({})
  BY <1>1, <1>5, NoPut DEF Grows
<1>7. c' = [c EXCEPT !.pc = "l4insert", !.last = c.last, !.rows = L]
  <2>1. c' = [c EXCEPT !.pc = "l4insert", !.rows = L]
    BY <1>2, <1>3 DEF FetchL4, Told
  <2>. QED  BY <2>1, JobFacts DEF IInv
<1>8. /\ JobOK(c)' /\ c'.pc = "l4insert" /\ c'.rows = L
      /\ c'.edge = c.edge /\ c'.at = c.at /\ c'.i = c.i /\ c'.list = c.list
  <2>1. c.last \in 0 .. MaxMinute /\ "l4insert" \in Visiting /\ "l4insert" \notin Fetching /\ c.pc \in Visiting
    BY <1>1, L4InHand, JobFacts DEF IInv, Visiting, Fetching, FetchingL4
  <2>2. TypeInv /\ now' = now /\ c.pc \in FetchingL4 /\ "l4insert" # "perf"
    BY <1>1 DEF IInv
  <2>. QED  BY <1>4, <1>7, <2>1, <2>2, JobMoves
<1>9. TypeInv'
  BY <1>1, <1>5, <1>8 DEF IInv, TypeInv, Calm
<1>10. Counted' /\ Behind'
  <2>1. Counted'
    BY <1>6, CallSettles
  <2>. QED  BY <1>1, <1>6, <1>9, <2>1, L4InHand, BehindKeeps
<1>11. PICK M : M = c.list
  OBVIOUS
<1>12. Walk(c)'
  <2>1. Passed(d, "l4", a - 1) /\ Ahead(d, "l4", M, a)
    BY <1>1, <1>2, <1>11, L4InHand
  <2>2. \A low : Passed(d, "l4", low) => Passed(d, "l4", low)'
    BY <1>4, <1>6, CallSettles
  <2>3. \A N, low : Ahead(d, "l4", N, low) <=> Ahead(d, "l4", N, low)'
    BY <1>4, <1>6, CallSettles
  <2>4. Passed(d, "l4", a - 1)' /\ Ahead(d, "l4", M, a)'
    BY <2>1, <2>2, <2>3
  <2>5. \A n \in HasRows(d, "l4")' : n < a
    <3>1. HasRows(d, "l4")' = HasRows(d, "l4")
      BY <1>1 DEF HasRows
    <3>. QED  BY <1>1, <1>2, <3>1, L4InHand
  <2>6. seen'[d][a]["packet"] > 0
    BY <1>1, <1>2, L4InHand DEF Calm
  <2>. QED  BY <1>2, <1>8, <1>11, <2>4, <2>5, <2>6 DEF Walk, Fetching, FetchingL4
<1>13. InHandOK(c)'
  <2>1. Told(d, "l4", a)' = L
    BY <1>1, <1>3, CalmKeeps
  <2>2. a \in Nat /\ now \in Nat /\ a <= now
    BY <1>1, <1>2, L4InHand DEF IInv, TypeInv, Minute
  <2>3. <<d, "l4", a>> \in early' \/ (a < now' /\ L = Told(d, "l4", a)')
    BY <1>1, <1>5, <2>1, <2>2
  <2>. QED  BY <1>2, <1>8, <2>3 DEF InHandOK, Right
<1>. QED  BY <1>9, <1>10, <1>12, <1>13 DEF IInv

LEMMA InsertBucketL4Step == ASSUME IInv, InsertBucketL4 PROVE IInv'
<1>1. /\ Calm /\ UNCHANGED <<missed, early>> /\ c.pc = "l4insert" /\ c.pc \in FetchingL4
      /\ now' = now /\ Put("l4", c.at, c.rows) /\ NextL4(c.list, 0)
  BY DEF InsertBucketL4, Calm, FetchingL4
<1>2. PICK d \in Edge, a \in Minute : d = c.edge /\ a = c.at
  BY <1>1, L4InHand
<1>3. Right(c, "l4") /\ "l4" \in Counting /\ seen[c.edge][c.at]["packet"] > 0
  BY <1>1, L4InHand DEF IInv, InHandOK
<1>4. Call({"l4"}) /\ Settled(d, "l4", a)' /\ table' \in [Edge -> [Tables -> [Minute -> SUBSET Row]]]
  BY <1>1, <1>2, <1>3, PutIs
<1>5. JobOK(c)'
  BY <1>1, L4InHand, NextL4Is DEF IInv
<1>6. TypeInv'
  BY <1>1, <1>4, <1>5 DEF IInv, TypeInv, Calm
<1>. QED  BY <1>1, <1>2, <1>4, <1>6, NextL4Follows

LEMMA L4FailsStep == ASSUME IInv, L4Fails PROVE IInv'
<1>1. /\ Calm /\ UNCHANGED <<table, early>> /\ c.pc \in FetchingL4
      /\ now' = now /\ Lose({"l4"}, c.at) /\ NextL4(c.list, 0)
  BY DEF L4Fails, Calm, FetchingL4
<1>2. PICK d \in Edge, a \in Minute : d = c.edge /\ a = c.at
  BY <1>1, L4InHand
<1>3. /\ missed' \subseteq Edge \X Tables \X Minute /\ missed \subseteq missed'
      /\ <<d, "l4", a>> \in missed'
  <2>1. missed' = missed \cup {<<d, "l4", a>>} /\ "l4" \in Tables
    BY <1>1, <1>2, TablesOK DEF Lose, Marks
  <2>. QED  BY <2>1 DEF IInv, TypeInv
<1>4. Call({})
  BY <1>1, <1>3, NoPut DEF Grows
<1>5. JobOK(c)'
  BY <1>1, L4InHand, NextL4Is DEF IInv
<1>6. TypeInv'
  BY <1>1, <1>3, <1>5 DEF IInv, TypeInv, Calm
<1>7. Settled(d, "l4", a)'
  BY <1>3 DEF Settled, Excused
<1>. QED  BY <1>1, <1>2, <1>4, <1>6, <1>7, NextL4Follows

LEMMA SnapshotStep == ASSUME IInv, Snapshot PROVE IInv'
<1>. DEFINE L == {[site |-> 0, name |-> "", n |-> 0]}
<1>1. /\ Calm /\ UNCHANGED <<missed, early>> /\ c.pc = "snapshot" /\ now' = now
      /\ Put("server", now, L) /\ c' = [c EXCEPT !.pc = "l4mark"]
  BY DEF Snapshot, Calm
<1>2. c.edge \in Edge /\ now \in Minute /\ L \subseteq Row /\ c.pc \in Visiting /\ c.pc \notin Fetching
  <2>1. L \subseteq Row
    BY DEF Row
  <2>. HIDE DEF L
  <2>. QED  BY <1>1, <2>1 DEF IInv, TypeInv, JobOK, Visiting, Fetching
<1>. HIDE DEF L
<1>3. table' \in [Edge -> [Tables -> [Minute -> SUBSET Row]]]
  BY <1>1, <1>2, PutType, TablesOK DEF IInv
<1>4. \A e \in Edge, f \in Counting : table'[e][f] = table[e][f]
  <2>1. PICK U : table' = [table EXCEPT ![c.edge]["server"][now] = U]
    BY <1>1 DEF Put
  <2>2. \A e \in Edge, f \in Tables : f # "server" => table'[e][f] = table[e][f]
    BY <1>2, <2>1, TablesOK DEF IInv, TypeInv
  <2>. QED  BY <2>2, TablesOK
<1>5. Call({})
  BY <1>1, <1>4 DEF Call, Grows
<1>6. JobOK(c)' /\ c'.pc = "l4mark"
  <2>1. c' = [c EXCEPT !.pc = "l4mark", !.last = c.last, !.rows = c.rows]
    BY <1>1, JobFacts DEF IInv
  <2>2. /\ c.last \in 0 .. MaxMinute /\ c.rows \subseteq Row /\ "l4mark" \in Visiting
        /\ "l4mark" \notin Fetching \cup FetchingL4 /\ "l4mark" # "perf"
    BY JobFacts DEF IInv, Visiting, Fetching, FetchingL4
  <2>. QED  BY <1>1, <1>2, <2>1, <2>2, JobMoves DEF IInv
<1>7. TypeInv'
  BY <1>1, <1>3, <1>6 DEF IInv, TypeInv, Calm
<1>. QED  BY <1>2, <1>5, <1>6, <1>7, Outside

\* A list that cannot be fetched or stored is lost.
LEMMA ListFailsStep == ASSUME IInv, ListFails \/ SecondFails PROVE IInv'
<1>1. /\ Calm /\ UNCHANGED <<table, early>> /\ c.pc \in Fetching /\ now' = now
  BY DEF ListFails, SecondFails, Calm, Fetching
<1>2. PICK d \in Edge, a \in Minute, g \in ListNames : d = c.edge /\ a = c.at /\ g = Lists[c.i]
  BY <1>1, ListInHand, ListsOK
<1>3. PICK G : G = IF c.pc = "perf" THEN {"performance"}
                   ELSE IF g = "site" /\ c.pc = "insert" THEN {"site"} ELSE Fed(g)
  OBVIOUS
<1>4. /\ Lose(G, a)
      /\ IF g = "site" /\ c.pc = "insert" THEN c' = [c EXCEPT !.pc = "perf"] ELSE Following
  BY <1>2, <1>3 DEF ListFails, SecondFails, List
<1>5. G \subseteq Fed(g) /\ Fed(g) \subseteq Tables /\ Fed(g) \subseteq Counting
  <2>1. c.pc = "perf" => g = "site"
    BY <1>2 DEF IInv, TypeInv, JobOK
  <2>2. G \subseteq Fed(g)
    BY <1>3, <2>1 DEF Fed
  <2>. QED  BY <1>1, <1>2, <2>2, ListInHand
<1>6. /\ missed' \subseteq Edge \X Tables \X Minute /\ missed \subseteq missed'
      /\ \A f \in G : <<d, f, a>> \in missed'
  <2>1. G \subseteq Tables
    BY <1>5
  <2>2. missed' \subseteq Edge \X Tables \X Minute /\ missed \subseteq missed'
    BY <1>2, <1>4, <2>1, LoseType DEF IInv
  <2>3. missed' = missed \cup {<<d, f, a>> : f \in G}
    BY <1>2, <1>4 DEF Lose
  <2>. QED  BY <2>2, <2>3
<1>7. Call({})
  BY <1>1, <1>6, NoPut DEF Grows
<1>8. \A f \in G : Settled(d, f, a)'
  BY <1>6 DEF Settled, Excused
<1>9. ASSUME JobOK(c)' PROVE TypeInv'
  BY <1>1, <1>6, <1>9 DEF IInv, TypeInv, Calm
<1>10. CASE g = "site" /\ c.pc = "insert"
  <2>1. c' = [c EXCEPT !.pc = "perf", !.last = c.last, !.rows = c.rows]
    BY <1>4, <1>10, JobFacts DEF IInv
  <2>2. /\ JobOK(c)' /\ c'.pc = "perf" /\ c'.rows = c.rows
        /\ c'.edge = c.edge /\ c'.at = c.at /\ c'.i = c.i /\ c'.list = c.list
    <3>1. /\ c.last \in 0 .. MaxMinute /\ c.rows \subseteq Row /\ "perf" \in Visiting
          /\ "perf" \notin FetchingL4 /\ c.pc \in Visiting
      BY <1>1, ListInHand, JobFacts DEF IInv, Visiting, Fetching, FetchingL4
    <3>. QED  BY <1>1, <1>2, <1>10, <2>1, <3>1, JobMoves, ZenonT(60) DEF IInv
  <2>3. TypeInv'
    BY <1>9, <2>2
  <2>4. Settled(d, "site", a)'
    BY <1>3, <1>8, <1>10
  <2>5. Counted' /\ Walk(c)' /\ Behind'
    BY <1>1, <1>2, <1>7, <2>2, <2>3, <2>4, SameListKeeps DEF Fetching
  <2>6. InHandOK(c)'
    <3>1. Right(c, "performance")
      BY <1>2, <1>10 DEF IInv, InHandOK, Fed
    <3>2. Told(d, "performance", a)' = Told(d, "performance", a)
      BY <1>1, CalmKeeps
    <3>3. Right(c, "performance")'
      BY <1>1, <1>2, <2>2, <3>1, <3>2 DEF Right
    <3>. QED  BY <2>2, <3>3 DEF InHandOK
  <2>. QED  BY <2>3, <2>5, <2>6 DEF IInv
<1>11. CASE ~(g = "site" /\ c.pc = "insert")
  <2>1. Following
    BY <1>4, <1>11
  <2>2. TypeInv'
    BY <1>1, <1>9, <2>1, FollowingOK DEF IInv
  <2>3. ASSUME NEW f \in Fed(g) PROVE Settled(d, f, a)'
    <3>1. CASE f \in G
      BY <1>8, <3>1
    <3>2. CASE f \notin G
      <4>1. c.pc = "perf" /\ f = "site"
        <5>1. c.pc = "perf"
          BY <1>3, <1>11, <3>2
        <5>2. G = {"performance"} /\ g = "site"
          BY <1>2, <1>3, <5>1 DEF IInv, TypeInv, JobOK
        <5>. QED  BY <3>2, <5>1, <5>2 DEF Fed
      <4>2. Settled(d, "site", a) /\ "site" \in Counting
        BY <1>1, <1>2, <1>5, <4>1 DEF IInv, Walk
      <4>3. \A e \in Edge, u \in Counting, m \in Minute : Settled(e, u, m) => Settled(e, u, m)'
        BY <1>7, CallSettles
      <4>. QED  BY <4>1, <4>2, <4>3
    <3>. QED  BY <3>1, <3>2
  <2>. QED  BY <1>1, <1>2, <1>7, <2>1, <2>2, <2>3, FollowingKeeps
<1>. QED  BY <1>10, <1>11

\* The process ends: what is left of the minute is lost.
LEMMA RestartStep == ASSUME IInv, Restart PROVE IInv'
<1>1. Calm /\ UNCHANGED <<table, early>> /\ now' = now /\ c' = Idle
  BY DEF Restart, Calm
<1>2. JobOK(c)' /\ c'.pc = "idle"
  BY <1>1, IdleOK DEF JobOK, Idle, Visiting, Fetching, FetchingL4
<1>3. missed' \subseteq Edge \X Tables \X Minute /\ missed \subseteq missed'
  <2>1. CASE c.pc \in Fetching
    <3>. DEFINE G == UNION {Fed(List(i)) : i \in c.i .. Len(Lists)}
    <3>1. Lose(G, c.at)
      BY <2>1 DEF Restart, Fetching
    <3>2. G \subseteq Tables
      <4>1. \A i \in c.i .. Len(Lists) : Fed(List(i)) \subseteq Tables
        <5>1. \A i \in c.i .. Len(Lists) : i \in DOMAIN Lists
          BY <2>1, ListInHand, ListsOK
        <5>. QED  BY <5>1, TablesOK DEF List
      <4>. QED  BY <4>1
    <3>. HIDE DEF G
    <3>. QED  BY <2>1, <3>1, <3>2, ListInHand, LoseType DEF IInv
  <2>2. CASE c.pc \notin Fetching
    BY <2>2 DEF Restart, IInv, TypeInv, Fetching
  <2>. QED  BY <2>1, <2>2
<1>4. Call({})
  BY <1>1, <1>3, NoPut DEF Grows
<1>5. TypeInv'
  BY <1>1, <1>2, <1>3 DEF IInv, TypeInv, Calm
<1>6. InHandOK(c)' /\ Walk(c)'
  BY <1>2 DEF InHandOK, Walk, Fetching, FetchingL4
<1>7. Counted' /\ \A e \in Edge, u \in Counting, m \in Minute : Settled(e, u, m) => Settled(e, u, m)'
  BY <1>4, CallSettles
<1>8. CASE c.pc \notin Fetching
  <2>1. Behind'
    BY <1>4, <1>5, <1>8, BehindKeeps
  <2>. QED  BY <1>5, <1>6, <1>7, <2>1 DEF IInv
<1>9. CASE c.pc \in Fetching
  <2>1. PICK d \in Edge, a \in Minute, i \in DOMAIN Lists : d = c.edge /\ a = c.at /\ i = c.i
    BY <1>9, ListInHand
  <2>2. ASSUME NEW f \in Of("ip") PROVE Settled(d, f, a)'
    <3>1. PICK k \in DOMAIN Lists : f \in Fed(Lists[k])
      BY TablesOK
    <3>2. k \in 1 .. i - 1 \/ k \in i .. Len(Lists)
      BY <2>1, ListsOK
    <3>3. CASE k \in 1 .. i - 1
      <4>1. Settled(d, f, a)
        BY <1>9, <2>1, <3>1, <3>3 DEF IInv, Walk
      <4>. QED  BY <1>7, <4>1, TablesOK
    <3>4. CASE k \in i .. Len(Lists)
      <4>1. missed' = missed \cup {<<d, h, a>> : h \in UNION {Fed(List(j)) : j \in i .. Len(Lists)}}
        BY <1>9, <2>1 DEF Restart, Lose, Fetching
      <4>2. f \in UNION {Fed(List(j)) : j \in i .. Len(Lists)}
        BY <3>1, <3>4 DEF List
      <4>3. <<d, f, a>> \in missed'
        BY <4>1, <4>2
      <4>. QED  BY <4>3 DEF Settled, Excused
    <3>. QED  BY <3>2, <3>3, <3>4
  <2>3. Behind'
    BY <1>4, <1>5, <2>1, <2>2, BehindKeeps
  <2>. QED  BY <1>5, <1>6, <1>7, <2>3 DEF IInv
<1>. QED  BY <1>8, <1>9

\* The edges count in the running minute only, and the clock moves on.
LEMMA TimeStep ==
    ASSUME IInv, (\E e \in Edge, k \in Kind : Count(e, k)) \/ Tick
    PROVE  IInv'
<1>1. UNCHANGED <<table, c, missed, early>>
  BY DEF Count, Tick
<1>2. now \in Nat /\ now' \in {now, now + 1} /\ now' \in Minute
  BY BoundsOK DEF Count, Tick, IInv, TypeInv, Minute
<1>3. /\ seen' \in [Edge -> [Minute -> [Kind -> Nat]]]
      /\ \A e \in Edge, m \in Minute : m # now => seen'[e][m] = seen[e][m]
      /\ \A e \in Edge, m \in Minute : seen[e][m]["packet"] > 0 => seen'[e][m]["packet"] > 0
  <2>1. seen \in [Edge -> [Minute -> [Kind -> Nat]]] /\ now \in Minute
    BY DEF IInv, TypeInv
  <2>2. CASE Tick
    BY <2>1, <2>2 DEF Tick
  <2>3. ASSUME NEW e \in Edge, NEW k \in Kind, Count(e, k)
        PROVE  /\ seen' \in [Edge -> [Minute -> [Kind -> Nat]]]
               /\ \A x \in Edge, m \in Minute : m # now => seen'[x][m] = seen[x][m]
               /\ \A x \in Edge, m \in Minute : seen[x][m]["packet"] > 0 => seen'[x][m]["packet"] > 0
    <3>1. seen' = [seen EXCEPT ![e][now][k] = @ + 1]
      BY <2>3 DEF Count
    <3>2. seen[e][now] \in [Kind -> Nat] /\ "packet" \in Kind
      BY <2>1 DEF Kind
    <3>3. \A x \in Edge, m \in Minute :
             seen'[x][m] = IF x = e /\ m = now THEN [seen[x][m] EXCEPT ![k] = @ + 1] ELSE seen[x][m]
      BY <2>1, <3>1
    <3>4. seen' \in [Edge -> [Minute -> [Kind -> Nat]]]
      BY <2>1, <3>1, <3>2
    <3>5. [seen[e][now] EXCEPT ![k] = @ + 1]["packet"] >= seen[e][now]["packet"]
      BY <3>2
    <3>6. \A x \in Edge, m \in Minute : seen[x][m]["packet"] \in Nat
      BY <2>1, <3>2
    <3>7. ASSUME NEW x \in Edge, NEW m \in Minute, m # now PROVE seen'[x][m] = seen[x][m]
      BY <3>3, <3>7
    <3>8. ASSUME NEW x \in Edge, NEW m \in Minute, seen[x][m]["packet"] > 0
          PROVE  seen'[x][m]["packet"] > 0
      <4>1. CASE x = e /\ m = now
        <5>1. seen'[x][m] = [seen[e][now] EXCEPT ![k] = @ + 1]
          BY <3>3, <4>1
        <5>2. seen[e][now]["packet"] \in Nat /\ seen[e][now]["packet"] > 0
          BY <2>1, <3>6, <3>8, <4>1
        <5>3. [seen[e][now] EXCEPT ![k] = @ + 1]["packet"] > 0
          BY <3>2, <5>2
        <5>. QED  BY <5>1, <5>3
      <4>2. CASE ~(x = e /\ m = now)
        BY <3>3, <3>8, <4>2
      <4>. QED  BY <4>1, <4>2
    <3>. QED  BY <3>4, <3>7, <3>8
  <2>. QED  BY <2>2, <2>3
<1>4. TypeInv'
  <2>1. early' \subseteq Edge \X Tables \X (1 .. now')
    BY <1>1, <1>2 DEF IInv, TypeInv
  <2>2. JobOK(c)'
    <3>1. c' = c /\ JobOK(c)
      BY <1>1 DEF IInv, TypeInv
    <3>2. \A x \in Nat : x <= now => x <= now'
      BY <1>2
    <3>3. c.list \subseteq Nat /\ c.at \in Nat
      BY <3>1, BoundsOK DEF JobOK, JobSet, Minute
    <3>4. c.pc \in Fetching \cup FetchingL4 => c.at <= now' /\ \A m \in c.list : m <= now'
      BY <3>1, <3>2, <3>3 DEF JobOK
    <3>. QED  BY <3>1, <3>4 DEF JobOK
  <2>. QED  BY <1>1, <1>2, <1>3, <2>1, <2>2 DEF IInv, TypeInv
<1>5. ASSUME NEW e \in Edge, NEW f, NEW m \in Minute, m < now
      PROVE  /\ Wanted(e, f, m)' = Wanted(e, f, m) /\ Told(e, f, m)' = Told(e, f, m)
             /\ Heard(e, f, m)' = Heard(e, f, m)
  <2>1. seen'[e][m] = seen[e][m]
    BY <1>2, <1>3, <1>5 DEF Minute
  <2>. QED  BY <2>1 DEF Wanted, Told, Heard, Requests
<1>6. ASSUME NEW e \in Edge, NEW f \in Counting, NEW m \in Minute, Settled(e, f, m)
      PROVE  Settled(e, f, m)'
  <2>1. CASE Excused(e, f, m)
    BY <1>1, <2>1 DEF Settled, Excused
  <2>2. CASE m < now /\ (table[e][f][m] # {} \/ Wanted(e, f, m) = {})
    <3>1. m < now'
      BY <1>2, <2>2 DEF Minute
    <3>2. Wanted(e, f, m)' = Wanted(e, f, m)
      BY <1>5, <2>2
    <3>. QED  BY <1>1, <2>2, <3>1, <3>2 DEF Settled
  <2>. QED  BY <1>6, <2>1, <2>2 DEF Settled
<1>7. Counted'
  <2>1. ASSUME NEW e \in Edge, NEW f \in Counting, NEW m \in Minute
        PROVE  \/ table'[e][f][m] = {} \/ <<e, f, m>> \in early'
               \/ m < now' /\ table'[e][f][m] = Wanted(e, f, m)'
    <3>1. CASE table[e][f][m] = {} \/ <<e, f, m>> \in early
      BY <1>1, <3>1
    <3>2. CASE m < now /\ table[e][f][m] = Wanted(e, f, m)
      <4>1. m < now' /\ Wanted(e, f, m)' = Wanted(e, f, m)
        BY <1>2, <1>5, <3>2 DEF Minute
      <4>. QED  BY <1>1, <3>2, <4>1
    <3>. QED  BY <3>1, <3>2 DEF IInv, Counted
  <2>. QED  BY <2>1 DEF Counted
<1>8. \A e, t : HasRows(e, t)' = HasRows(e, t) /\ Newest(e, t)' = Newest(e, t)
  BY <1>1 DEF HasRows, Newest
<1>9. ASSUME NEW e \in Edge, NEW m \in Kept(e)', m <= now PROVE m \in Kept(e) /\ m \in Minute
  <2>1. m \in Minute /\ m > now' - Keep
    BY DEF Kept
  <2>2. m \in Nat /\ Keep \in Nat /\ now <= now'
    BY <1>2, <2>1, BoundsOK DEF Minute
  <2>3. \A x, y, k, z \in Int : z > y - k /\ x <= y => z > x - k
    OBVIOUS
  <2>4. m > now - Keep
    <3>1. m \in Int /\ Keep \in Int
      BY <2>2
    <3>2. now \in Int /\ now' \in Int
      BY <1>2 DEF Minute
    <3>3. now <= now'
      BY <2>2
    <3>4. m > now' - Keep
      BY <2>1
    <3>. QED  BY <2>3, <3>1, <3>2, <3>3, <3>4
  <2>. QED  BY <1>9, <2>1, <2>4 DEF Kept
<1>10. ASSUME NEW e \in Edge, NEW t \in Marks, NEW n \in HasRows(e, t) PROVE n \in Minute /\ n <= now
  <2>1. n \in Minute /\ table[e][t][n] # {} /\ t \in Counting
    BY TablesOK DEF HasRows
  <2>2. <<e, t, n>> \in early \/ n < now
    BY <2>1 DEF IInv, Counted
  <2>3. <<e, t, n>> \in early => n \in 1 .. now
    BY DEF IInv, TypeInv
  <2>. QED  BY <1>2, <2>1, <2>2, <2>3 DEF Minute
<1>11. \A t \in Marks : Of(t) \subseteq Counting
  BY TablesOK DEF Marks
<1>12. Behind'
  <2>1. ASSUME NEW e \in Edge, NEW t \in Marks, NEW m \in Kept(e)', NEW n \in HasRows(e, t), m <= n,
               ~Handling(e, t, m)', NEW f \in Of(t)
        PROVE  Settled(e, f, m)'
    <3>1. n \in Nat /\ n <= now /\ m \in Nat
      BY <1>10 DEF Kept, Minute
    <3>2. m \in Kept(e) /\ m \in Minute
      BY <1>2, <1>9, <2>1, <3>1
    <3>3. ~Handling(e, t, m)
      BY <1>1, <2>1 DEF Handling
    <3>4. Settled(e, f, m)
      BY <2>1, <3>2, <3>3 DEF IInv, Behind
    <3>. QED  BY <1>6, <1>11, <3>2, <3>4
  <2>. QED  BY <1>8, <2>1 DEF Behind
<1>13. ASSUME NEW e \in Edge, NEW t \in Marks, NEW low \in Int, low < now, Passed(e, t, low)
       PROVE  Passed(e, t, low)'
  <2>1. ASSUME NEW m \in Kept(e)', NEW f \in Of(t), m <= low PROVE Settled(e, f, m)'
    <3>1. m \in Nat
      BY DEF Kept, Minute
    <3>2. m \in Kept(e) /\ m \in Minute
      BY <1>2, <1>9, <1>13, <2>1, <3>1
    <3>. QED  BY <1>6, <1>11, <1>13, <2>1, <3>2 DEF Passed
  <2>. QED  BY <2>1 DEF Passed
<1>14. ASSUME NEW e \in Edge, NEW t \in Marks, NEW low \in Nat, NEW L, L \subseteq Minute, Ahead(e, t, L, low)
       PROVE  Ahead(e, t, L, low)'
  <2>1. ASSUME NEW l \in L
        PROVE  /\ l > low /\ l <= now' /\ (t = "l4" => Heard(e, t, l)' > 0)
               /\ \A m \in Kept(e)' : low < m /\ m < l => m \in L \/ Heard(e, t, m)' = 0
    <3>1. /\ l > low /\ l <= now /\ (t = "l4" => Heard(e, t, l) > 0) /\ l \in Nat /\ l \in Minute
          /\ \A m \in Kept(e) : low < m /\ m < l => m \in L \/ Heard(e, t, m) = 0
      BY <1>14 DEF Ahead, Minute
    <3>2. l <= now'
      BY <1>2, <3>1
    <3>3. t = "l4" => Heard(e, t, l)' > 0
      BY <1>3, <3>1 DEF Heard
    <3>4. ASSUME NEW m \in Kept(e)', low < m, m < l, m \notin L PROVE Heard(e, t, m)' = 0
      <4>1. m \in Nat /\ m < now /\ m <= now
        BY <1>2, <3>1, <3>4 DEF Kept, Minute
      <4>2. m \in Kept(e) /\ m \in Minute
        BY <1>9, <4>1
      <4>. QED  BY <1>5, <3>1, <3>4, <4>1, <4>2
    <3>. QED  BY <3>1, <3>2, <3>3, <3>4
  <2>. QED  BY <2>1 DEF Ahead
<1>15. InHandOK(c)'
  <2>1. ASSUME NEW f, c.pc \in {"insert", "perf", "l4insert"}, Right(c, f) PROVE Right(c, f)'
    <3>1. c.at \in Minute /\ c.edge \in Edge
      BY <2>1 DEF IInv, TypeInv, JobOK, Visiting, Fetching, FetchingL4
    <3>2. CASE c.at < now /\ c.rows = Told(c.edge, f, c.at)
      <4>1. PICK d \in Edge, a \in Minute : d = c.edge /\ a = c.at
        BY <3>1
      <4>2. a < now' /\ Told(d, f, a)' = Told(d, f, a)
        BY <1>2, <1>5, <3>2, <4>1 DEF Minute
      <4>. QED  BY <1>1, <3>2, <4>1, <4>2 DEF Right
    <3>. QED  BY <1>1, <2>1, <3>2 DEF Right
  <2>. QED  BY <1>1, <2>1 DEF IInv, InHandOK
<1>16. Walk(c)'
  <2>1. CASE c.pc \in Fetching
    <3>1. PICK d \in Edge, a \in Minute : d = c.edge /\ a = c.at
      BY <2>1, ListInHand
    <3>2. a - 1 \in Int /\ a \in Nat /\ a - 1 < now /\ c.list \subseteq Minute /\ "ip" \in Marks
      <4>1. a <= now /\ a \in Nat
        BY <2>1, <3>1, ListInHand DEF Minute
      <4>2. c.list \subseteq Minute
        BY JobFacts DEF IInv
      <4>. QED  BY <1>2, <4>1, <4>2 DEF Marks
    <3>3. PICK L, i : L = c.list /\ i = c.i
      OBVIOUS
    <3>4. /\ Passed(d, "ip", a - 1) /\ Ahead(d, "ip", L, a) /\ \A n \in HasRows(d, "ip") : n <= a
          /\ \A k \in 1 .. i - 1 : \A f \in Fed(Lists[k]) : Settled(d, f, a)
          /\ c.pc = "perf" => Settled(d, "site", a)
      BY <2>1, <3>1, <3>3 DEF IInv, Walk
    <3>5. Passed(d, "ip", a - 1)' /\ Ahead(d, "ip", L, a)'
      BY <1>13, <1>14, <3>2, <3>3, <3>4
    <3>6. \A k \in 1 .. i - 1 : \A f \in Fed(Lists[k]) : Settled(d, f, a)'
      <4>1. \A k \in 1 .. i - 1 : k \in DOMAIN Lists
        BY <2>1, <3>3, ListInHand, ListsOK
      <4>2. \A k \in 1 .. i - 1 : \A f \in Fed(Lists[k]) : f \in Counting
        BY <4>1, TablesOK
      <4>. QED  BY <1>6, <3>4, <4>2
    <3>7. c.pc = "perf" => Settled(d, "site", a)'
      <4>1. c.pc = "perf" => "site" \in Counting
        BY <2>1, ListInHand DEF IInv, TypeInv, JobOK
      <4>. QED  BY <1>6, <3>4, <4>1
    <3>8. \A n \in HasRows(d, "ip")' : n <= a
      BY <1>8, <3>4
    <3>. QED  BY <1>1, <2>1, <3>1, <3>3, <3>5, <3>6, <3>7, <3>8 DEF Walk, Fetching, FetchingL4
  <2>2. CASE c.pc \in FetchingL4
    <3>1. PICK d \in Edge, a \in Minute : d = c.edge /\ a = c.at
      BY <2>2, L4InHand
    <3>2. a - 1 \in Int /\ a \in Nat /\ a - 1 < now /\ c.list \subseteq Minute /\ "l4" \in Marks
      BY <1>2, <2>2, <3>1, L4InHand DEF Minute
    <3>3. PICK L : L = c.list
      OBVIOUS
    <3>4. /\ Passed(d, "l4", a - 1) /\ Ahead(d, "l4", L, a) /\ \A n \in HasRows(d, "l4") : n < a
          /\ seen[d][a]["packet"] > 0
      BY <2>2, <3>1, <3>3, L4InHand
    <3>5. Passed(d, "l4", a - 1)' /\ Ahead(d, "l4", L, a)'
      BY <1>13, <1>14, <3>2, <3>3, <3>4
    <3>6. seen'[d][a]["packet"] > 0
      BY <1>3, <3>4
    <3>7. \A n \in HasRows(d, "l4")' : n < a
      BY <1>8, <3>4
    <3>. QED  BY <1>1, <2>2, <3>1, <3>3, <3>5, <3>6, <3>7 DEF Walk, Fetching, FetchingL4
  <2>3. CASE c.pc \notin Fetching \cup FetchingL4
    <3>1. /\ c.pc = "list" => c.last = Newest(c.edge, "ip")
          /\ c.pc = "l4list" => c.last = Newest(c.edge, "l4")
      BY DEF IInv, Walk
    <3>2. /\ c'.pc = "list" => c'.last = Newest(c.edge, "ip")'
          /\ c'.pc = "l4list" => c'.last = Newest(c.edge, "l4")'
      BY <1>1, <3>1 DEF Newest, HasRows
    <3>. QED  BY <1>1, <2>3, <3>2 DEF Walk
  <2>. QED  BY <2>1, <2>2, <2>3
<1>. QED  BY <1>4, <1>7, <1>12, <1>15, <1>16 DEF IInv

-----------------------------------------------------------------------------
(* The theorems. *)

LEMMA InvNext == IInv /\ [Next]_vars => IInv'
<1>. SUFFICES ASSUME IInv, [Next]_vars PROVE IInv'
  OBVIOUS
<1>1. CASE CollectorStep
  BY <1>1, PollStep, ReadNewestStep, ListMinutesStep, FetchListStep, InsertListStep, SnapshotStep,
     ListL4Step, FetchL4Step, InsertBucketL4Step, ListFailsStep, L4FailsStep DEF CollectorStep
<1>2. CASE UNCHANGED vars
  <2>1. UNCHANGED <<now, seen, table, c, missed, early>>
    BY <1>2 DEF vars
  <2>2. TypeInv'
    BY <2>1 DEF IInv, TypeInv, JobOK
  <2>3. Counted' /\ InHandOK(c)'
    <3>1. \A e, f, m : Wanted(e, f, m)' = Wanted(e, f, m)
      BY <2>1 DEF Wanted
    <3>2. \A e, f, m : Told(e, f, m)' = Told(e, f, m)
      BY <2>1 DEF Told
    <3>3. Counted'
      BY <2>1, <3>1 DEF IInv, Counted
    <3>4. \A f : Right(c, f)' <=> Right(c, f)
      BY <2>1, <3>2 DEF Right
    <3>5. InHandOK(c)'
      BY <2>1, <3>4 DEF IInv, InHandOK
    <3>. QED  BY <3>3, <3>5
  <2>4. \A e, f : /\ Kept(e)' = Kept(e) /\ HasRows(e, f)' = HasRows(e, f)
                  /\ Newest(e, f)' = Newest(e, f)
                  /\ \A m : /\ Settled(e, f, m)' <=> Settled(e, f, m)
                            /\ Heard(e, f, m)' = Heard(e, f, m)
                            /\ Handling(e, f, m)' <=> Handling(e, f, m)
    BY <2>1 DEF Kept, HasRows, Newest, Settled, Excused, Wanted, Heard, Requests, Handling
  <2>5. Behind'
    BY <2>4 DEF IInv, Behind
  <2>6. \A e, t, L, low : /\ Passed(e, t, low)' <=> Passed(e, t, low)
                          /\ Ahead(e, t, L, low)' <=> Ahead(e, t, L, low)
    BY <2>1, <2>4 DEF Passed, Ahead
  <2>7. Walk(c)'
    BY <2>1, <2>4, <2>6 DEF IInv, Walk
  <2>. QED  BY <2>2, <2>3, <2>5, <2>7 DEF IInv
<1>. QED  BY <1>1, <1>2, RestartStep, TimeStep DEF Next

\* The collector's state, its tables and what it tells failures and early lists by keep their
\* types, for any number of edges and minutes.
THEOREM TypeCorrect == Spec => []TypeInv
<1>1. IInv => TypeInv
  BY DEF IInv
<1>. QED  BY <1>1, InvInit, InvNext, PTL DEF Spec

\* A list that is stored says what the edge counted in that minute, however often a failing call
\* or a restart had it fetched again.
THEOREM StoredCounts == Spec => []StoredIsCounted
<1>1. IInv => StoredIsCounted
  BY DEF IInv, Counted, Counting, StoredIsCounted
<1>. QED  BY <1>1, InvInit, InvNext, PTL DEF Spec

\* Behind the newest stored minute nothing is missing that was not lost to a failure or fetched
\* while the minute was running.
THEOREM HolesExplained == Spec => []HolesAreFaults
<1>1. ASSUME IInv, NEW e \in Edge, NEW f \in Tables \ {"server"}, NEW m \in Minute, NEW t,
             t = (IF f = "l4" THEN "l4" ELSE "ip"),
             m \in Kept(e), m <= Newest(e, t), ~InHand(e, m), Wanted(e, f, m) # {}
      PROVE  table[e][f][m] # {} \/ Excused(e, f, m)
  <2>1. f \in Of(t) /\ t \in Marks
    BY <1>1 DEF Of, Counting, Marks
  <2>2. PICK n \in HasRows(e, t) : m <= n
    <3>1. Newest(e, t) # 0
      BY <1>1 DEF Minute
    <3>. QED  BY <1>1, <3>1, NewestIs
  <2>3. ~Handling(e, t, m)
    BY <1>1 DEF Handling, InHand, Fetching
  <2>4. Settled(e, f, m)
    BY <1>1, <2>1, <2>2, <2>3 DEF IInv, Behind
  <2>. QED  BY <1>1, <2>4 DEF Settled
<1>2. IInv => HolesAreFaults
  BY <1>1 DEF HolesAreFaults
<1>. QED  BY <1>2, InvInit, InvNext, PTL DEF Spec
=============================================================================
