---------------------------- MODULE StatsCollector ----------------------------
(***************************************************************************)
(* The statistics collector (worker/ip_request_stats_collector.go): one       *)
(* goroutine that asks each edge in turn for the minutes it has counted,       *)
(* fetches nine lists for each minute newer than the newest one it has in      *)
(* ip_request_stats, and stores every list with a statement of its own.  The   *)
(* edges go on counting and forget old minutes meanwhile.                      *)
(***************************************************************************)
EXTENDS Integers, Sequences

CONSTANTS
    Edge,         \* edge servers
    Lists,        \* the lists of a minute in the order in which they are fetched
    Shape,        \* how each edge encodes its lists: "list" or "map"
    MaxMinute,    \* bound on the clock
    Keep,         \* minutes an edge remembers
    MaxEvent,     \* bound on requests and packets
    MaxFault      \* bound on calls that fail and restarts

ASSUME ShapeAssumption == Shape \in [Edge -> {"list", "map"}]
ASSUME BoundAssumption == {MaxMinute, Keep, MaxEvent, MaxFault} \subseteq Nat /\ MaxMinute # 0

Minute == 1 .. MaxMinute
Kind == {"full", "bare", "packet"}

\* The lists of the code; an instance may leave some out, but not the one that marks a minute
\* as collected, nor the one that feeds two tables.
AllLists == <<"ip", "isp", "country", "referer", "url", "useragent", "site", "domain", "reason">>
Tables == {Lists[i] : i \in DOMAIN Lists} \cup {"performance", "l4", "server"}

ASSUME ListsAssumption ==
    /\ Lists \in Seq({AllLists[i] : i \in DOMAIN AllLists}) /\ Lists # <<>> /\ Lists[1] = "ip"
    /\ \E i \in DOMAIN Lists : Lists[i] = "site"

Row == [site : {0, 1}, name : {"x", "y", ""}, n : Nat]

VARIABLES
    now,          \* the current minute
    seen,         \* what each edge has counted in each minute
    table,        \* the statistics tables: the rows of each edge and minute
    c,            \* the collector's goroutine
    missed,       \* history: lists that were lost to a failing call or a restart
    early,        \* history: lists fetched while their minute was still running
    events,       \* bounded by MaxEvent
    faults        \* bounded by MaxFault

vars == <<now, seen, table, c, missed, early, events, faults>>

Idle == [pc |-> "idle", todo |-> {}, edge |-> 0, last |-> 0, list |-> {}, at |-> 0, i |-> 0,
         rows |-> {}]
Least(S) == CHOOSE x \in S : \A y \in S : x <= y
Greatest(S) == CHOOSE x \in S : \A y \in S : y <= x

-----------------------------------------------------------------------------
(* The edges.  A full request has a site, a domain, a referer, ...; a bare one *)
(* only an address and a URL, and its other fields are sent blank.             *)

Kept(e) == {m \in Minute : m <= now /\ m > now - Keep}
Requests(e, m) == seen[e][m]["full"] + seen[e][m]["bare"]
Named(f) == IF f \in {"ip", "url"} THEN "y" ELSE ""

Entries(f, k) ==
    {r \in {[site |-> 1, name |-> "x", n |-> k["full"]],
            [site |-> 0, name |-> Named(f), n |-> k["bare"]]} : r.n > 0}

\* What decoding makes of a list: a map has the name or the site as its key, and its other
\* fields in the value; the values of the six lists of names carry no site.
Decode(f, shape, L) ==
    IF shape = "map" /\ f \notin {"site", "domain", "reason"}
    THEN {[r EXCEPT !.site = 0] : r \in L} ELSE L

-----------------------------------------------------------------------------
(* The statements.  All but two update the rows they meet and keep the others; *)
(* block reasons and performance are deleted and inserted in one transaction.  *)

SameKey(r, q) == r.site = q.site /\ r.name = q.name

\* Regression: a list that is fetched again is added to the rows there are.
UpsertAdding(T, R) ==
    {r \in T : \A q \in R : ~SameKey(r, q)} \cup
    {[q EXCEPT !.n = IF \E r \in T : SameKey(r, q)
                     THEN @ + (CHOOSE r \in T : SameKey(r, q)).n ELSE @] : q \in R}

Upsert(T, R) == {r \in T : \A q \in R : ~SameKey(r, q)} \cup R

InsertIP(T, L) == Upsert(T, {r \in L : r.name # "" /\ r.n > 0})
InsertISP(T, L) == Upsert(T, {r \in L : r.name # "" /\ r.n > 0})
InsertCountry(T, L) == Upsert(T, {r \in L : r.name # "" /\ r.n > 0})
InsertReferer(T, L) == Upsert(T, {r \in L : r.name # "" /\ r.n > 0})
InsertURL(T, L) == Upsert(T, {r \in L : r.name # "" /\ r.n > 0})
InsertUserAgent(T, L) == Upsert(T, {r \in L : r.name # "" /\ r.n > 0})
InsertSite(T, L) == Upsert(T, {r \in L : r.site > 0})
InsertDomain(T, L) == Upsert(T, {r \in L : r.name # "" /\ r.n > 0})
InsertL4(T, L) == Upsert(T, L)
InsertServer(T, L) == Upsert(T, L)

\* Without a row of its own the performance statement leaves the minute as it is; block
\* reasons are cleared even then.
InsertPerformance(T, L) == IF \E r \in L : r.site > 0 THEN {r \in L : r.site > 0} ELSE T
InsertReason(T, L) == {r \in L : r.name # "" /\ r.n > 0}

Stored(f, T, L) ==
    CASE f = "ip" -> InsertIP(T, L)              [] f = "isp" -> InsertISP(T, L)
      [] f = "country" -> InsertCountry(T, L)    [] f = "referer" -> InsertReferer(T, L)
      [] f = "url" -> InsertURL(T, L)            [] f = "useragent" -> InsertUserAgent(T, L)
      [] f = "site" -> InsertSite(T, L)          [] f = "performance" -> InsertPerformance(T, L)
      [] f = "domain" -> InsertDomain(T, L)      [] f = "reason" -> InsertReason(T, L)
      [] f = "l4" -> InsertL4(T, L)              [] OTHER -> InsertServer(T, L)

Put(f, m, L) == table' = [table EXCEPT ![c.edge][f][m] = Stored(f, @, L)]

\* SELECT MAX(bucket_ts) of one edge: the newest minute that has a row.
HasRows(e, f) == {m \in Minute : table[e][f][m] # {}}
\* Regression: the newest minute of any edge.
NewestOfAll(e, f) ==
    LET S == UNION {HasRows(d, f) : d \in Edge} IN IF S = {} THEN 0 ELSE Greatest(S)

Newest(e, f) == IF HasRows(e, f) = {} THEN 0 ELSE Greatest(HasRows(e, f))

-----------------------------------------------------------------------------
(* One round over the edges. *)

Fault == faults < MaxFault /\ faults' = faults + 1
Lose(F, m) == missed' = missed \cup {<<c.edge, f, m>> : f \in F}
Calm == UNCHANGED <<now, seen, events>>

Poll ==
    /\ c.pc = "idle"
    /\ c' = [Idle EXCEPT !.pc = "next", !.todo = Edge]
    /\ Calm /\ UNCHANGED <<table, missed, early, faults>>

NextEdge ==
    /\ c.pc = "next"
    /\ IF c.todo = {} THEN c' = Idle
       ELSE \E e \in c.todo : c' = [Idle EXCEPT !.pc = "mark", !.todo = c.todo \ {e}, !.edge = e]
    /\ Calm /\ UNCHANGED <<table, missed, early, faults>>

LeaveEdge == c' = [Idle EXCEPT !.pc = "next", !.todo = c.todo]

ReadNewest ==
    /\ c.pc \in {"mark", "l4mark"}
    /\ c' = [c EXCEPT !.last = Newest(c.edge, IF c.pc = "mark" THEN "ip" ELSE "l4"),
                      !.pc = IF c.pc = "mark" THEN "list" ELSE "l4list"]
    /\ Calm /\ UNCHANGED <<table, missed, early, faults>>

\* Regression: the minutes are not sorted.
NextMinuteUnsorted(L, last) ==
    LET S == {m \in L : m > last} IN
    c' = IF S = {} THEN [c EXCEPT !.pc = "snapshot", !.list = {}, !.rows = {}]
         ELSE [c EXCEPT !.pc = "fetch", !.list = S \ {Greatest(S)}, !.at = Greatest(S), !.i = 1,
                        !.rows = {}]

\* The minutes still to fetch, oldest first; then the snapshot of the edge's totals.
NextMinute(L, last) ==
    LET S == {m \in L : m > last} IN
    c' = IF S = {} THEN [c EXCEPT !.pc = "snapshot", !.list = {}, !.rows = {}]
         ELSE [c EXCEPT !.pc = "fetch", !.list = S \ {Least(S)}, !.at = Least(S), !.i = 1,
                        !.rows = {}]

\* An edge lists the minutes in which it counted something; whether the running minute is
\* among them is up to the edge.  No minute at all ends the edge's turn.
ListMinutes ==
    /\ c.pc = "list"
    /\ \E running \in BOOLEAN :
         LET L == {m \in Kept(c.edge) : Requests(c.edge, m) > 0 /\ (running \/ m < now)} IN
         IF L = {} THEN LeaveEdge ELSE NextMinute(L, c.last)
    /\ Calm /\ UNCHANGED <<table, missed, early, faults>>

List(i) == Lists[i]
Following == IF c.i = Len(Lists) THEN NextMinute(c.list, 0)
             ELSE c' = [c EXCEPT !.pc = "fetch", !.i = c.i + 1, !.rows = {}]
Early(F) == early' = IF c.at = now THEN early \cup {<<c.edge, f, c.at>> : f \in F} ELSE early

\* The tables a list goes to: the one of the sites feeds two.
Fed(f) == IF f = "site" THEN {"site", "performance"} ELSE {f}

FetchList ==
    /\ c.pc = "fetch" /\ c.at \in Kept(c.edge)
    /\ LET L == Decode(List(c.i), Shape[c.edge], Entries(List(c.i), seen[c.edge][c.at])) IN
       IF L = {} THEN Following ELSE c' = [c EXCEPT !.pc = "insert", !.rows = L]
    /\ Early(Fed(List(c.i)))
    /\ Calm /\ UNCHANGED <<table, missed, faults>>

InsertList ==
    /\ c.pc = "insert"
    /\ Put(List(c.i), c.at, c.rows)
    /\ IF List(c.i) = "site" THEN c' = [c EXCEPT !.pc = "perf"] ELSE Following
    /\ Calm /\ UNCHANGED <<missed, early, faults>>

InsertSecond ==
    /\ c.pc = "perf"
    /\ Put("performance", c.at, c.rows)
    /\ Following
    /\ Calm /\ UNCHANGED <<missed, early, faults>>

\* The row of the edge's totals for the running minute; the totals themselves are left out.
Snapshot ==
    /\ c.pc = "snapshot"
    /\ Put("server", now, {[site |-> 0, name |-> "", n |-> 0]})
    /\ c' = [c EXCEPT !.pc = "l4mark"]
    /\ Calm /\ UNCHANGED <<missed, early, faults>>

NextL4(L, last) ==
    LET S == {m \in L : m > last} IN
    IF S = {} THEN LeaveEdge
    ELSE c' = [c EXCEPT !.pc = "l4fetch", !.list = S \ {Least(S)}, !.at = Least(S), !.rows = {}]

ListL4 ==
    /\ c.pc = "l4list"
    /\ \E running \in BOOLEAN :
         NextL4({m \in Kept(c.edge) : seen[c.edge][m]["packet"] > 0 /\ (running \/ m < now)}, c.last)
    /\ Calm /\ UNCHANGED <<table, missed, early, faults>>

FetchL4 ==
    /\ c.pc = "l4fetch" /\ c.at \in Kept(c.edge)
    /\ c' = [c EXCEPT !.pc = "l4insert",
                      !.rows = {[site |-> 0, name |-> "", n |-> seen[c.edge][c.at]["packet"]]}]
    /\ Early({"l4"})
    /\ Calm /\ UNCHANGED <<table, missed, faults>>

InsertBucketL4 ==
    /\ c.pc = "l4insert"
    /\ Put("l4", c.at, c.rows)
    /\ NextL4(c.list, 0)
    /\ Calm /\ UNCHANGED <<missed, early, faults>>

-----------------------------------------------------------------------------
(* What can fail.  A list that fails is skipped and the next one is fetched;    *)
(* without the newest minute or the list of minutes the whole edge is skipped.  *)

EdgeFails ==
    /\ c.pc \in {"mark", "list", "l4mark", "l4list"}
    /\ Fault /\ LeaveEdge
    /\ Calm /\ UNCHANGED <<table, missed, early>>

ListFails ==
    /\ c.pc \in {"fetch", "insert"}
    /\ IF c.at \in Kept(c.edge) \/ c.pc = "insert" THEN Fault ELSE UNCHANGED faults
    /\ IF List(c.i) = "site" /\ c.pc = "insert"
       THEN Lose({"site"}, c.at) /\ c' = [c EXCEPT !.pc = "perf"]
       ELSE Lose(Fed(List(c.i)), c.at) /\ Following
    /\ Calm /\ UNCHANGED <<table, early>>

SecondFails ==
    /\ c.pc = "perf" /\ Fault
    /\ Lose({"performance"}, c.at) /\ Following
    /\ Calm /\ UNCHANGED <<table, early>>

SnapshotFails ==
    /\ c.pc = "snapshot" /\ Fault
    /\ c' = [c EXCEPT !.pc = "l4mark"]
    /\ Calm /\ UNCHANGED <<table, missed, early>>

L4Fails ==
    /\ c.pc \in {"l4fetch", "l4insert"}
    /\ IF c.at \in Kept(c.edge) \/ c.pc = "l4insert" THEN Fault ELSE UNCHANGED faults
    /\ Lose({"l4"}, c.at) /\ NextL4(c.list, 0)
    /\ Calm /\ UNCHANGED <<table, early>>

\* The process ends: what is left of the minute in hand is not fetched again once the
\* minute has a row in ip_request_stats.
Restart ==
    /\ c.pc # "idle" /\ Fault /\ c' = Idle
    /\ IF c.pc \in {"fetch", "insert", "perf"}
       THEN Lose(UNION {Fed(List(i)) : i \in c.i .. Len(Lists)}, c.at)
       ELSE UNCHANGED missed
    /\ Calm /\ UNCHANGED <<table, early>>

-----------------------------------------------------------------------------
(* The edges count, and the clock moves on. *)

Count(e, k) ==
    /\ events < MaxEvent /\ events' = events + 1
    /\ seen' = [seen EXCEPT ![e][now][k] = @ + 1]
    /\ UNCHANGED <<now, table, c, missed, early, faults>>

Tick ==
    /\ now < MaxMinute /\ now' = now + 1
    /\ UNCHANGED <<seen, table, c, missed, early, events, faults>>

Init ==
    /\ now = 1 /\ seen = [e \in Edge |-> [m \in Minute |-> [k \in Kind |-> 0]]]
    /\ table = [e \in Edge |-> [f \in Tables |-> [m \in Minute |-> {}]]]
    /\ c = Idle /\ missed = {} /\ early = {} /\ events = 0 /\ faults = 0

CollectorStep ==
    \/ Poll \/ NextEdge \/ ReadNewest \/ ListMinutes \/ FetchList \/ InsertList \/ InsertSecond
    \/ Snapshot \/ ListL4 \/ FetchL4 \/ InsertBucketL4
    \/ EdgeFails \/ ListFails \/ SecondFails \/ SnapshotFails \/ L4Fails

Next ==
    \/ CollectorStep
    \/ Restart
    \/ \E e \in Edge, k \in Kind : Count(e, k)
    \/ Tick

\* The goroutine goes on: each of its calls has a deadline and a timer starts each round.
Spec == Init /\ [][Next]_vars /\ WF_vars(CollectorStep)

-----------------------------------------------------------------------------
(* Properties. *)

\* What a table should hold of a minute.
Wanted(e, f, m) ==
    IF f = "l4"
    THEN {r \in {[site |-> 0, name |-> "", n |-> seen[e][m]["packet"]]} : r.n > 0}
    ELSE LET g == IF f = "performance" THEN "site" ELSE f IN
         Stored(f, {}, Decode(g, Shape[e], Entries(g, seen[e][m])))

InHand(e, m) == c.edge = e /\ c.at = m /\ c.pc \in {"fetch", "insert", "perf", "l4insert"}
Excused(e, f, m) == <<e, f, m>> \in missed \cup early

\* The collector asks only for minutes newer than the newest one in ip_request_stats (or, for
\* L4, in l4_attack_stats).  No list of an older minute is missing there, unless a call for it
\* failed, the process ended in its middle, or it was fetched while the minute was running.
HolesAreFaults ==
    \A e \in Edge, f \in Tables \ {"server"}, m \in Minute :
        (/\ m \in Kept(e) /\ m <= Newest(e, IF f = "l4" THEN "l4" ELSE "ip")
         /\ ~InHand(e, m) /\ Wanted(e, f, m) # {})
        => table[e][f][m] # {} \/ Excused(e, f, m)

\* However often a minute is fetched again after failures, a stored list says what the edge
\* counted: nothing is added twice and no row of an earlier fetch stays beside the new ones.
StoredIsCounted ==
    \A e \in Edge, f \in Tables \ {"server"}, m \in Minute :
        table[e][f][m] = {} \/ <<e, f, m>> \in early \/ table[e][f][m] = Wanted(e, f, m)

\* Each minute with requests is collected in the end, whatever the other edges do, unless the
\* edge forgets it first; so is each minute with packets, of an edge that lists any minute.
EventuallyCollected ==
    \A e \in Edge, m \in 1 .. MaxMinute - 1 :
        /\ (m < now /\ m \in Kept(e) /\ Requests(e, m) > 0)
           ~> (table[e]["ip"][m] # {} \/ m \notin Kept(e) \/ Excused(e, "ip", m))
        /\ (m < now /\ m \in Kept(e) /\ seen[e][m]["packet"] > 0)
           ~> (\/ table[e]["l4"][m] # {} \/ m \notin Kept(e) \/ Excused(e, "l4", m)
               \/ \A d \in Kept(e) : d < now => Requests(e, d) = 0)
=============================================================================
