------------------------------- MODULE Analytics -------------------------------
(***************************************************************************)
(* The pages of statistics: what api/viewer_scope.go lets a user see, the      *)
(* windows and scopes of api/handlers.go, the queries of                       *)
(* store/server_traffic_stats.go and store/l4_attack_stats.go, and the charts   *)
(* made of them.  The user's edges, the site's edges and every query are read   *)
(* in a step of their own; statistics, grants and assignments change meanwhile. *)
(***************************************************************************)
EXTENDS Integers, FiniteSetsExt

CONSTANTS
    Node,         \* edge servers
    Site,         \* sites with statistics
    Viewer,       \* users
    Admin,        \* the users whose role is Admin
    Client,       \* names on a list: addresses, providers, referers, URLs, countries, ...
    Sample,       \* what an edge may have counted in a minute
    Window,       \* the windows asked for
    Limit,        \* the length of a list
    MaxPoints,    \* dashboardChartMaxPoints
    Month,        \* minutes in a month
    Last,         \* bound on the clock
    MaxRow,       \* bound on the minutes stored
    MaxChange     \* bound on changes of grants and assignments

ASSUME PeopleAssumption == Admin \subseteq Viewer
ASSUME BoundAssumption ==
    {Last, MaxRow, MaxChange} \subseteq Nat /\ {MaxPoints, Month, Limit} \subseteq Nat \ {0}
ASSUME SiteAssumption == IsFiniteSet(Site)
ASSUME WindowAssumption == Window \subseteq (0 .. Last) \X (0 .. Last)
\* nic: traffic of the interface; peak: the highest rate among the seconds in
\* l4_attack_stats; attacks: rows of l4_live_attack; all and site: requests in
\* server_traffic_stats and site_traffic_stats; hits: the lists of names.  They come in
\* calls of their own, so they need not agree.
Requests == [asked : Nat, blocked : Nat]
SiteFigures == [asked : Nat, blocked : Nat, hit : Nat, miss : Nat, bytes : Nat]
ASSUME SampleAssumption ==
    Sample \subseteq [nic : Nat, peak : Nat, attacks : [Client -> Nat], all : Requests,
                     site : [Site -> SiteFigures], hits : [Site -> [Client -> Nat]]]

VARIABLES
    stats,        \* server_traffic_stats and its siblings: <<node, minute>> |-> sample
    grants,       \* server_users: the edges of each user
    serves,       \* the edges of each site
    page,         \* the request that is being answered
    changes       \* bounded by MaxChange

pageVars == <<stats, grants, serves, page, changes>>

Anything == [node |-> {}, nodes |-> {}, site |-> {}, restricted |-> FALSE, from |-> 0, to |-> 0]
NoAnswer == [i \in {} |-> 0]
NoPage == [pc |-> "closed", kind |-> "none", who |-> {}, own |-> {}, q |-> Anything,
           answer |-> NoAnswer]

-----------------------------------------------------------------------------
(* Scopes: q is a store.TrafficScope and a window. *)

\* Regression: no edges at all means every edge, for everybody.
NodesUnrestricted(q) == IF q.node \cup q.nodes = {} THEN Node ELSE q.node \cup q.nodes

\* appendServerScope: an edge asked for, else the list, where no list at all means every
\* edge unless the user is restricted.
Nodes(q) ==
    CASE q.node # {} -> q.node
      [] q.node = {} /\ (q.restricted \/ q.nodes # {}) -> q.nodes
      [] OTHER -> Node

\* Every query of R takes both ends of its window, except the months of the dashboard.
Rows(R, q) == {r \in DOMAIN R : r[1] \in Nodes(q) /\ q.from <= r[2] /\ r[2] <= q.to}

\* l7StatsTable: the site asked for has a table of its own, in which an edge has a row for
\* a minute with requests only.
L7(R, q, r) == IF q.site = {} THEN R[r].all ELSE R[r].site[CHOOSE s \in q.site : TRUE]
SiteRows(R, q) == {r \in Rows(R, q) : q.site = {} \/ L7(R, q, r).asked > 0}

\* SUM: f has a figure for each row.
SumOf(f) == MapThenSumSet(LAMBDA r : f[r], DOMAIN f)
\* SUM ... GROUP BY bucket_ts
PerMinute(f) ==
    [m \in {r[2] : r \in DOMAIN f} |-> SumOf([r \in {r \in DOMAIN f : r[2] = m} |-> f[r]])]

-----------------------------------------------------------------------------
(* The store's queries. *)

Larger(a, b) == IF a > b THEN a ELSE b

\* ListNicRxBandwidthAggregate: the minute's sample, or the attack's peak when it is higher.
NicRx(R, q) == PerMinute([r \in Rows(R, q) |-> Larger(R[r].nic, R[r].peak)])
\* ListNicTxBandwidthAggregate, listNicRateAggregate
NicRate(R, q) == PerMinute([r \in Rows(R, q) |-> R[r].nic])
\* ListL7RxBandwidthAggregate, ListL7TxBandwidthAggregate, ListRequestResponse, ListStatusCodes
L7Rate(R, q) == PerMinute([r \in SiteRows(R, q) |-> L7(R, q, r).asked])
\* ListIpCount, ListBlockedRequestSeries, ListMethodSeries, ListProtocolSeries
Counts(R, q) == PerMinute([r \in SiteRows(R, q) |-> L7(R, q, r).blocked])
\* ListNicTxTraffic, ListNicRxTraffic: no site narrows the interface's traffic.
NicVolume(R, q) == PerMinute([r \in Rows(R, q) |-> R[r].nic])
\* ListL7TxTraffic, ListL7RxTraffic
L7Volume(R, q) == PerMinute([r \in SiteRows(R, q) |-> L7(R, q, r).asked])
\* l4AttackStatsStore.ListTrafficSeries, ListProtocolSeries
L4Series(R, q) == PerMinute([r \in Rows(R, q) |-> R[r].peak])

\* SumTotals: a site has no traffic of the interface.
Totals(R, q) ==
    [nic |-> IF q.site # {} THEN 0 ELSE SumOf([r \in Rows(R, q) |-> R[r].nic]),
     l7 |-> SumOf([r \in SiteRows(R, q) |-> L7(R, q, r).asked])]
\* SumStatusCodes, SumMethods, SumProtocols
Breakdown(R, q) == SumOf([r \in SiteRows(R, q) |-> L7(R, q, r).asked])
\* SumSecurityTotals
SecurityTotals(R, q) ==
    [requests |-> Breakdown(R, q),
     blocked |-> SumOf([r \in SiteRows(R, q) |-> L7(R, q, r).blocked])]

\* LatestNicRxBandwidth and its siblings: nothing, or the last minute of the window.
Latest(series) ==
    [at \in {m \in DOMAIN series : \A n \in DOMAIN series : n <= m} |-> series[at]]

\* Regression: the month ends with the first minute of the next.
ThreatsClosed(R, q) == SumOf([r \in Rows(R, q) |-> R[r].all.blocked])

\* SumBlockedRequests: the end of the month is not in it.
Threats(R, q) == SumOf([r \in {r \in Rows(R, q) : r[2] < q.to} |-> R[r].all.blocked])

\* SUM ... GROUP BY name over the lists, and over l4_live_attack.
SitesOf(q) == IF q.site = {} THEN Site ELSE q.site
Hits(R, q, c) == SumOf([r \in Rows(R, q) |-> SumOf([s \in SitesOf(q) |-> R[r].hits[s][c]])])
Attacks(R, q, c) == SumOf([r \in Rows(R, q) |-> R[r].attacks[c]])
\* SumIPCountStats, SumRefererRequests, SumIspRequests: COUNT(DISTINCT ...)
Names(R, q) == {c \in Client : Hits(R, q, c) > 0}
\* ORDER BY ... DESC LIMIT; equals come in any order.
Top(n, count) ==
    LET some == {c \in DOMAIN count : count[c] > 0} IN
    {[c \in T |-> count[c]] : T \in
        {U \in SUBSET some : /\ Cardinality(U) = Min({n, Cardinality(some)})
                            /\ \A c \in U, d \in some \ U : count[c] >= count[d]}}
\* ListTopIPs, ListTopIsps, ListTopReferers, ListTopUrls
TopNames(R, q) == Top(Limit, [c \in Client |-> Hits(R, q, c)])
\* ListTopUserAgents, ListTopDomains
TopDomains(R, q) == TopNames(R, q)
\* ListCountryRequests is not cut; ListCountryRequestsByRequests, -ByBlocked are.
Countries(R, q) == Top(Cardinality(Client), [c \in Client |-> Hits(R, q, c)])
\* SummarizeAttacks, ListRecentAttacks, ListTopAttackIPs
Attackers(R, q) == Top(Limit, [c \in Client |-> Attacks(R, q, c)])

\* The cache pages read site_traffic_stats whether a site is asked for or not.
OfSites(R, q, r, f) == SumOf([s \in SitesOf(q) |-> R[r].site[s][f]])
CacheSums(R, q) ==
    [f \in {"asked", "hit", "miss", "bytes"} |-> SumOf([r \in Rows(R, q) |-> OfSites(R, q, r, f)])]
\* splitCacheBytes: the bytes are shared out by the requests.
Split(x) ==
    LET cached == IF x.hit + x.miss = 0 THEN 0 ELSE (x.bytes * x.hit) \div (x.hit + x.miss)
    IN  [cached |-> cached, uncached |-> x.bytes - cached]
\* SumCacheSummary
CacheSummary(R, q) ==
    LET x == CacheSums(R, q)
    IN  [requests |-> Larger(x.asked, x.hit + x.miss), hit |-> x.hit, miss |-> x.miss,
         bytes |-> x.bytes, cached |-> Split(x).cached]
\* ListCacheStatusSeries
CacheStatus(R, q, f) == PerMinute([r \in Rows(R, q) |-> OfSites(R, q, r, f)])
\* ListCacheBandwidthSeries: every minute is split on its own.
CacheBytes(R, q, part) ==
    [m \in {r[2] : r \in Rows(R, q)} |-> Split(CacheSums(R, [q EXCEPT !.from = m, !.to = m]))[part]]
\* ListCacheBySite: the sites with requests, each with what the cache saved.
CacheBySite(R, q) ==
    LET of(s) == CacheSums(R, [q EXCEPT !.site = {s}])
    IN  [s \in {t \in Site : q.site \in {{}, {t}} /\ of(t).asked + of(t).hit + of(t).miss > 0} |->
            Split(of(s)).cached]

-----------------------------------------------------------------------------
(* Charts. *)

\* dashboardBucketSize: whole minutes.
Bucket(q) == CHOOSE b \in 1 .. Last + 1 :
                /\ (q.to - q.from) \div b <= MaxPoints
                /\ \A a \in 1 .. b - 1 : (q.to - q.from) \div a > MaxPoints
Aligned(q) == (q.from \div Bucket(q)) * Bucket(q)
BucketOf(q, m) == (m - Aligned(q)) \div Bucket(q)
InBucket(q, series, k) == {m \in DOMAIN series : BucketOf(q, m) = k}
SumOver(series, S) == SumOf([m \in S |-> series[m]])
Rounded(sum, n) == (2 * sum + n) \div (2 * n)
\* Every value rounds its own bucket.
Mean(series, S) == Rounded(SumOver(series, S), Cardinality(S))

Starts(q, series) == {Aligned(q) + BucketOf(q, m) * Bucket(q) : m \in DOMAIN series}

\* Regression: volumes are averaged as rates are.
CoarseAveraged(q, series, mode) ==
    IF Bucket(q) = 1 THEN series
    ELSE [at \in Starts(q, series) |-> Mean(series, InBucket(q, series, BucketOf(q, at)))]

\* coarsenAnalyticsSeries: a chart whose buckets are minutes is left as it is.
Coarse(q, series, mode) ==
    IF Bucket(q) = 1 THEN series
    ELSE [at \in Starts(q, series) |->
            LET S == InBucket(q, series, BucketOf(q, at))
            IN  IF mode = "sum" THEN SumOver(series, S) ELSE Mean(series, S)]

\* coarsenTrafficRate and the others that average; coarsenTrafficVolume and those that add up.
Averaged(q, series) == Coarse(q, series, "avg")
Summed(q, series) == Coarse(q, series, "sum")

\* aggregateBandwidth, one chart for each edge: the mean and the peak of every bucket.
Bars(R, q) ==
    [e \in {r[1] : r \in Rows(R, q)} |->
        LET series == NicRate(R, [q EXCEPT !.node = {e}]) IN
        [k \in {BucketOf(q, m) : m \in DOMAIN series} |->
            [mean |-> Mean(series, InBucket(q, series, k)),
             peak |-> Max({series[m] : m \in InBucket(q, series, k)})]]]

\* averageBuckets: the means of a chart on the overview, in hundredths.
Averages(q, series) ==
    [k \in {BucketOf(q, m) : m \in DOMAIN series} |->
        LET S == InBucket(q, series, k) IN Rounded(100 * SumOver(series, S), Cardinality(S))]

-----------------------------------------------------------------------------
(* The pages of one query: what each family of handlers may answer. *)

\* dashboardRequestResponseHandler, dashboardStatusCodesHandler
OverviewCharts(R, q) == {Averages(q, L7Rate(R, q))}
\* analyticsNicRxBandwidthSeriesHandler, -NicTx-, analyticsPacketRateSeriesHandler
NicCharts(R, q) == {Averaged(q, NicRx(R, q)), Averaged(q, NicRate(R, q))}
\* analyticsL7RxBandwidthSeriesHandler, -L7Tx-
L7Charts(R, q) == {Averaged(q, L7Rate(R, q))}
\* analyticsNicTxTrafficSeriesHandler, -NicRx-
NicVolumes(R, q) == {Summed(q, NicVolume(R, q))}
\* analyticsL7TxTrafficSeriesHandler, -L7Rx-
L7Volumes(R, q) == {Summed(q, L7Volume(R, q))}
\* analyticsRequestResponse-, -StatusCodes-, -IpCount-, -Method-, -ProtocolSeriesHandler,
\* securityAnalyticsBlockedSeriesHandler
RequestCharts(R, q) == {Averaged(q, L7Rate(R, q)), Averaged(q, Counts(R, q))}
\* analyticsStatusCodesSummaryHandler, -Method-, -Protocol-
Breakdowns(R, q) == {Breakdown(R, q)}
\* analyticsTopIpsSummaryHandler, -Isp-, -Referer-, -Country-
Lists(R, q) == TopNames(R, q) \cup Countries(R, q)
\* securityAnalyticsSummaryHandler
SecurityPages(R, q) == {SecurityTotals(R, q)}
\* securityAnalyticsCountrySummaryHandler, -TopRequests-, -TopBlocks-, -TopUrls-, -TopReferers-
SecurityLists(R, q) == TopNames(R, q) \cup Countries(R, q)
\* securityAnalyticsTopUserAgentsHandler, dashboardTopDomainsHandler
DomainLists(R, q) == TopDomains(R, q)
\* l4AnalyticsSummaryHandler
L4Pages(R, q) == {SumOver(L4Series(R, q), DOMAIN L4Series(R, q))}
\* l4AnalyticsTrafficSeriesHandler, -ProtocolSeries-
L4Charts(R, q) == {Averaged(q, L4Series(R, q))}
\* l4AnalyticsAttackSummaryHandler, -RecentAttacks-, -TopIps-
L4Lists(R, q) == Attackers(R, q)

\* cacheAnalyticsSummaryHandler
CachePages(R, q) == {CacheSummary(R, q)}
\* cacheAnalyticsSeriesHandler
CacheCharts(R, q) ==
    {[hit |-> Summed(q, CacheStatus(R, q, "hit")), miss |-> Summed(q, CacheStatus(R, q, "miss")),
      cached |-> Summed(q, CacheBytes(R, q, "cached")), uncached |-> Summed(q, CacheBytes(R, q, "uncached"))]}
\* cacheAnalyticsGroupHandler
CacheSites(R, q) == {CacheBySite(R, q)}

Kind == {"overview", "bars", "nic", "l7", "nic_volume", "l7_volume", "requests", "breakdown",
         "lists", "security", "security_lists", "domains", "l4", "l4_charts", "l4_lists", "cache", "cache_charts", "cache_sites"}

Answers(R, q, kind) ==
    CASE kind = "overview"       -> OverviewCharts(R, q)
      [] kind = "bars"           -> {Bars(R, q)}
      [] kind = "nic"            -> NicCharts(R, q)
      [] kind = "l7"             -> L7Charts(R, q)
      [] kind = "nic_volume"     -> NicVolumes(R, q)
      [] kind = "l7_volume"      -> L7Volumes(R, q)
      [] kind = "requests"       -> RequestCharts(R, q)
      [] kind = "breakdown"      -> Breakdowns(R, q)
      [] kind = "lists"          -> Lists(R, q)
      [] kind = "security"       -> SecurityPages(R, q)
      [] kind = "security_lists" -> SecurityLists(R, q)
      [] kind = "l4"             -> L4Pages(R, q)
      [] kind = "l4_charts"      -> L4Charts(R, q)
      [] kind = "l4_lists"       -> L4Lists(R, q)
      [] kind = "domains"        -> DomainLists(R, q)
      [] kind = "cache"          -> CachePages(R, q)
      [] kind = "cache_charts"   -> CacheCharts(R, q)
      [] kind = "cache_sites"    -> CacheSites(R, q)

-----------------------------------------------------------------------------
(* What changes while pages are read. *)

Change == changes < MaxChange /\ changes' = changes + 1

\* The collector stores the next minute of an edge.
Collect ==
    /\ Cardinality(DOMAIN stats) < MaxRow
    /\ \E e \in Node, m \in 0 .. Last, x \in Sample :
          /\ \A r \in DOMAIN stats : r[1] = e => r[2] < m
          /\ stats' = [r \in DOMAIN stats \cup {<<e, m>>} |-> IF r = <<e, m>> THEN x ELSE stats[r]]
    /\ UNCHANGED <<grants, serves, page, changes>>

\* An Admin gives a user other edges.
Grant ==
    /\ Change
    /\ \E v \in Viewer \ Admin, S \in SUBSET Node : grants' = [grants EXCEPT ![v] = S]
    /\ UNCHANGED <<stats, serves, page>>

\* A save or a push gives a site other edges.
Reassign ==
    /\ Change
    /\ \E s \in Site, S \in SUBSET Node : serves' = [serves EXCEPT ![s] = S]
    /\ UNCHANGED <<stats, grants, page>>

-----------------------------------------------------------------------------
(* Requests. *)

Turns(p) == page' = p /\ UNCHANGED <<stats, grants, serves, changes>>
Restricted == page.who \cap Admin = {}

\* withViewerScope
Enter ==
    /\ page.pc = "closed"
    /\ \E v \in Viewer :
          Turns([NoPage EXCEPT !.pc = "entered", !.who = {v}, !.own = IF v \in Admin THEN {} ELSE grants[v]])

CanSeeServer(e) == Restricted => e \in page.own
CanSeeSite(s) == Restricted => serves[s] \cap page.own # {}
Visible(S) == IF Restricted THEN S \cap page.own ELSE S

\* parseAnalyticsWindow
Backwards(w) == w[2] < w[1]

\* parseAnalyticsScope: the window is in order, and the edge and the site asked for, if any, are the user's.
Ask ==
    /\ page.pc = "entered"
    /\ \E N \in {{}} \cup {{e} : e \in Node}, S \in {{}} \cup {{s} : s \in Site}, w \in Window :
          LET all == IF S # {} THEN UNION {Visible(serves[s]) : s \in S} ELSE IF Restricted THEN page.own ELSE {}
          IN  IF ~Backwards(w) /\ (\A e \in N : CanSeeServer(e)) /\ (\A s \in S : CanSeeSite(s))
              THEN Turns([page EXCEPT !.pc = "asked",
                            !.q = [node |-> N, nodes |-> IF N = {} THEN all ELSE {}, site |-> S,
                                   restricted |-> Restricted, from |-> w[1], to |-> w[2]]])
              ELSE Turns(NoPage)

\* A page of one query.
Read ==
    /\ page.pc = "asked"
    /\ \E kind \in Kind : \E answer \in Answers(stats, page.q, kind) :
          Turns([page EXCEPT !.pc = "shown", !.kind = kind, !.answer = answer])

\* analyticsSummaryHandler: the totals, then the latest rates, then the counts of names.
\* SumTotals answers zeros when its query fails.
ReadTotals ==
    /\ page.pc = "asked"
    /\ \E total \in {0, Totals(stats, page.q).l7} :
          Turns([page EXCEPT !.pc = "totals", !.kind = "summary",
                             !.answer = [total |-> total, latest |-> {}, names |-> 0]])

ReadLatest ==
    /\ page.pc = "totals"
    /\ Turns([page EXCEPT !.pc = "latest", !.answer.latest = DOMAIN Latest(L7Rate(stats, page.q))])

ReadNames ==
    /\ page.pc = "latest"
    /\ Turns([page EXCEPT !.pc = "shown", !.answer.names = Cardinality(Names(stats, page.q))])

\* ListCacheStatusSummary: the summary, then misses read again; the summary's bytes are
\* shared out by both.
ReadCache ==
    /\ page.pc = "asked"
    /\ Turns([page EXCEPT !.pc = "cache", !.kind = "cache_status", !.answer = CacheSummary(stats, page.q)])

ReadMisses ==
    /\ page.pc = "cache"
    /\ LET hit == page.answer.hit
           miss == CacheSums(stats, page.q).miss
           share(n) == IF n = 0 THEN 0 ELSE (page.answer.bytes * n) \div (hit + miss)
       IN  Turns([page EXCEPT !.pc = "shown", !.answer = [bytes |-> @.bytes, hit |-> share(hit), miss |-> share(miss)]])

\* dashboardSummaryHandler: the month that is running and the one before, each read on its own.
Of(nodes, restricted, from, to) ==
    [Anything EXCEPT !.nodes = nodes, !.restricted = restricted, !.from = from, !.to = to]
Own(from, to) == Of(IF Restricted THEN page.own ELSE {}, Restricted, from, to)
Both(R, q) == Threats(R, [q EXCEPT !.from = @ - Month])

ReadThisMonth ==
    /\ page.pc = "entered"
    /\ \E now \in 0 .. Last :
          LET start == (now \div Month) * Month
              q == Own(start, start + Month)
          IN  /\ \A r \in DOMAIN stats : r[2] <= now
              /\ Turns([page EXCEPT !.pc = "month", !.kind = "months", !.q = q,
                                    !.answer = [this |-> Threats(stats, q), previous |-> 0,
                                                least |-> Both(stats, q)]])

ReadPreviousMonth ==
    /\ page.pc = "month"
    /\ LET q == Own(page.q.from - Month, page.q.from)
       IN  Turns([page EXCEPT !.pc = "shown", !.answer.previous = Threats(stats, q)])

Leave == page.pc # "closed" /\ Turns(NoPage)

-----------------------------------------------------------------------------
PageInit ==
    /\ stats = [r \in {} |-> 0]
    /\ grants \in [Viewer \ Admin -> SUBSET Node] /\ serves \in [Site -> SUBSET Node]
    /\ page = NoPage /\ changes = 0

PageNext ==
    \/ Collect \/ Grant \/ Reassign
    \/ Enter \/ Ask \/ Read \/ ReadTotals \/ ReadLatest \/ ReadNames \/ ReadCache \/ ReadMisses
    \/ ReadThisMonth \/ ReadPreviousMonth \/ Leave

PageSpec == PageInit /\ [][PageNext]_pageVars

-----------------------------------------------------------------------------
(* Properties. *)

\* A user who is no Admin is shown figures of the edges that were theirs when the request
\* came in and of no other: they are what they would be if the other edges had stored
\* nothing, whichever edge or site is asked for and however grants, the site's edges and
\* the statistics change between the reads of one request.
OwnEdgesOnly ==
    [][(Restricted /\ page'.pc # page.pc /\ page'.pc \in {"totals", "latest", "cache", "month", "shown"}) =>
        LET mine == [r \in {r \in DOMAIN stats : r[1] \in page.own} |-> stats[r]]
            q == page'.q
        IN  CASE page.pc = "asked" /\ page'.pc = "shown" -> page'.answer \in Answers(mine, q, page'.kind)
              [] page'.pc = "totals" -> page'.answer.total \in {0, Totals(mine, q).l7}
              [] page'.pc = "latest" -> page'.answer.latest = DOMAIN Latest(L7Rate(mine, q))
              [] page.pc = "latest"  -> page'.answer.names = Cardinality(Names(mine, q))
              [] page'.pc = "cache"  -> page'.answer = CacheSummary(mine, q)
              [] page.pc = "cache"   ->
                    page'.answer.miss > 0 => CacheSums(mine, q).miss > 0
              [] page'.pc = "month"  -> page'.answer.this = Threats(mine, q)
              [] page.pc = "month"   ->
                    page'.answer.previous = Threats(mine, Own(q.from - Month, q.from))]_pageVars

Total(series) == SumOver(series, DOMAIN series)

\* A chart of volumes adds up to the totals of the summary for the same window, however
\* coarse its buckets and wherever the window cuts them, and so do the two parts of the
\* cache's chart, although every minute rounds its own; the peaks of the bars keep the
\* highest sample; and no chart exceeds its size by more than the two buckets that the
\* ends of the window cut.
ChartsAgreeWithTotals ==
    [][(page.pc = "asked" /\ page'.pc = "shown") =>
        LET q == page.q
            chart == page'.answer
        IN  CASE page'.kind = "l7_volume" ->
                    /\ Total(chart) = Totals(stats, q).l7
                    /\ Cardinality(DOMAIN chart) <= MaxPoints + 2
              [] page'.kind = "nic_volume" ->
                    q.site = {} => Total(chart) = Totals(stats, q).nic
              [] page'.kind = "cache_charts" ->
                    Total(chart.cached) + Total(chart.uncached) = CacheSummary(stats, q).bytes
              [] page'.kind = "bars" ->
                    \A r \in Rows(stats, q) : \E k \in DOMAIN chart[r[1]] :
                        stats[r].nic <= chart[r[1]][k].peak
              [] OTHER -> TRUE]_pageVars

\* The figures of a page made of several queries hang together although minutes are stored
\* in between: a summary that shows requests shows the latest minute with some, the bytes of
\* hits and misses are no more than all, and the two months of the dashboard count every
\* minute of theirs once.
FiguresHangTogether ==
    page.pc = "shown" =>
        CASE page.kind = "summary" ->
                page.answer.total > 0 => page.answer.latest # {}
          [] page.kind = "cache_status" -> page.answer.hit + page.answer.miss <= page.answer.bytes
          [] page.kind = "months" ->
                page.answer.this + page.answer.previous
                    \in page.answer.least .. Both(stats, page.q)
          [] OTHER -> TRUE
=============================================================================
