# Dorian back end: TLA+ models, checks and proofs

The repository is the Go back end of a WAF/DDoS control panel.  It serves the panel's HTTP
API, keeps its data in MySQL and Redis, receives reports from the edge servers ("Angelos"),
pushes configuration to them, collects their statistics and obtains TLS certificates.  This
directory models the parts where steps of several actors meet, model-checks them with TLC,
and proves the most important results with TLAPS.

## The system

| component | state | operations | interacts with | what is hard |
|---|---|---|---|---|
| temporary L7 blocks, `store/blacklist.go` | Redis rows with an expiry, an id counter | create/refresh, replace by an edge's snapshot, list, delete, flush of one edge or all | notifications and reports of the edges, the panel, Redis expiry | every operation is a SCAN, GETs and then writes; nothing is atomic; flush-all drops the id counter |
| live L4 blocks, `store/blacklist.go` 446-692 | a second family of Redis rows, an index set per edge | replace, list, get, delete | reports, the same page of the panel | ids of two counters in one list; overlapping replaces |
| temporary-block handlers, `api/handlers.go` 4287-4915 | the list each edge was last sent | delete, flush, notify, push | both stores, the edges' HTTP API | pushes may arrive in another order than the lists were read; flush fails half way |
| site certificates, `api/letsencrypt.go`, `store/sites.go`, `api/site_detail_handlers.go` | columns of `sites`: provider, certificate, key, expiry, status | create, save, renew, delete | panel, issuer | the private key never leaves the API, so a save says "keep it"; saves and issuance overlap for minutes |
| ACME issuer, `acme/issuer.go` | a queue of 64 ids, one worker, a renewal loop | enqueue, issue, renew | CA, DNS, the `sites` table, the edges | full queue, restart, timeouts, a row that changes while its certificate is obtained |
| accounts, `api/account.go`, `api/mfa_handlers.go`, `api/oauth.go`, `store/login_throttle.go`, `store/user_*.go`, `store/auth_sessions.go` | users, sessions, one-time tokens, second factors, failure counters | login, reset, invite, MFA setup, role change | Redis, MySQL, mail | check-then-act, half-done sequences |
| settings of a site, `api/site_detail_handlers.go` 1400-1920, `store/upstream_servers.go`, `store/compress.go` and their like | one table each | CRUD with a push of the new list, undone or refused when an edge refuses | the edges, their reports | some edges take a change that others refuse; the undo posts nothing |
| edge configuration report, `api/edge_configure_report.go` | most L4/L7 tables of one edge | sync one snapshot | edges, panel edits | an ordered list of writes, some of which may fail; a snapshot older than the panel's last change |
| site pushes and assignments, `api/l7_site_push.go`, `store/sites.go` 659 | `site_servers`, listening-port bindings | push a site to its edges, keep the edges that answered | edges, saves, the issuer | lost updates, edges detached by one failed push |
| servers, `api/handlers.go` 84-296, 3130-3203 | `servers`, a map of recent creations | deploy and insert | SSH, licence service | repeated POSTs, partial failure |
| settings of a server, `api/handlers.go` 5190-6066, `api/l7_guard.go`, `store/l4*.go`, `store/listening_ports.go` | one table each | CRUD with a call of the edge before or after the write | the edge's HTTP API, its minutely report | some calls fail; reports overwrite what the panel wrote |
| WAF rule sets, `api/waf_rule_*.go`, `api/site_detail_handlers.go` 1-1342, `store/waf_*.go` | `waf_rule`, nine tables of rules, `sites.waf_id` | edit through a template or a site, fork, duplicate, delete | `api/l7_site_push.go`, the edges | one set may serve many sites; rules are written first and pushed afterwards |
| statistics collectors, `worker/ip_request_stats_collector.go` | statistics tables | fetch new buckets per edge | edges' metrics API | the watermark and missed buckets |
| statistics pages, `api/handlers.go` 1205-2982, `store/server_traffic_stats.go`, `store/l4_attack_stats.go`, `store/cache_analytics.go`, `api/viewer_scope.go` | none of their own | charts, totals, lists | the collector's tables, grants, assignments | several queries for one answer; who may see which edge; buckets of long ranges |
| attack reports and console, `api/report_l7_attack.go`, `reportXdpHandler`, `api/attack_console.go`, `store/security_events.go`, `store/l7_attacks.go` | a row per incident, a row per event | store a report, derive an incident from its events, fetch the live one | edges, the console | retries, bodies that break off, two writers of one row |
| SSH host keys, `remotesvc/hostkeys.go` | pinned keys | trust on first use, reset | every SSH connection | look-up and use are apart |
| the rest | settings tables, audit log, notifications, panel settings, exports, start-up | CRUD, append, read | panel | one statement or transaction each |

`PROJECT.json` lists every component with its status, and the hazards at the lines where they
bite.

## Modules

| module | models |
|---|---|
| `TempBlacklist` | `store/blacklist.go`, the L7 rows |
| `LiveBlocks` | what that store promises: the abstract specification |
| `TempBlacklistOverlap` | the same store, watched for edges on which requests that store blocks meet |
| `TempBlacklistRefinement` | the mapping under which `TempBlacklist` implements `LiveBlocks` |
| `SiteCertificates` | `acme/issuer.go`, `api/letsencrypt.go`, the handlers of `/sites`, the certificate columns of `store/sites.go` |
| `SiteEdges` | `api/l7_site_push.go`, the handlers of `/sites` and the issuer's callback as far as they assign and push, `site_servers`, `site_listening_ports` |
| `EdgeSettings` | the upstream and compression handlers of `api/site_detail_handlers.go`, their pushes, and the part of `api/edge_configure_report.go` that is about one site |
| `ServerSettings` | the handlers under `/servers/{id}` for L4 settings, permanent lists and listening ports, the L7 guard, a site's choice of ports, and the part of `api/edge_configure_report.go` that is about the server |
| `WafRuleSets` | `waf_rule`, its nine tables, the handlers of templates and sites, `sites.waf_id`, origin routes, and their pushes |
| `Accounts` | sign-in, throttle, second factor, sessions, links, users |
| `StatsCollector` | `worker/ip_request_stats_collector.go` and the inserts of its lists |
| `Analytics` | the queries and charts of the statistics pages, and who may see them |
| `Incidents` | reports of attacks, what is stored of them, the attack console |
| `TempBlacklistProofs`, `SiteCertificatesProofs`, `SitesProofs`, `SettingsProofs`, `AccountsProofs`, `StatsCollectorProofs`, `IncidentsProofs`, `AnalyticsProofs` | the theorems, each about the module of its name; `SitesProofs` about `SiteEdges` and `WafRuleSets`, `SettingsProofs` about `EdgeSettings` and `ServerSettings` |
| `MCTempBlacklist`, `MCTempBlacklistOverlap`, `MCSiteCertificates`, `MCSiteEdges`, `MCEdgeSettings`, `MCAccounts`, `MCStatsCollector`, `MCIncidents` | values of the constants for TLC |
| `MCSites`, `MCSettings`, `MCPages` | two modules each in one instance for TLC |

`MCSites` puts `SiteEdges` and `WafRuleSets` side by side, `MCSettings` `EdgeSettings` and
`ServerSettings`, `MCPages` the two-handler instance of `SiteEdges` and `Analytics`.  The two
have no variable in common.  A variable `moving` is chosen at the start: only the half it names
takes steps, the other stays in one initial state.  What TLC explores is the union of the two
state spaces, each complete; nothing is gained or lost against two runs, because no action of
one half reads or writes a variable of the other.  The symmetry sets are those of both halves,
and there is none where liveness is checked.

`SiteEdges`, `EdgeSettings` and `WafRuleSets` look at the same pushes from three sides.  In `SiteEdges` the site
is a versioned row and what matters is which edges have which version; in `EdgeSettings` the
assignment only shrinks and grows around settings that both the panel and the edges write; in
`WafRuleSets` one change is pushed for many sites.

### TempBlacklist

State.  `entry` is the live rows `temporaryblacklist_backend:entry:{id}`: edge, identity (what
`tempIdentity` compares: address, site and URL), `blocked_at`, `ttl` and the Redis expiry.  A
`blocked_at` is stored as the text that was reported; one that `parseBlockTime` can make nothing
of is `Undated`.  Such a row counts its whole ttl anew at every look (`Active`, `Lifetime`) and
has no grace in a report that leaves it out (`Overdue`).  An empty date is filled in by a create
and kept by a report that refreshes a row (`Filled`).
`nextId` is the counter, `now` the clock, `job` what each HTTP handler is doing inside the
store.  `dirtyReset` is a history bit: a flush of every edge has dropped the counter while a
row existed or a handler had a key in hand.

Actions.  Each Redis command is one step, so the commands of the handlers interleave freely:

- `CreateStart`, `MatchKey`, `NewId`, `StoreRow`: `CreateFromPayload`; also the part of a
  replace that creates.  `Restamp` and `Remaining` are its rule for a block that is over by
  the time it is reported.
- `ReplaceStart`, `ReadRow`, `PurgeRow`, `ApplyRefresh`, `ApplyCreate`, `DropRow`:
  `ReplaceForServer`.  Its `now` is taken once (`t0`) and used to the end.  The order in which
  a report's blocks are applied and its leftovers dropped is free (Go ranges over a map when
  it drops).
- `ListStart` with `ReadRow` and `PurgeRow`: `List` and `ListPayloadsByServer`, which delete
  rows they find to be over.
- `FlushStart`, `CollectRow`, `FlushAllStart`, `WipeRows`, `ResetCounter`: `DeleteAll`;
  `DeleteEntry`: `Delete`.
- `Abort`: an error of Redis, or a caller that goes away, between two commands.  `Tick`: time
  passes and Redis drops what has expired.

Abstractions.  The SCAN reads the keys of the store at once (in Redis it is one command per
hundred keys).  A request to Redis that fails has had no effect.  An edge's clock is ahead by
at most `Skew`; blocks of any earlier date, and of none, are allowed.

`LiveBlocks` has the set of live blocks and the request of each caller: what it is still to
store and what its report names.  `Store` replaces the block it is about, `Drop` removes a block
that a report leaves out and that is older than the grace window, `Purge` one that is over,
`Flush` and `Lift` are the operator's, `Pass` is time.  Under the mapping of
`TempBlacklistRefinement` a row is a block without its id and its Redis expiry, and a handler's
local state is what it has still to store; each SET and DEL is one step of `LiveBlocks`, every
SCAN, GET and INCR a stutter.

`TempBlacklistOverlap` adds one history variable: `crossed` is the edges on which two requests
with blocks to store were in the store at once, until nothing is being stored for the edge any
more and no block is in two rows.

### SiteCertificates

State.  `row` is the `sites` table, reduced to domain, provider, certificate, key, expiry and
status.  A certificate is an element of `Pair`, its key the same element, so that
`cert = key` says that they belong together; `certFor` is the domain it was issued for, `aged`
the certificates within `renewBefore` of their expiry.  `queue`, `issuer` and `due` are the
issuer's channel, its worker and what the renewal loop has listed and not yet sent.  `op` is
each client's page (what GET returned, without the key) or request in progress.  `rolledBack`
is a history bit: a save that asked for no issuance wrote an older certificate or status than
the row had.

Actions.  `LoadPage`, `SaveManaged`, `Upload`, `SaveCustom`, `SaveNone` read the row and decide
what to write (`preserveManagedCertificates`, `resolveCustomCertificate`,
`clearSiteSslConfiguration`, `shouldIssueLetsEncrypt`); `Update` is the SQL statement, which
keeps the stored key by `COALESCE`; `Reload`, `MarkQueued` and `Send` are the rest of the
handler; `CreateSite`, `UndoCreate`, `RenewNow`, `DeleteSite` the other handlers.  `TakeSite`,
`LoadSite`, `Progress`, `ObtainOk`/`ObtainFail`, `StoreCertificate`, `MarkIssued`, `MarkFailed`
are `issueSite`; `WorkFails` is a failing statement or the attempt's timeout.  `RenewTick` and
`RenewSend` are `enqueueDue`.  `Restart` loses the queue, the worker and the requests.

Abstractions.  Statuses that every decision treats alike are one: queued, pending, dns and
validating are `queued`, failed and expired are `failed`, valid and expiring are `valid`.  The
ACME dialogue either succeeds or fails.  `Fresh` forgets certificates that nothing refers to
any more, so a small `Pair` is enough.  `Echo` says whether clients send the page's certificate
back on a save (then the old certificate may meet the new key, see below) or leave it out.

### SiteEdges

State.  One site: `site` is its row (a version and a domain, or `Null`), `servers` its
assignment, `bound` the edges with listening ports selected for it, `held` the version each
edge serves.  `op` is what each handler is doing, with the edges its push has still to ask
(`todo`) and those that took it or failed (`ok`, `bad`).  `left` and `torn` are history: how an
edge came off the site (a save, a failed post, or a failed post whose handler was cut off between
the detaching and the clearing of the edge's ports), and whether a handler was cut off since the
last full push that began alone.

Actions.  `CreateSite`, `UndoCreate`; `BeginSave`, `SaveRow`, `Assign`, `Reload`; `BeginDelete`,
`DeleteRow`; `Issued` (the callback of the ACME issuer, one at a time because the issuer has one
worker); `BeginBind`, `Bind`.  A push is `LoadSite`, `LoadEdges` (the edges are read again, after
the site), one `Post` per edge, and `EndRename`, `Apply` with `ClearPorts`, or `DeleteRow`.  A
post may fail, and when only its answer is lost the edge has taken it (`Failed`).  `Abort` is a
database call that fails, or a client that goes away: the request's context ends with it, and
every later call of the handler fails.  `Gone` is a handler whose site was deleted meanwhile.

Abstractions.  The order in which a push asks the edges is free (the code's is that of the
assignment).  An edge does what it is told; its own storage is outside the repository.  A push
of the whole site sends the version read at `LoadSite`; the tables read later for each edge
(ports, lists, rules) are the subject of `EdgeSettings`.  Creating and deleting edges is left
out.

### EdgeSettings

State.  `rows` is the site's upstream servers (id to address), `mode` its compression settings,
`servers` its assignment, `held` what each edge serves.  `op` is each panel request: the rows it
read (`before`), the list or settings it posts, the edges asked.  `rep` is the report of each
edge, from the snapshot it took to the last statement of its sync.  `settled` is history: the
settings whose last request ended well.

Actions.  `BeginAdd`, `BeginEdit`, `WriteRow`, `ListRows`, `EndWrite` or `UndoWrite` (write, then
post, undo when refused); `BeginRemove`, `RemoveRows`, `BeginMode`, `StoreMode`, `RestoreMode`,
`GiveUp` (post, then write); `BeginFull`, `ReadMode`, `ReadList`, `Apply` (a push of the whole
site, whose body is read anew for each edge).  `SendReport`, `CheckReport`, `ReportMode`,
`ReportList`, `ReportRow`, `ReportDelete` are one report.  A failing call is `Abort`,
`ReportFails`, the second half of `Undoes`, or a failed `Post`.  Two ways of failing are kept
apart: one database call fails (the undo runs), and the request's context is cancelled (the
undo runs under the same context and fails as well: `Abort`).

Abstractions.  `BeginFull` puts the row and assignment of a save, or the issuer's callback, into
the step that begins the push; `SiteEdges` has them apart.  Of an upstream server only the
address is kept.  Certificates, cache rules, WAF rules, ports and origin routes, which are in
the same body, are left out.

### ServerSettings

State.  One edge (`edge`: its lists, L4 configuration, guard, ports and the ports it serves a
site on), the panel's tables (`lists`, `l4`, `guard`, `ports`, `chosen`), a task per panel
handler (`desk`) and the report on its way (`sheet`).  `doubt` is history: addresses whose
blacklisting ended in an error.

Actions.  `AskAdd` ... `AskSite` begin a request as its handler does; `WritePort`, `WriteMove`,
`WriteChoice`, `ReadBack`, `Call`, `CallFails`, `UndoPort` and the `Store...` actions are the
writes, the call of the edge and what follows it, in the order of each handler: the lists call
first and store afterwards, the ports are written first and taken back.  `CutOff` is a handler
that returns early.  `SendSheet` takes the edge's snapshot; `SheetWhite`, `SheetL4`,
`SheetL4Row`, `SheetPorts`, `SheetPort`, `SheetClose`, `SheetGuard`, `SheetSite` write it, table
by table and port by port, with `NoPortMap` and `SheetFails` for what may go wrong.  `Found` is
MySQL's count of changed rows, which is 0 for an UPDATE that changes nothing.

Abstractions.  The L4 configuration has two fields, one that an edge's `firewall_config` carries
and one that it does not; a value is a model value.

### WafRuleSets

State.  `ruleSets` is `waf_rule` with each set's rules by table, `uses` is `sites.waf_id`,
`assigned` and `routes` the edges and origin routes of each site, `conf` what every edge
enforces for it, `work` what each handler is doing.  `claimed` is history: the parts of a site
that an answer said are served.

Actions.  `BeginTemplateEdit` and `BeginSiteEdit` are the eighteen handlers of the nine tables;
`Write` their SQL, with "not found" when MySQL has changed no row; `ListSites`, `Load`,
`NextSite`, `PostRules`, `Answer` the push, site by site and edge by edge.  `CreateSet`,
`AddSet`, `ChangeRole`, `BeginDeleteSet`/`DeleteSet` (count, then delete; the foreign key
releases sites), `BeginFork`/`Copy`/`Attach`, `Ensure` (a site without a set gets one, also for
a GET), `SaveSite`, `BeginRoutes` are the rest; `Break` is a failing call.  `Missed` and
`AfterWrite` are where anti-CC rules differ: they travel only with the whole site, a template's
handler ignores edges that fail, a site's handler pushes nothing.

Abstractions.  A rule is its content and whether it is enabled; an id is not reused while
something refers to it.

### Accounts

State.  The `users` table with the columns of the second factor, `links`, `sessions`,
`challenges` (tokens between password and second factor), `throttle` (counters and locks in
Redis), the request of each goroutine (`req`).  Passwords, secrets, codes and links carry the
number of the request that made them.  `spent`, `guesses` and `excuse` are history.

Actions.  A request begins in one of the actions of `BySession`, `ByAdmin` or without a session,
and goes through the statements of its handler: `CheckLock`, `CheckPassword`, `AskFactor`,
`CreateSession`; `CheckActive`, `ReadSecret`, `AdvanceStep`, `ConsumeRecoveryCode`; `Increment`,
`SetExpiry`, `SetLock`, `RecordSuccess`; `CheckStatus`, `SetPendingSecret`, `ReadPending`,
`Enable`, `Disable`, `RegenerateRecoveryCodes`; `FindForSignIn`, `Activate`, `Insert`;
`CheckLastAdmin`, `WriteUser`, `WriteServers`, `DeleteUser`; `LoadForLink`, `IssueLink`,
`Consume`, `SetPassword`, `RevokeAll`; `SignOut`.  `Fail` ends a request at any statement,
except where the handler goes on (an error of the throttle counts as no lock).

Scenes.  All kinds of requests at once are out of reach for TLC; `Scenes` lists eleven starting
points, each with the kinds of requests that meet in it: the second half of a sign-in with an
Admin's reset of the factor, codes used twice to switch the factor off or to renew the recovery
codes, two setups, links against links, edits and sign-ins, saves, edits and deletions of two
Admins, and of an Admin and a member.  A sign-in is not run against a profile save, nor the
switching off of a factor against a new setup: their scenes are too large for the time a run
may take.  Each scene says who is signed in, and the clock runs only where codes are judged.

### StatsCollector

State.  `seen` is what each edge has counted in each minute and still remembers, `table` the
statistics tables, `c` the collector's goroutine with its place in the round.  `missed` and
`early` are history: lists lost to a failing call, and lists fetched while their minute ran.

Actions.  `Poll`, `NextEdge`, `ReadNewest` (the watermark), `ListMinutes`, `NextMinute`,
`FetchList` and `InsertList` for each list, `InsertSecond` (performance), `Snapshot`, then the
same for L4 buckets.  A failing call ends the edge (`EdgeFails`), the list (`ListFails`) or the
part (`SecondFails`, `SnapshotFails`, `L4Fails`) as in the code; `Restart` ends the goroutine.
Lists come as an array or as an object keyed by name (`Shape`), which drops rows with the same
name (`Decode`); inserts are upserts by key, performance and reasons are replaced.

### Incidents

State.  `edge` is the incident as its edge has it, `unsent` the reports it has no 2xx for;
`l7_attacks`, `security_events`, `l4_live_attack` the panel's rows; `report` and `console` its
handlers.

Actions.  `Begin`, `Grow`, `End`, `SendPending`, `SendUpdate`, `SendBlock`, `GiveUp` are the
edge, as far as the panel's code and its API description say what it does.  `StoreIncident`,
`ReadPeriod`, `WriteStart`, `WriteStop` are `reportL7AttackHandler` with
`ensureL7AttackSecurityEvents`, `StoreBlock` and `StoreEvent` `reportXdpHandler`, payload by
payload of a body that may break off (`Continue`), `Answer` the 2xx, which may be lost.
`OpenConsole`, `NeedLive`, `FetchLive`, `StoreLive` are the console.  `PeriodStatus`,
`ActiveIPs` and `ShownActive` are the derivations from the events: the first two in SQL, the
last in Go.  A ttl is a text, a number with or without a unit, and each side has its own reading
of it: `SecondsInSQL` (`CAST(REPLACE(LOWER(ttl), 's', '') AS UNSIGNED)`, the digits at the
front) and `SecondsInGo` (`parseBlockTTL`: a number of seconds, or a Go duration).

### Analytics

State.  `stats` is the collector's tables, a sample per edge and minute; `grants` and `serves`
are `server_users` and `site_servers`; `page` is the request being answered, with the user's
edges as they were when it came in.

Actions.  `Collect`, `Grant`, `Reassign` change the tables; `Enter` is `withViewerScope`, `Ask`
`parseDashboardScope` and `parseAnalyticsScope`; `Read` a page of one query; `ReadTotals`,
`ReadLatest`, `ReadNames` the summary, `ReadCache`, `ReadMisses` the cache's status,
`ReadThisMonth`, `ReadPreviousMonth` the dashboard's counts, each query a step.

Operators.  `Nodes`, `Rows`, `SiteRows` are the WHERE clauses (`appendServerScope`,
`appendTrafficScope`); `NicRx` to `SecurityTotals` the queries; `Coarse` is
`coarsenAnalyticsSeries`, with buckets aligned to the epoch, clipped to the window, averaged or
summed; `Bars` is `aggregateBandwidth`.

Abstractions.  Five figures stand for all columns of a kind: a query that sums one column sums
them all in the same way.  Charts whose code differs only in the column are one operator, with
the lines of all of them in the map.

## Runs

| run | module, instance | shows |
|---|---|---|
| `serial` | TempBlacklist: 1 edge, 2 identities, 3 ids, durations 0 and 2, grace 1, clock to 3, 1 handler at a time | for every sequence of operations, each of which may break off at any command: one row per block, expiries that cover a dated block; the store implements `LiveBlocks` |
| `concurrent` | TempBlacklistOverlap: 2 edges, 1 identity, 2 ids, 2 handlers, clock to 2 | a row never becomes the block of another address or edge, no handler touches another edge's rows, and a block is in two rows only where two storing requests of its edge met |
| `issuance` | SiteCertificates: 1 site, 2 domains, 1 client, queue of 3, 2 saves/renewals/deletes, the renewal loop at any time | certificate and key stay a pair; a certificate for the old domain is followed by a request for the new one |
| `renewal` | SiteCertificates with fairness: 2 sites, queue of 1, one fault (restart, failing call, expiry) | every Let's Encrypt site without a certificate in good standing gets one |
| `sites` | SiteEdges: 2 edges, 2 domains, 1 handler, 3 versions, 2 faults; WafRuleSets: 2 sites, 2 edges, 3 rule sets, 2 tables, 2 rules, 2 handlers, 2 requests, 1 fault | assigned edges serve the stored version, an unassigned edge that serves the site was taken off by a save or failed, and keeps ports only if a save took it off or the clearing was cut off; no site has a set that is gone, a rule edit that was answered well is enforced, a fork keeps the rules |
| `routes` (violation) | the same instance | an anti-CC edit of a template erases the origin routes on the edges |
| `pages` | SiteEdges: 2 edges, 2 handlers, 3 versions, 1 fault; Analytics: 2 edges, 1 site, a user and an Admin, 2 stored minutes of 2 kinds, 3 windows, 1 change | no overlap leaves an edge assigned that never took the site; a user sees figures of his edges only; charts add up; figures of one page hang together |
| `settings` | EdgeSettings: 2 edges, 2 addresses, 2 settings, 1 handler, 4 requests, 2 faults, no reports; ServerSettings with fairness: 1 address, 2 fields, 2 ports, 1 handler, 2 requests, 1 failing call, reports | a request that ends well leaves database and edges equal, a refused change is undone; the reports bring the panel's tables and the edge together for good, and no address is blocked without a row |
| `settings_oneedge` | EdgeSettings with fairness: 1 edge, 2 addresses, 2 handlers, 2 requests, 1 fault, reports | database and edge come to agree for good |
| `accounts` | Accounts: 2 users, 2 handlers, 3 requests, 1 fault, limits of 1 (account) and 2 (address), 11 scenes | what is accepted twice, what outlives a new password, who remains Admin, how many guesses pass, who lifts a block |
| `collector` | StatsCollector with fairness: 2 edges (one of each encoding), 3 lists, 2 minutes, 2 requests or packets, 1 fault | holes go back to failures; what is stored is what was counted; every minute is collected |
| `incidents` | Incidents with fairness: 1 attack of either layer, 1 delivery, 1 console, 2 blocks with four texts of a ttl, 4 snapshots, clock to 2, 1 break, 1 report given up | one start, one stop, final figures, and both are recorded in the end |

Bounds.  In `TempBlacklist` the hazards need two handlers, two blocks or edges, one reuse of a
key and one tick past a block's end or the grace window; the instances hold all of that.
`serial` has a duration of 0 (a block without one) and of 2 with a grace window of 1, so that
blocks can be fresh, overdue and over.  `concurrent` needs ids that are freed and drawn again,
which flush-all provides, and time for twins to expire and be stored again.  In `issuance` one site is enough because sites share nothing but the
queue; the queue's capacity matters in `renewal`, where two sites compete for one place.  `Pair`
must be larger than the certificates in use at once; with five and four none is ever missing
under the bounds used (in larger instances the pool would run dry, which says nothing of the
code).  In `SiteEdges` the hazards need two edges (one that fails, one that does not), a
creation, a save and one more write, so three versions, and two faults so that a failed post can
meet an aborted handler; two handlers are as many as a lost update takes.  In `WafRuleSets` two
sites share a set while a third is free for a fork or a second template; two requests overlap at
every statement; of the nine tables one has a post of its own and one has not.  In
`EdgeSettings` four requests let a refused or aborted change be followed by a whole push and two
more changes; ids are four and six so that one is always free.  In `ServerSettings` two requests
and a report overlap at every statement, and a port can be moved to the other one's place.  In
`Accounts` three requests are one that prepares (a link, a challenge) and two that race.  The
collector needs a minute that is complete and one that is still running, a restart or a failure
between them, and an edge that forgets.  An incident needs a start, growth and an end in reports
that overlap a console's snapshot, and blocks with a bare number, with
seconds, with minutes (two seconds long here) and without a ttl, for which the panel puts a
default.  The windows of `Analytics` are
one with a point per minute, one whose buckets it cuts at both ends, and one backwards; the
samples are a quiet minute and one under attack whose list of sites was lost.
`CHECK_DEADLOCK FALSE` in all runs but those of TempBlacklist: with requests, versions, minutes
and faults used up the models come to rest.

Fairness.  `renewal`: requests, the worker and the renewal loop keep going, being goroutines
whose every blocking call has a deadline (`issueTimeout`, the database driver).  `RenewTick` is
weakly fair because a timer drives it; in this run it fires with the queue drained
(`Overlap = FALSE`), as an interval of twelve hours against an attempt of minutes justifies.
The CA is assumed to grant in the end what it is asked for again and again (`SF` on `Granted`);
without it nothing could be issued.  `settings_oneedge` and `settings`: a request that has begun
goes on (each of its calls has a timeout), and each edge reports again and again, every 60
seconds by the documentation.  `collector`: the goroutine goes on, its calls have deadlines and
a timer starts each round.  `incidents`: the panel works on what it has received, and an edge
repeats a report until it has a 2xx (angelos_api.yml:83), so that a report that is possible
again and again is made (`SF` on `SendPending`: a handler may be busy in between).  Saves,
clients, requests, faults and time have no fairness and are bounded.

## Where code and words part

`routes`: the handlers of templates build the body of a whole-site push from a `siteL7Stores`
without the store of origin routes (api/waf_rule_handlers.go:108-127).  The comment of
`callL7UpdateSite` says "pushes the full site configuration to every assigned edge server"; an
anti-CC edit of a template posts each of its sites with an empty `origin_routes`.

The following differences were met as well.  They are visible in the models as the conditions
under which a property is stated; no run is kept for each.

- Two creates of one block that overlap store it twice, against the comment at
  store/blacklist.go:234-235 ("instead of creating duplicates").  `NoDuplicateRows` is stated for
  one handler at a time; with several, `TwinsNeedAMeeting` says that such a meeting is the only
  way.
- A snapshot drops a row by the `blocked_at` it read some commands before.  A notification that
  refreshes the row in between is erased with it, against store/blacklist.go:431-432 ("cannot
  erase them").  The refinement is stated for one handler at a time.
- A row whose `blocked_at` cannot be parsed has no grace window at all
  (store/blacklist.go:437-438), against the same comment, and counts its whole ttl from each
  look, against store/blacklist.go:800 ("measured from blocked_at").  `Overdue`, `Active` and
  `LiveBlocks` say so; `NeverExpiresEarly` is about blocks with a date.
- An edge that fails a push is detached first and loses its listening ports in a second
  statement (api/l7_site_push.go:943, 947).  When that fails, or the request ends in between,
  the edge is off the site with its ports, against api/l7_site_push.go:925-926, and no later
  push clears them.  `StrayPortsAreKnown` names this as one of two ways; the other is a save that
  takes the edge off, which never touches its ports.
- A site whose SSL is switched off while its certificate is being obtained is left with
  certificate material, against api/letsencrypt.go:63.
- An upstream server that one edge took and another refused is added and deleted by their
  reports in turn, against docs/ANGELOS_API.md:343 ("so panel and edge stay aligned").
  `EventuallyAligned` is stated for one edge.
- A push writes back the edges that it reached itself (`applySiteEdgeSync`).  When it overlaps a
  save it can assign an edge again that the save has taken off, or leave an older version on an
  edge: `AssignedServeTheSite` is stated for one handler at a time, and for several
  `AssignedServeSomeVersion`.  A save never tells the edges it takes off; they go on serving the
  site (`StrayWasDropped` counts this as one of the ways an edge may do so).
- angelos_api.yml:89-90 calls attack reports idempotent by `req_id`.  Start and stop are looked
  for and written in separate statements, so two deliveries of one report handled at once can
  record both twice; `OneStartOneStop` is stated for one delivery at a time.  `report_xdp` looks for nothing: its retries are stored again.
- An incident without reports for fifteen minutes is shown as ended
  (store/security_events.go:57, 966), and as ongoing again with the next one, since an edge need
  not report progress while the attack lasts.
- An edit of a WAF rule that changes nothing is answered 404 "not found": MySQL counts changed
  rows (`RowsAffected`), and db/db.go:14-20 does not ask for found ones.  `NotFound` models it.
- An edit of an anti-CC rule through a site writes the table and pushes nothing; through a
  template it is pushed and the edges that failed are not mentioned.  `AnsweredMeansServed`
  leaves that table out.
- A chart may have one or two points more than the comment at api/handlers.go:1335 says,
  because buckets are aligned to the epoch and the window cuts the first and the last.
- "Today" and "yesterday" (api/handlers.go:2970) both hold the minute of midnight, since the
  queries take both ends of a window; the months of the dashboard do not overlap.
- `SumTotals` answers zeros when its query fails.  With a site chosen its NIC totals are 0,
  while the NIC chart shows the site's edges; and of a site without edges an Admin sees the NIC
  figures of all servers.
- A clear of the permanent blacklist that overlaps an add can leave an address blocked on the
  edge without a row; a port added while an older report is written is deleted again although
  its creation was answered 201, until the next report.
- The count of active sources (store/security_events.go:695) and the console
  (api/attack_console.go:480-492) read the same ttl text in two ways.  "2m" is 2 seconds to the
  one and 120 to the other, so a source the console marks active is missing from the count
  (durations in hours or fractions differ likewise; of "S", which Go does not know, the console
  makes its default).  And the count takes the longest ttl of a source's blocks, against its
  comment ("whose latest block has not reached its TTL yet"): it counts a source whose newest,
  shorter block has ended, and leaves out one whose newest block has no ttl, and with it the
  default, when an older one has a shorter ttl.  `MarkedIsCounted` names the two cases in which
  a marked source is not counted (`ReadShorter`, `Outdone`).

Three more limits have no document to contradict them: after a flush-all that drops the counter
under a running handler, ids are reused and rows may be overwritten (the properties are stated
up to `dirtyReset`); a save can write back an older status and certificate (up to
`rolledBack`); and when the request for a new domain is cut off after its UPDATE, dropped by a
full queue or lost in a restart while the worker obtains a certificate for the old domain, that
certificate is stored and marked valid, and nothing asks for another before it falls due
(`NothingLost` in `SiteCertificatesProofs`).  A client that echoes the certificate it was shown (`Echo`) can bring an old
certificate together with a new key, because the stored key is kept by the UPDATE; the theorem
about pairs is therefore stated for clients that leave it out.

In `Accounts` the exceptions are the `excuse`s: `raced` (two changes that overlap can leave no
Admin, account.go:457), `unasked` (the last-Admin check is skipped when the row cannot be read,
handlers.go:6740), `unrevoked` (the revocation of sessions failed; the answer is a success),
`late` sessions (their sign-in had judged the old password), `uncounted` failures of Redis, and
`rewound` steps (a second confirmation or a removal of the factor sets its last step back).

## Proofs

Every theorem holds for every value of the constants that satisfies the modules' assumptions.
These are weak: bounds and times are naturals (`MaxMinute` positive, since the clock starts at
1), `Null`, `NoSet` and `AllServers` are none of the things they stand beside, the queue holds
at least one, there is at least one rule set id, goroutines of `Accounts` and sites of `Analytics`
are finitely many, the lists of a minute begin with `ip` and hold `site`.  A theorem that needs
more says so (`MaxInFlight = 1`, `Actor = {h}`, `OneHandler`, `OneDelivery`): these are the
conditions under which the runs check the property too, and "Where code and words part" says
what goes wrong without them.  `SerialBlocksSeen` and `ServerTypeCorrect` assume in addition that
ids never run out (`IdsLast`), as an autoincrement column's do not; the run has as many as its
requests use up.

In each module the argument is the same: a strengthening that speaks of what the handlers have in
hand half way, shown to hold initially, to be kept by each action, and to imply the property.
Each strengthening was checked by TLC as well, on the instances of the runs, and
`ServerTypeInv` with two handlers.

`TempBlacklistProofs` (any number of edges, identities, handlers, ids; any durations, skew,
grace):

- `TypeCorrect`: `Spec => []TypeOK`.  `TypeOK` alone is not inductive: what a SET stores comes
  from the handler's local state.  `TypeInv` adds that a handler about to SET has a well-formed
  block with a positive lifetime and a key, that a replace holds stamps of its own past, and so on.
- `ExpiryCoversBlock`: `NeverExpiresEarly`, for blocks with a date, from the lifetimes computed (`LifetimeCoversBlock`)
  and the clock that only moves ahead.
- `IInvHolds`: while `~dirtyReset` there is an assignment of ids to owners (edge, identity)
  that agrees with every row and with every key any handler has in hand, and no id above the
  counter is used.  This is what makes a SET under a key read long ago safe: the INCR gives an
  id nobody holds (`NewIdAssigned`), and every other command keeps the assignment.
- `RowsKeepTheirBlock` and `EdgesAreIsolated` follow: a command writes under a key assigned to
  its own block, and removes keys assigned to its own edge or rows that are over.
- `SerialNoDuplicates`, `SerialImplements`: for one handler in the store at a time.
  `SerialInv` says of the handler's job that it fits the rows of this moment (`Fits`): a create
  that is about to store under a new id has seen every row of its block gone, what a replace has
  found and not yet read covers the rows of its edge, what it is going to drop was overdue (or
  has no date) and unnamed.  The refinement is proved command by command: each maps to one step of `LiveBlocks`
  or leaves the live blocks and the requests alone.

`SiteCertificatesProofs` (any number of sites, domains, clients, certificates, any queue
capacity and bounds):

- `TypeCorrect`: in particular the queue stays within its capacity.
- `CertificatesKeepTheirKey`: with `~Echo`, `CertMatchesKey` always holds.  Its strengthening
  `PayFits` says that what a request is about to write carries its key with its certificate:
  a save without certificate takes both from the row it read, so the UPDATE writes both.
- `ForeignOnlyWhenLost`: `NoForeignCertificate` for one client at a time, however many sites, with
  faults, as long as no step loses a request for a certificate (`NothingLost`: no restart, the
  queue takes what it is given or holds it already, no request is cut off between its UPDATE and
  its mark, the worker neither drops a site nor leaves a refusal unrecorded).  `ForeignInv` is
  about the site the worker is at: if its domain is no longer the one the worker has read,
  another request for it waits (`Outdated`); what is about to be called valid is not foreign
  (`Finished`); a save that asks for nothing has read provider and domain as they still are
  (`Unasked`).  TLC finds the property violated as soon as `NothingLost` is dropped: a client
  that goes away after its UPDATE leaves the worker to store the certificate of the old domain.
- `NoForeignWithOneSite`: the conditions of the run, with any domains, certificates, saves and
  any queue: a full queue holds the one site, so nothing gets lost.

`SitesProofs`, about `SiteEdges` (any number of edges, domains, versions and faults):

- `TypeCorrect`, for any number of handlers.
- `SerialAssigned`, `SerialStray`, `SerialPorts`: for one handler (`Actor = {h}`).  The
  strengthening `SInv` says what a push has established half way: the edges it has still to ask,
  those that took it and those that failed make up the assignment (`Lists`), those that took it
  hold the version it read and that is still the stored one (`PushKnown`), what the assigned edges
  serve when no handler is under way (`Served`), that a new site is on no edge before its first
  push (`Born`), and how every edge that serves it came by it (`Came`).  The properties alone
  are not inductive: they speak of the moment when the handlers have ended.
- `AssignedServeSome`: `AssignedServeSomeVersion` for any number of overlapping handlers.  An
  edge that is assigned serves some version, or some handler under way still owes it a push
  (`Owed`), or a push of the site's deletion has begun (`Owing`); a push owes every edge it has
  not asked, and nothing has happened before the site exists (`Unborn`, `InPush`).

and about `WafRuleSets` (any number of handlers, sites, edges, rule sets, tables and rules):

- `WafTypeCorrect`: in particular no site ever uses a rule set that is gone, though counting the
  sites of a set and deleting it are two statements.
- `AnsweredIsServed`: `AnsweredMeansServed`.  A claim counts only when its request ran alone, but
  any number of requests overlap afterwards.  At most one request is alone (`OneAlone`); it knows
  what it has done, site by site and edge by edge (`Knows`); and any other withholds: no claim is
  left about what it may still change at an edge or take from a site (`Withholds`).
- `ForksKeepTheRules`: from the part of `Knows` that says a copy has the rules of the set it
  was made of.

`SettingsProofs`, about `EdgeSettings` (any number of edges, addresses, settings, ids):

- `TypeCorrect`, for any number of handlers and with reports.
- `SerialAligned`, `SerialUndone`: for one handler and without reports.  `SInv` carries what a
  request knows at each step (`Shape`), that what it posts is what the database holds or will
  hold (`Bodies`), that the edges asked so far have it (`Serving`), that the rows read at first
  can be restored (`Undone`), and that the settled settings agree (`Settled`).

and about `ServerSettings` (any number of addresses, fields, ports, requests, failing calls and
reports):

- `ServerTypeCorrect`: types, for any number of handlers (finitely many, `FewHandlers`) and ids
  that never run out.  Its part `PortsOK` is about two tables: no port has two rows, and a site is
  selected on ports that have one.  A report that writes back rows read some steps before keeps it
  because what it read was unique then (`SheetOK`), so that at most one row is its own to change.
  New rows are CHOSEN: that there is a free id (`NextIdIs`), and that any finite white list can be
  given rows of new ids (`NewRows`), is proved from a least counterexample (`LeastSubset`).
- `SerialBlocksSeen`: with one panel handler and ids that never run out, `NothingBlocksUnseen`.
  `BlockInv` adds that a handler between its call and its statement has in hand exactly the
  addresses the edge was told of (`Due`), and that all tables are finite, so that a new row finds
  an id.

`AccountsProofs` (any users, goroutines, scenes, requests, limits and faults):

- `TypeInvHolds`: what every statement finds in its request and in the tables.
- `SessionsFollowPasswordHolds`: `FollowInv` explains each session that stays behind its user's
  password: its sign-in overlapped the change (`late`), or the handler that changed the password
  has its revocation still to come (`Revoking`) or saw it fail.
- `AnAdminRemainsHolds`: `AdminInv` says of each handler what its check of the last Admin still
  guarantees (`AdminSafe`), as long as nothing overlapped it.
- `BlockSticksHolds`, an action property: each handler that may write a status has read it, or
  can only write one that keeps a block (`BlockSafe`).
- `AcceptedOnceHolds`: `OnceInv` numbers everything a request makes (`Numbered`, `MadeInv`), and
  says of each accepted thing that it cannot be accepted again: its link is closed (`Closed`), its
  recovery code struck (`Struck`), its step not after the last one, or its secret no one's
  any more (`Behind`).
- `GuessesBoundedHolds`: `GuessInv` bounds for each key the guesses judged by its counter and by
  the goroutines that are judging (`Guessers`), have still to count (`Owers`) or to lock
  (`Lockers`).  It is an argument about cardinalities: one goroutine changes its place in
  a step, so each of the three sets changes by at most one.

`StatsCollectorProofs` (any number of edges, minutes, requests, faults, any lists and memory of
the edges):

- `TypeCorrect`.
- `StoredCounts`: `StoredIsCounted`.  What is in hand is what the edge has counted as long as the
  minute was over at the fetch (`InHandOK`), counters of a minute that is over do not move, and
  storing a list again stores the same (`StoredTwice`: each insert is idempotent on lists
  the edges send).
- `HolesExplained`: `HolesAreFaults`.  The collector goes by the newest stored minute, so nothing
  behind that minute may be open (`Behind`); this is kept because the walk over an edge's minutes
  (`Walk`) goes upwards, passes a minute only when each of its lists is settled, and leaves out
  only minutes in which nothing was counted.  `Least` and `Greatest` are CHOOSEs; that there is a
  least and a greatest minute is proved from the well-foundedness of the naturals (`LeastIs`,
  `GreatestIs`).

`IncidentsProofs` (any number of attacks, sources, blocks, reports):

- `TypeCorrect` and `MarkedIsCountedHolds`, for any number of deliveries and consoles and any
  texts: one of a source's ttls reads as long in SQL as any other (`Longest`), so the count's time
  is less than the console's only if the newest block's own text reads shorter, or if it has no
  number and another's is below the default.
- `OneStartOneStopHolds`, `FinalFiguresHolds`, for one delivery at a time and any number of
  consoles.  `IncInv` says that bodies were written at one moment of the attack (`Written`), what the
  look-up of recorded events has told the handler and that it is still so (`Looked`), what a
  console's snapshot can be (`Taken`), and that an incident is final as soon as its stop is
  recorded or about to be (`FinalInv`).

`AnalyticsProofs` (any number of edges, sites, users, names and stored minutes, any windows, any
size of the charts and of the lists):

- The statistics are sums over sets of rows, and `SumOf` is a fold.  What it returns for every
  finite set is shown without an induction theorem, by a least counterexample: a set of subsets of
  a finite set has a member that contains no other (`LeastSet`).  So there is exactly one such
  function (`SumExists`, `OneSum`), which does not depend on the order of the rows (`PartAdd`);
  disjoint parts add up (`PartUnion`), larger ones have larger sums (`PartGrows`), and so do the
  fibres of a map (`Fibres`): the rows of the buckets of a chart are those of its window.
- `PageTypes`: `PageTypeInv`, types and one fact more, that the query of a user who is no Admin
  has no edge but those that were the user's when the request came in.
- `OwnEdgesOnlyHolds`: each query then answers the same for the rows of these edges (`Mine`) as
  for all (`AnswersOfMine`, from the rows of each WHERE clause up to the charts).
- `FiguresHangTogetherHolds`: between two queries of one page the collector only adds rows.
  `SummaryInv`, `CacheInv` and `MonthsInv` say what the figures read so far allow for those still
  to be read.  Two rounded shares never exceed the whole (`Shares`), two months that meet have no
  row in common (`MonthsMeet`), and a count only grows (`ThreatsGrow`).
- `ChartsAgreeWithTotalsHolds`: the points of a chart add up to the total of its window when
  its buckets are clipped to the window (`BucketFits`, `MinutesAddUp`, `CoarseAddsUp`,
  `CacheAddsUp`), and a bar's peak is no less than any of its rows (`PeaksKept`).

Only model-checked are `TwinsNeedAMeeting`, `FullPushIsFull` (which the code violates) and the
liveness properties `EventuallyIssued`, `EventuallyAligned`,
`MirrorsInTheEnd`, `EventuallyCollected` and `EventuallyReported`, which are out of the prover's
reach.

## Plan

Done: the component modules, one abstract specification with its refinement checked and proved,
and the theorems above.  To do, in this order:

1. `TemporaryBlocks`: the handlers over both stores and what each edge was last sent, with
   pushes that overtake each other; the L4 mirror.
2. `ServerCreate`: repeated and overlapping creations, what partial failures leave
   (handlers.go:3152, 267).
3. `HostKeys`: trust on first use against a reset (remotesvc/hostkeys.go:104).

## Not modelled

Servers and provisioning, SSH, the handlers of the temporary list and the L4 mirror are in the
plan.  Left out for good: the ACME dialogue, DNS and OIDC clients, TOTP's computation, mail,
exports, logs and start-up (I/O or pure functions); audit log, notifications and panel settings
(appending and reading); cache rules, performance pages, block reasons, content types of the
cache (statements and queries of the same pattern as those that are modelled); scripts and API
descriptions.  Three
details are left out of modelled parts: a certificate that a client sends when it creates a site,
users who come in other ways than by invitation, and the name that a provider's sign-in fills in
for an Active user who has none (api/oauth.go:368; no request creates such a row).
`PROJECT.json` says of each component what is in and what is not.
