------------------------------- MODULE Incidents -------------------------------
(***************************************************************************)
(* Attacks as the panel sees them.  An edge opens an incident, reports its     *)
(* start, its progress and its end until the panel answers 2xx, and may put     *)
(* several reports in one body (api/report_l7_attack.go, reportXdpHandler).     *)
(* The panel keeps a row per L7 incident (store/l7_attacks.go) and a row per    *)
(* reported event (store/security_events.go), and derives from the latter what  *)
(* it shows; its attack console reads the live incident from the edge and       *)
(* stores that too (api/attack_console.go).                                     *)
(***************************************************************************)
EXTENDS Integers, Sequences, FiniteSets

CONSTANTS
    Attack,         \* incidents; their ids are the req_id of every report
    Delivery,       \* requests of the edges that the panel can serve at a time
    Console,        \* requests for the attack console
    Source,         \* addresses that an edge blocks during an L4 attack
    TTLs,           \* texts in which an edge says how long it blocks an address
    PerMinute,      \* seconds of a minute (60)
    DefaultTTL,     \* the panel's time for a block without one (60 s)
    QuietTimeout,   \* attackQuietTimeout (15 min)
    MaxTime,        \* bound on the clock
    MaxSnapshot,    \* bound on the snapshots of an incident
    MaxBlock,       \* bound on the blocks an edge reports
    MaxView,        \* bound on the console's requests
    MaxBreak,       \* bound on statements and answers that fail, and restarts
    MaxGiveUp       \* bound on reports whose answer the edge no longer waits for

\* A ttl is stored as it is reported: digits and a unit.  One without digits is NoTTL.
Text == [n : Nat, unit : {"", "s", "S", "m"}]
NoTTL == [n |-> 0, unit |-> ""]

ASSUME TimeAssumption ==
    /\ {QuietTimeout, DefaultTTL, PerMinute} \subseteq Nat /\ DefaultTTL > 0 /\ TTLs \subseteq Text
    /\ {MaxTime, MaxSnapshot, MaxBlock, MaxView, MaxBreak, MaxGiveUp} \subseteq Nat

VARIABLES
    time,
    edge,             \* the incident on its edge: its layer (report_l7_attack or report_xdp),
                      \* its newest snapshot, when it began, whether it is over
    unsent,           \* start and stop reports for which the edge has no 2xx yet
    l7_attacks,       \* the stored incident, or {}
    security_events,  \* the stored events in the order of their ids
    l4_live_attack,   \* the blocks stored for the live view
    report,           \* the handlers of the edges' reports
    console,          \* the handlers of the attack console
    used              \* what the bounds count

iVars == <<time, edge, unsent, l7_attacks, security_events, l4_live_attack, report, console,
           used>>
tables == <<l7_attacks, security_events, l4_live_attack>>

Time == 0 .. MaxTime
Data == {"attack_start", "attack_update", "attack_stop", "block"}
Payload == [data : Data, v : 0 .. MaxSnapshot, over : BOOLEAN, at : Time,
            ip : Source \cup {0}, ttl : TTLs \cup {NoTTL}]
IdleReport == [pc |-> "idle", i |-> 0, body |-> <<>>, k |-> 1, waiting |-> FALSE,
               hasStart |-> FALSE, hasStop |-> FALSE]
IdleConsole == [pc |-> "idle", i |-> 0, ongoing |-> FALSE, v |-> 0, over |-> FALSE]
Larger(a, b) == IF a >= b THEN a ELSE b
Tally(what, bound) == used[what] < bound /\ used' = [used EXCEPT ![what] = @ + 1]

-----------------------------------------------------------------------------
(* store/l7_attacks.go.  started_at and peak_rps only move down and up; every  *)
(* other column takes the value of whoever writes last.                         *)

StoredStatus(data, over) == IF data = "attack_stop" \/ over THEN "ended" ELSE "active"

\* Regression: the peak of whoever writes last.
UpsertIncidentLatest(rows, data, p) ==
    {[v |-> p.v, data |-> data, status |-> StoredStatus(data, p.over), peak |-> p.v]}

UpsertIncident(rows, data, p) ==
    {[v |-> p.v, data |-> data, status |-> StoredStatus(data, p.over),
      peak |-> IF rows = {} THEN p.v ELSE Larger((CHOOSE r \in rows : TRUE).peak, p.v)]}

StoredActive(i) == \E r \in l7_attacks[i] : r.status = "active"

-----------------------------------------------------------------------------
(* store/security_events.go: a row per event, and what is derived from them.   *)

Event(data, p, at) == [data |-> data, at |-> at, ip |-> p.ip, ttl |-> p.ttl]
Create(i, e) == security_events' = [security_events EXCEPT ![i] = Append(@, e)]

Rows(i) == {security_events[i][k] : k \in DOMAIN security_events[i]}
Reported(i, data) == \E e \in Rows(i) : e.data = data
NewestBlock(S) == CHOOSE e \in S : \A f \in S : f.at <= e.at

\* groupedSecurityPeriod: an attack is over when its stop was reported, or when nothing was
\* written about it for the quiet timeout.
PeriodStatus(i) ==
    IF Reported(i, "attack_stop") \/ time - NewestBlock(Rows(i)).at > QuietTimeout
    THEN "ended" ELSE "ongoing"

Blocks(i, ip) == {e \in Rows(i) : e.data = "block" /\ e.ip = ip}
BlockedIPs(i) == {ip \in Source : Blocks(i, ip) # {}}

\* The seconds of a ttl in the SQL, CAST(REPLACE(LOWER(ttl), 's', '') AS UNSIGNED): the digits
\* the text begins with, whatever their unit.
SecondsInSQL(ttl) == ttl.n

\* The seconds of a ttl in parseBlockTTL: a number or a duration of Go, which has no unit "S".
SecondsInGo(ttl) == CASE ttl.unit \in {"", "s"} -> ttl.n
                      [] ttl.unit = "m" -> PerMinute * ttl.n
                      [] OTHER -> 0

Lasts(seconds) == IF seconds > 0 THEN seconds ELSE DefaultTTL

\* Regression: the shortest of an address's times.
ActiveIPsShortest(i) ==
    {ip \in BlockedIPs(i) :
        \E e \in Blocks(i, ip) :
            /\ \A f \in Blocks(i, ip) : SecondsInSQL(e.ttl) <= SecondsInSQL(f.ttl)
            /\ NewestBlock(Blocks(i, ip)).at + Lasts(SecondsInSQL(e.ttl)) > time}

\* periodActiveIPs, in SQL: the newest block of an address and the longest of its times.
ActiveIPs(i) ==
    {ip \in BlockedIPs(i) :
        LET longest == CHOOSE e \in Blocks(i, ip) :
                           \A f \in Blocks(i, ip) : SecondsInSQL(f.ttl) <= SecondsInSQL(e.ttl)
        IN NewestBlock(Blocks(i, ip)).at + Lasts(SecondsInSQL(longest.ttl)) > time}

\* ListBlockedSourcesPage and buildAttackSources, in Go: the time of the newest block.
NewestBlocks(i, ip) == {e \in Blocks(i, ip) : e.at = NewestBlock(Blocks(i, ip)).at}
ShownActive(i) ==
    {ip \in BlockedIPs(i) :
        \E e \in NewestBlocks(i, ip) : e.at + Lasts(SecondsInGo(e.ttl)) > time}

-----------------------------------------------------------------------------
(* The edge. *)

Begin(i) ==
    /\ edge[i].v = 0
    /\ edge' = [edge EXCEPT ![i].v = 1, ![i].began = time]
    /\ unsent' = [unsent EXCEPT ![i] = {"attack_start"}]
    /\ UNCHANGED <<time, tables, report, console, used>>

Grow(i) ==
    /\ edge[i].v \in 1 .. MaxSnapshot - 2 /\ ~edge[i].over
    /\ edge' = [edge EXCEPT ![i].v = @ + 1]
    /\ UNCHANGED <<time, unsent, tables, report, console, used>>

End(i) ==
    /\ edge[i].v \in 1 .. MaxSnapshot - 1 /\ ~edge[i].over
    /\ edge' = [edge EXCEPT ![i].v = @ + 1, ![i].over = TRUE]
    /\ unsent' = [unsent EXCEPT ![i] = @ \cup {"attack_stop"}]
    /\ UNCHANGED <<time, tables, report, console, used>>

PassTime ==
    /\ time < MaxTime /\ time' = time + 1
    /\ UNCHANGED <<edge, unsent, tables, report, console, used>>

PayloadOf(i, data, ip, ttl) ==
    [data |-> data, v |-> edge[i].v, over |-> edge[i].over, at |-> time, ip |-> ip, ttl |-> ttl]

\* One worker reports an incident: it sends nothing before it has an answer or gave up.
Post(d, i, body) ==
    /\ report[d].pc = "idle"
    /\ \A x \in Delivery : ~(report[x].i = i /\ report[x].waiting)
    /\ report' = [report EXCEPT ![d] = [IdleReport EXCEPT
                      !.pc = "store", !.i = i, !.body = body, !.waiting = TRUE]]
    /\ UNCHANGED <<time, edge, unsent, tables, console>>

\* What is still unsent goes in one body, the start before the stop.
Bodies == {<<"attack_start">>, <<"attack_stop">>, <<"attack_start", "attack_stop">>}

SendPending(d, i) ==
    \E due \in Bodies :
        /\ {due[k] : k \in DOMAIN due} = unsent[i]
        /\ Post(d, i, [k \in DOMAIN due |-> PayloadOf(i, due[k], 0, NoTTL)])
        /\ UNCHANGED used

SendUpdate(d, i) ==
    /\ edge[i].layer = "L7" /\ edge[i].v > 0 /\ ~edge[i].over
    /\ Post(d, i, <<PayloadOf(i, "attack_update", 0, NoTTL)>>)
    /\ UNCHANGED used

SendBlock(d, i) ==
    /\ edge[i].layer = "L4" /\ edge[i].v > 0 /\ ~edge[i].over
    /\ Tally("block", MaxBlock)
    /\ \E ip \in Source, ttl \in TTLs : Post(d, i, <<PayloadOf(i, "block", ip, ttl)>>)

\* The edge's timeout: it may report again while the handler is still at work.
GiveUp(d) ==
    /\ report[d].pc # "idle" /\ report[d].waiting
    /\ Tally("giveUp", MaxGiveUp)
    /\ report' = [report EXCEPT ![d].waiting = FALSE]
    /\ UNCHANGED <<time, edge, unsent, tables, console>>

-----------------------------------------------------------------------------
(* The handlers of the edges' reports, one statement at a time.  A statement   *)
(* that fails may have been executed all the same; the handler then answers    *)
(* 500 and leaves the rest of the body alone.  Once the edge has given up, the *)
(* request's context is cancelled and any statement may fail.                  *)

Current(d) == report[d].body[report[d].k]
At(d, pc) == report[d].pc = pc
\* Regression: only the first report of a body is read.
Next1FirstOnly(r) == [r EXCEPT !.pc = "answer"]

Next1(r) == IF r.k < Len(r.body) THEN [r EXCEPT !.k = @ + 1, !.pc = "store"]
            ELSE [r EXCEPT !.pc = "answer"]

Break(d) == IF report[d].waiting THEN Tally("fault", MaxBreak) ELSE UNCHANGED used
Continue(d, r) ==
    \/ report' = [report EXCEPT ![d] = r] /\ UNCHANGED used
    \/ report' = [report EXCEPT ![d] = IdleReport] /\ Break(d)
KeepEdge == UNCHANGED <<time, edge, unsent, console>>

\* The statement was not executed, or the token, the time or the command was refused.
Refuse(d) ==
    /\ report[d].pc \notin {"idle", "answer"}
    /\ report' = [report EXCEPT ![d] = IdleReport] /\ Break(d)
    /\ KeepEdge /\ UNCHANGED <<tables>>

StoreIncident(d) ==
    LET i == report[d].i  p == Current(d) IN
    /\ At(d, "store") /\ edge[i].layer = "L7"
    /\ l7_attacks' = [l7_attacks EXCEPT ![i] = UpsertIncident(@, p.data, p)]
    /\ Continue(d, [report[d] EXCEPT !.pc = "period"])
    /\ KeepEdge /\ UNCHANGED <<security_events, l4_live_attack>>

\* Regression: a reported start is written without looking.
NeedStartAlways(r) == r.body[r.k].data = "attack_start" \/ ~r.hasStart

NeedStart(r) == ~r.hasStart
NeedStop(r) == r.body[r.k].data = "attack_stop" /\ ~r.hasStop

\* ensureL7AttackSecurityEvents: which events are there?
ReadPeriod(d) ==
    LET i == report[d].i
        r == [report[d] EXCEPT !.hasStart = Reported(i, "attack_start"),
                               !.hasStop = Reported(i, "attack_stop")] IN
    /\ At(d, "period")
    /\ report' = [report EXCEPT ![d] = IF NeedStart(r) THEN [r EXCEPT !.pc = "start"]
                                       ELSE IF NeedStop(r) THEN [r EXCEPT !.pc = "stop"]
                                       ELSE Next1(r)]
    /\ KeepEdge /\ UNCHANGED <<tables, used>>

\* A start that the panel has not seen is written by whatever comes first.
WriteStart(d) ==
    LET i == report[d].i  p == Current(d)  r == report[d] IN
    /\ At(d, "start")
    /\ Create(i, Event("attack_start", p, IF p.data = "attack_start" THEN p.at ELSE edge[i].began))
    /\ Continue(d, IF NeedStop(r) THEN [r EXCEPT !.pc = "stop"] ELSE Next1(r))
    /\ KeepEdge /\ UNCHANGED <<l7_attacks, l4_live_attack>>

WriteStop(d) ==
    /\ At(d, "stop")
    /\ Create(report[d].i, Event("attack_stop", Current(d), Current(d).at))
    /\ Continue(d, Next1(report[d]))
    /\ KeepEdge /\ UNCHANGED <<l7_attacks, l4_live_attack>>

\* reportXdpHandler: a block goes to the live view first; nothing asks what is there.
StoreBlock(d) ==
    LET i == report[d].i  p == Current(d) IN
    /\ At(d, "store") /\ edge[i].layer = "L4" /\ p.data = "block"
    /\ l4_live_attack' = [l4_live_attack EXCEPT ![i] = Append(@, [ip |-> p.ip, at |-> p.at])]
    /\ Continue(d, [report[d] EXCEPT !.pc = "event"])
    /\ KeepEdge /\ UNCHANGED <<l7_attacks, security_events>>

StoreEvent(d) ==
    LET i == report[d].i  p == Current(d) IN
    /\ \/ At(d, "event")
       \/ At(d, "store") /\ edge[i].layer = "L4" /\ p.data # "block"
    /\ Create(i, Event(p.data, p, p.at))
    /\ Continue(d, Next1(report[d]))
    /\ KeepEdge /\ UNCHANGED <<l7_attacks, l4_live_attack>>

\* 200 or 204, which may be lost.
Answer(d) ==
    LET r == report[d]  sent == {r.body[k].data : k \in DOMAIN r.body} IN
    /\ At(d, "answer")
    /\ \/ r.waiting /\ unsent' = [unsent EXCEPT ![r.i] = @ \ sent] /\ UNCHANGED used
       \/ r.waiting /\ Tally("fault", MaxBreak) /\ UNCHANGED unsent
       \/ ~r.waiting /\ UNCHANGED <<unsent, used>>
    /\ report' = [report EXCEPT ![d] = IdleReport]
    /\ UNCHANGED <<time, edge, console, tables>>

-----------------------------------------------------------------------------
(* The attack console: loadLiveL7Incident asks the edge while the period or     *)
(* the stored incident is open, and stores what it gets without an event.       *)

ConsoleTo(c, r) == console' = [console EXCEPT ![c] = r]
KeepAll == UNCHANGED <<time, edge, unsent, report, security_events, l4_live_attack>>

OpenConsole(c, i) ==
    /\ console[c].pc = "idle" /\ Rows(i) # {} /\ edge[i].layer = "L7"
    /\ Tally("view", MaxView)
    /\ ConsoleTo(c, [IdleConsole EXCEPT !.pc = "stored", !.i = i,
                                        !.ongoing = (PeriodStatus(i) = "ongoing")])
    /\ KeepAll /\ UNCHANGED l7_attacks

NeedLive(c) ==
    /\ console[c].pc = "stored"
    /\ ConsoleTo(c, IF console[c].ongoing \/ StoredActive(console[c].i)
                    THEN [console[c] EXCEPT !.pc = "fetch"] ELSE IdleConsole)
    /\ KeepAll /\ UNCHANGED <<l7_attacks, used>>

FetchLive(c) ==
    LET e == edge[console[c].i] IN
    /\ console[c].pc = "fetch"
    /\ \/ ConsoleTo(c, [console[c] EXCEPT !.pc = "live", !.v = e.v, !.over = e.over])
       \/ ConsoleTo(c, IdleConsole)
    /\ KeepAll /\ UNCHANGED <<l7_attacks, used>>

StoreLive(c) ==
    LET r == console[c] IN
    /\ r.pc = "live"
    /\ \/ l7_attacks' = [l7_attacks EXCEPT ![r.i] =
                             UpsertIncident(@, IF r.over THEN "attack_stop" ELSE "attack_update", r)]
       \/ UNCHANGED l7_attacks
    /\ ConsoleTo(c, IdleConsole)
    /\ KeepAll /\ UNCHANGED used

RestartPanel ==
    /\ \E d \in Delivery : report[d].pc # "idle"
    /\ Tally("fault", MaxBreak)
    /\ report' = [d \in Delivery |-> IdleReport]
    /\ console' = [c \in Console |-> IdleConsole]
    /\ UNCHANGED <<time, edge, unsent, tables>>

-----------------------------------------------------------------------------
IncidentInit ==
    /\ time = 0
    /\ edge \in [Attack -> {[layer |-> l, v |-> 0, began |-> 0, over |-> FALSE] :
                               l \in {"L4", "L7"}}]
    /\ unsent = [i \in Attack |-> {}]
    /\ l7_attacks = [i \in Attack |-> {}]
    /\ security_events = [i \in Attack |-> <<>>]
    /\ l4_live_attack = [i \in Attack |-> <<>>]
    /\ report = [d \in Delivery |-> IdleReport]
    /\ console = [c \in Console |-> IdleConsole]
    /\ used = [w \in {"block", "view", "fault", "giveUp"} |-> 0]

Handle(d) ==
    \/ StoreIncident(d) \/ ReadPeriod(d) \/ WriteStart(d) \/ WriteStop(d)
    \/ StoreBlock(d) \/ StoreEvent(d) \/ Answer(d) \/ Refuse(d)

IncidentNext ==
    \/ PassTime \/ RestartPanel
    \/ \E i \in Attack : Begin(i) \/ Grow(i) \/ End(i)
    \/ \E d \in Delivery, i \in Attack : SendPending(d, i) \/ SendUpdate(d, i) \/ SendBlock(d, i)
    \/ \E d \in Delivery : Handle(d) \/ GiveUp(d)
    \/ \E c \in Console : NeedLive(c) \/ FetchLive(c) \/ StoreLive(c)
    \/ \E c \in Console, i \in Attack : OpenConsole(c, i)

IncidentSpec == IncidentInit /\ [][IncidentNext]_iVars

\* The panel works on what it has received, and the edges retry until they have a 2xx.
IncidentFairSpec ==
    /\ IncidentSpec
    /\ \A d \in Delivery : WF_iVars(Handle(d))
    /\ \A i \in Attack : SF_iVars(\E d \in Delivery : SendPending(d, i))

-----------------------------------------------------------------------------
(* Properties *)

\* Reports are retried, cut short and partly executed, and the event is looked for before it
\* is written: an L7 incident has one start and one stop at most, and no stop without a start.
OneStartOneStop ==
    \A i \in Attack : edge[i].layer = "L7" =>
        LET At1(data) == {k \in DOMAIN security_events[i] : security_events[i][k].data = data} IN
        /\ Cardinality(At1("attack_start")) <= 1 /\ Cardinality(At1("attack_stop")) <= 1
        /\ At1("attack_stop") # {} => At1("attack_start") # {}

\* Once its stop is recorded the stored incident has the final peak, and it is shown as ended
\* unless a console has stored, late, a snapshot that it fetched before the end.
FinalFigures ==
    \A i \in Attack : edge[i].layer = "L7" /\ Reported(i, "attack_stop") =>
        \A r \in l7_attacks[i] :
            /\ r.peak = edge[i].v
            /\ r.status = "ended" \/ (r.data = "attack_update" /\ r.v < edge[i].v)

\* The console marks a source as active that the count of active sources leaves out in two cases
\* only, both of its newest block: the SQL of the count reads a shorter time in its ttl than the
\* Go code of the console does, or it has none, which is the default, and the SQL takes the
\* shorter time of another block for the longest.
ReadShorter(e) == Lasts(SecondsInSQL(e.ttl)) < Lasts(SecondsInGo(e.ttl))
Outdone(i, e) == /\ SecondsInSQL(e.ttl) = 0
                 /\ \E f \in Blocks(i, e.ip) : SecondsInSQL(f.ttl) \in 1 .. DefaultTTL - 1
MarkedIsCounted ==
    \A i \in Attack : \A ip \in ShownActive(i) \ ActiveIPs(i) :
        \E e \in NewestBlocks(i, ip) : ReadShorter(e) \/ Outdone(i, e)

\* An incident that is over on its edge gets its start and its stop, whatever was lost.
EventuallyReported ==
    \A i \in Attack : edge[i].over ~> Reported(i, "attack_start") /\ Reported(i, "attack_stop")
=============================================================================
