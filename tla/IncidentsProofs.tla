---------------------------- MODULE IncidentsProofs ----------------------------
(***************************************************************************)
(* Proofs about Incidents: which sources are marked and counted as active, for  *)
(* any number of deliveries; and, for one delivery at a time, that an incident   *)
(* has one start and one stop and ends with its final figures, whatever the      *)
(* attack console stores in between.                                             *)
(***************************************************************************)
EXTENDS Incidents, FiniteSetTheorems, TLAPS

EventSet == [data : Data, at : Nat, ip : Source \cup {0}, ttl : TTLs \cup {NoTTL}]
PayloadSet == [data : Data, v : Nat, over : BOOLEAN, at : Nat,
               ip : Source \cup {0}, ttl : TTLs \cup {NoTTL}]
EdgeSet == [layer : {"L4", "L7"}, v : Nat, began : Nat, over : BOOLEAN]
StoredSet == [v : Nat, data : Data, status : {"active", "ended"}, peak : Nat]
ReportSet ==
    [pc : {"idle", "store", "event", "period", "start", "stop", "answer"}, i : Attack \cup {0},
     body : Seq(PayloadSet), k : Nat \ {0}, waiting : BOOLEAN, hasStart : BOOLEAN,
     hasStop : BOOLEAN]
ConsoleSet ==
    [pc : {"idle", "stored", "fetch", "live"}, i : Attack \cup {0}, ongoing : BOOLEAN, v : Nat,
     over : BOOLEAN]

Working(r) == r.pc \notin {"idle", "answer"}
ReportOK(r) ==
    /\ r \in ReportSet
    /\ r.pc # "idle" => r.i \in Attack
    /\ Working(r) => r.k \in 1 .. Len(r.body)
ConsoleOK(c) == c \in ConsoleSet /\ (c.pc # "idle" => c.i \in Attack)

TypeInv ==
    /\ time \in Nat
    /\ edge \in [Attack -> EdgeSet]
    /\ unsent \in [Attack -> SUBSET {"attack_start", "attack_stop"}]
    /\ l7_attacks \in [Attack -> SUBSET StoredSet]
    /\ security_events \in [Attack -> Seq(EventSet)]
    /\ DOMAIN report = Delivery /\ \A d \in Delivery : ReportOK(report[d])
    /\ DOMAIN console = Console /\ \A c \in Console : ConsoleOK(console[c])
    /\ report = [d \in Delivery |-> report[d]] /\ console = [c \in Console |-> console[c]]

\* One of a source's blocks lasts at least as long as any other.
Longest ==
    \A i \in Attack : \A ip \in BlockedIPs(i) :
        \E e \in Blocks(i, ip) :
            \A f \in Blocks(i, ip) : SecondsInSQL(f.ttl) <= SecondsInSQL(e.ttl)

-----------------------------------------------------------------------------
(* One delivery at a time. *)

\* What an edge says of an incident it has said at some time: before the end, or at the end.
Taken(i, v, over) ==
    /\ v <= edge[i].v
    /\ over => edge[i].over /\ v = edge[i].v
    /\ ~over /\ edge[i].over => v < edge[i].v

\* The reports of a body were written at the same time, a stop after the end.
Written(r) ==
    r.pc # "idle" =>
        \A k \in DOMAIN r.body :
            /\ Taken(r.i, r.body[k].v, r.body[k].over)
            /\ r.body[k].over = r.body[1].over
            /\ r.body[k].data = "attack_stop" => r.body[k].over

\* What the handler has found out is still so.
Looked(r) ==
    /\ r.pc \in {"period", "start", "stop"} => edge[r.i].layer = "L7"
    /\ r.pc = "event" => edge[r.i].layer = "L4"
    /\ r.pc = "start" => ~Reported(r.i, "attack_start")
                         /\ r.hasStop = Reported(r.i, "attack_stop")
    /\ r.pc = "stop" => /\ Reported(r.i, "attack_start") /\ ~Reported(r.i, "attack_stop")
                        /\ r.body[r.k].data = "attack_stop"

EdgeInv ==
    \A i \in Attack :
        /\ edge[i].over => edge[i].v >= 1
        /\ "attack_stop" \in unsent[i] => edge[i].over
        /\ \A x \in l7_attacks[i] : x.peak <= edge[i].v

\* The stop is looked for when the start is there, and neither twice.
OnceOnly(i) ==
    /\ \A data \in {"attack_start", "attack_stop"} :
           \A k, l \in DOMAIN security_events[i] :
               security_events[i][k].data = data /\ security_events[i][l].data = data => k = l
    /\ Reported(i, "attack_stop") => Reported(i, "attack_start")

\* The stored incident is final, but for a late console.
Done(i) ==
    \E x \in StoredSet :
        /\ l7_attacks[i] = {x} /\ x.peak = edge[i].v
        /\ x.status = "ended" \/ (x.data = "attack_update" /\ x.v < edge[i].v)

\* The handler has stored an incident that is over and is to record its stop.
Storing(r, i) ==
    r.pc \in {"period", "start", "stop"} /\ r.i = i /\ r.body[r.k].data = "attack_stop"

FinalInv(i) ==
    /\ Reported(i, "attack_stop") =>
           /\ edge[i].over
           /\ \A d \in Delivery : Working(report[d]) /\ report[d].i = i => report[d].body[1].over
    /\ Reported(i, "attack_stop") \/ (\E d \in Delivery : Storing(report[d], i)) => Done(i)

IncInv ==
    /\ TypeInv
    /\ EdgeInv
    /\ \A d \in Delivery : Written(report[d]) /\ Looked(report[d])
    /\ \A c \in Console : console[c].pc = "live" =>
           Taken(console[c].i, console[c].v, console[c].over)
    /\ \A i \in Attack : edge[i].layer = "L7" => OnceOnly(i) /\ FinalInv(i)

-----------------------------------------------------------------------------
(* Types. *)

ReportInv ==
    /\ report = [d \in Delivery |-> report[d]]
    /\ \A d \in Delivery : ReportOK(report[d])
ConsoleInv ==
    /\ console = [c \in Console |-> console[c]]
    /\ \A c \in Console : ConsoleOK(console[c])

LEMMA ReportStep ==
    ASSUME TypeInv, NEW d \in Delivery, NEW r, ReportOK(r), report' = [report EXCEPT ![d] = r]
    PROVE  ReportInv' /\ \A x \in Delivery : x # d => report'[x] = report[x]
  BY DEF TypeInv, ReportInv

LEMMA ConsoleStep ==
    ASSUME TypeInv, NEW c \in Console, NEW r, ConsoleOK(r), console' = [console EXCEPT ![c] = r]
    PROVE  ConsoleInv' /\ \A x \in Console : x # c => console'[x] = console[x]
  BY DEF TypeInv, ConsoleInv

LEMMA IdleOK == ReportOK(IdleReport) /\ ConsoleOK(IdleConsole)
  BY DEF ReportOK, ConsoleOK, IdleReport, IdleConsole, ReportSet, ConsoleSet, Working

\* What the handler works on.
LEMMA CurrentOK ==
    ASSUME TypeInv, NEW d \in Delivery, Working(report[d])
    PROVE  /\ report[d].i \in Attack /\ report[d].k \in DOMAIN report[d].body
           /\ Current(d) \in PayloadSet /\ Current(d) = report[d].body[report[d].k]
  BY DEF TypeInv, ReportOK, ReportSet, Working, Current

\* A body that an edge may send.
LEMMA SentOK ==
    ASSUME TypeInv, NEW i \in Attack, NEW data \in Data, NEW ip \in Source \cup {0},
           NEW ttl \in TTLs \cup {NoTTL}
    PROVE  /\ PayloadOf(i, data, ip, ttl) \in PayloadSet
           /\ PayloadOf(i, data, ip, ttl).v = edge[i].v
           /\ PayloadOf(i, data, ip, ttl).over = edge[i].over
           /\ PayloadOf(i, data, ip, ttl).data = data
  BY DEF TypeInv, PayloadOf, PayloadSet, EdgeSet

Sending(d, i, body) ==
    /\ body \in Seq(PayloadSet) /\ Len(body) >= 1
    /\ report[d].pc = "idle"
    /\ report' = [report EXCEPT ![d] = [IdleReport EXCEPT
                      !.pc = "store", !.i = i, !.body = body, !.waiting = TRUE]]
    /\ \A k \in DOMAIN body :
           /\ body[k].v = edge[i].v /\ body[k].over = edge[i].over
           /\ body[k].data = "attack_stop" => "attack_stop" \in unsent[i]
    /\ UNCHANGED <<time, edge, unsent, tables, console>>

LEMMA Sends ==
    ASSUME TypeInv, NEW d \in Delivery, NEW i \in Attack,
           SendPending(d, i) \/ SendUpdate(d, i) \/ SendBlock(d, i)
    PROVE  \E body : Sending(d, i, body)
<1>1. CASE SendPending(d, i)
  <2>1. PICK due \in Bodies :
            /\ {due[k] : k \in DOMAIN due} = unsent[i]
            /\ Post(d, i, [k \in DOMAIN due |-> PayloadOf(i, due[k], 0, NoTTL)])
    BY <1>1 DEF SendPending
  <2>. DEFINE body == [k \in DOMAIN due |-> PayloadOf(i, due[k], 0, NoTTL)]
  <2>2. due \in Seq({"attack_start", "attack_stop"}) /\ Len(due) \in {1, 2}
    <3>1. CASE due = <<"attack_start">>
      BY <3>1
    <3>2. CASE due = <<"attack_stop">>
      BY <3>2
    <3>3. CASE due = <<"attack_start", "attack_stop">>
      BY <3>3
    <3>. QED  BY <3>1, <3>2, <3>3 DEF Bodies
  <2>3. \A k \in DOMAIN due : due[k] \in Data /\ due[k] \in unsent[i]
    BY <2>1, <2>2 DEF Data
  <2>4. \A k \in DOMAIN due : LET p == PayloadOf(i, due[k], 0, NoTTL) IN
            /\ p \in PayloadSet /\ p.v = edge[i].v /\ p.over = edge[i].over /\ p.data = due[k]
    BY <2>3, SentOK
  <2>5. /\ body \in Seq(PayloadSet) /\ Len(body) >= 1 /\ DOMAIN body = DOMAIN due
        /\ \A k \in DOMAIN body : /\ body[k].v = edge[i].v /\ body[k].over = edge[i].over
                                  /\ body[k].data = due[k]
    <3>1. due \in [1 .. Len(due) -> {"attack_start", "attack_stop"}] /\ DOMAIN due = 1 .. Len(due)
      BY <2>2
    <3>2. body = [k \in 1 .. Len(due) |-> PayloadOf(i, due[k], 0, NoTTL)]
      BY <3>1
    <3>3. body \in [1 .. Len(due) -> PayloadSet]
      BY <3>1, <3>2, <2>4
    <3>4. body \in Seq(PayloadSet) /\ Len(body) = Len(due)
      BY <3>3, <2>2
    <3>. QED  BY <3>1, <3>2, <3>4, <2>2, <2>4
  <2>6. Sending(d, i, body)
    BY <2>1, <2>2, <2>3, <2>4, <2>5 DEF Sending, Post
  <2>. QED  BY <2>6
<1>2. ASSUME NEW data \in Data \ {"attack_stop"}, NEW ip \in Source \cup {0},
             NEW ttl \in TTLs \cup {NoTTL}, Post(d, i, <<PayloadOf(i, data, ip, ttl)>>)
      PROVE  \E body : Sending(d, i, body)
  <2>. DEFINE p == PayloadOf(i, data, ip, ttl)
  <2>1. /\ p \in PayloadSet /\ p.v = edge[i].v /\ p.over = edge[i].over
        /\ p.data # "attack_stop"
    BY SentOK
  <2>. HIDE DEF p
  <2>2. Sending(d, i, <<p>>)
    BY <1>2, <2>1 DEF Sending, Post, p
  <2>. QED  BY <2>2
<1>3. CASE SendUpdate(d, i)
  <2>1. Post(d, i, <<PayloadOf(i, "attack_update", 0, NoTTL)>>)
    BY <1>3 DEF SendUpdate
  <2>. QED  BY <2>1, <1>2 DEF Data
<1>4. CASE SendBlock(d, i)
  <2>1. PICK ip \in Source, ttl \in TTLs : Post(d, i, <<PayloadOf(i, "block", ip, ttl)>>)
    BY <1>4 DEF SendBlock
  <2>. QED  BY <2>1, <1>2 DEF Data
<1>. QED  BY <1>1, <1>3, <1>4

LEMMA NextReport ==
    ASSUME NEW r, ReportOK(r), Working(r)
    PROVE  /\ ReportOK(Next1(r)) /\ Next1(r).i = r.i /\ Next1(r).body = r.body
           /\ Next1(r).pc \in {"store", "answer"}
<1>1. r \in ReportSet /\ Len(r.body) \in Nat /\ r.k \in 1 .. Len(r.body) /\ r.i \in Attack
  BY DEF ReportOK, ReportSet, Working
<1>2. CASE r.k < Len(r.body)
  <2>. DEFINE q == [r EXCEPT !.k = @ + 1, !.pc = "store"]
  <2>1. Next1(r) = q
    BY <1>2 DEF Next1
  <2>2. PICK n \in Nat \ {0} : n = r.k + 1
    BY <1>1
  <2>3. q = [r EXCEPT !.k = n, !.pc = "store"]
    BY <2>2
  <2>4. q \in ReportSet /\ q.i = r.i /\ q.body = r.body /\ q.k = n /\ q.pc = "store"
    BY <1>1, <2>3 DEF ReportSet
  <2>. HIDE DEF q
  <2>. QED  BY <1>1, <1>2, <2>1, <2>2, <2>4 DEF ReportOK, Working
<1>3. CASE ~(r.k < Len(r.body))
  <2>. DEFINE q == [r EXCEPT !.pc = "answer"]
  <2>1. Next1(r) = q
    BY <1>3 DEF Next1
  <2>2. q \in ReportSet /\ q.i = r.i /\ q.body = r.body /\ q.pc = "answer"
    BY <1>1 DEF ReportSet
  <2>. HIDE DEF q
  <2>. QED  BY <1>1, <2>1, <2>2 DEF ReportOK, Working
<1>. QED  BY <1>2, <1>3

\* A handler that is at work goes on with the same body, or is done for.
LEMMA Continues ==
    ASSUME TypeInv, NEW d \in Delivery, NEW r, ReportOK(r),
           Continue(d, r) \/ report' = [report EXCEPT ![d] = r]
    PROVE  /\ ReportInv' /\ report'[d] \in {r, IdleReport}
           /\ \A x \in Delivery : x # d => report'[x] = report[x]
  BY ReportStep, IdleOK DEF Continue, TypeInv

LEMMA EventOK ==
    ASSUME NEW p \in PayloadSet, NEW data \in Data, NEW at \in Nat
    PROVE  Event(data, p, at) \in EventSet /\ Event(data, p, at).data = data
  BY DEF Event, EventSet, PayloadSet

\* A row is added at the end.
LEMMA Created ==
    ASSUME TypeInv, NEW i \in Attack, NEW e \in EventSet, Create(i, e)
    PROVE  /\ security_events' \in [Attack -> Seq(EventSet)]
           /\ Rows(i)' = Rows(i) \cup {e}
           /\ \A j \in Attack : j # i => /\ Rows(j)' = Rows(j)
                                        /\ security_events'[j] = security_events[j]
           /\ DOMAIN security_events'[i] = DOMAIN security_events[i] \cup {Len(security_events[i]) + 1}
           /\ security_events'[i][Len(security_events[i]) + 1] = e
           /\ \A k \in DOMAIN security_events[i] :
                  security_events'[i][k] = security_events[i][k]
<1>1. security_events[i] \in Seq(EventSet) /\ security_events'[i] = Append(security_events[i], e)
  BY DEF TypeInv, Create
<1>2. security_events' \in [Attack -> Seq(EventSet)]
  BY <1>1 DEF TypeInv, Create
<1>3. \A j \in Attack : j # i => security_events'[j] = security_events[j]
  BY DEF TypeInv, Create
<1>4. /\ DOMAIN security_events'[i] = DOMAIN security_events[i] \cup {Len(security_events[i]) + 1}
      /\ security_events'[i][Len(security_events[i]) + 1] = e
      /\ \A k \in DOMAIN security_events[i] : security_events'[i][k] = security_events[i][k]
  BY <1>1
<1>5. Rows(i)' = Rows(i) \cup {e}
  BY <1>4 DEF Rows
<1>6. \A j \in Attack : j # i => Rows(j)' = Rows(j)
  BY <1>3 DEF Rows
<1>. QED  BY <1>2, <1>3, <1>4, <1>5, <1>6

\* Every write of an event, and what the handler does next.
Writing(d, e) ==
    LET r == report[d] IN
    /\ r.pc \in {"store", "event", "start", "stop"} /\ e \in EventSet /\ Create(r.i, e)
    /\ r.pc = "start" => e.data = "attack_start"
    /\ r.pc = "stop" => e.data = "attack_stop"
    /\ r.pc \in {"store", "event"} => edge[r.i].layer = "L4" \/ r.pc = "event"
    /\ UNCHANGED <<time, edge, unsent, console, l7_attacks>>

LEMMA Writes ==
    ASSUME TypeInv, NEW d \in Delivery, WriteStart(d) \/ WriteStop(d) \/ StoreEvent(d)
    PROVE  /\ \E e \in EventSet : Writing(d, e)
           /\ ReportInv' /\ \A x \in Delivery : x # d => report'[x] = report[x]
           /\ report'[d] \in {[report[d] EXCEPT !.pc = "stop"], Next1(report[d]), IdleReport}
           /\ report'[d].pc = "stop" => report[d].pc = "start" /\ NeedStop(report[d])
<1>. DEFINE r == report[d]
            p == Current(d)
<1>1. Working(r) /\ ReportOK(r)
  BY DEF WriteStart, WriteStop, StoreEvent, At, Working, TypeInv
<1>2. r.i \in Attack /\ p \in PayloadSet
  BY <1>1, CurrentOK
<1>3. p.at \in Nat /\ p.data \in Data /\ edge[r.i].began \in Nat
  BY <1>2 DEF TypeInv, PayloadSet, EdgeSet
<1>4. ReportOK([r EXCEPT !.pc = "stop"]) /\ [r EXCEPT !.pc = "stop"].pc = "stop"
  BY <1>1 DEF ReportOK, ReportSet, Working
<1>5. ReportOK(Next1(r)) /\ Next1(r).pc \in {"store", "answer"}
  BY <1>1, NextReport
<1>6. IdleReport.pc = "idle"
  BY DEF IdleReport
<1>. HIDE DEF p
<1>7. CASE WriteStart(d)
  <2>1. PICK at \in Nat : Create(r.i, Event("attack_start", p, at))
    BY <1>3, <1>7 DEF WriteStart, p
  <2>2. Writing(d, Event("attack_start", p, at))
    BY <1>2, <1>7, <2>1, EventOK DEF WriteStart, Writing, At, KeepEdge, Data
  <2>3. Continue(d, IF NeedStop(r) THEN [r EXCEPT !.pc = "stop"] ELSE Next1(r)) /\ r.pc = "start"
    BY <1>7 DEF WriteStart, At
  <2>4. CASE NeedStop(r)
    BY <2>2, <2>3, <2>4, <1>4, <1>6, Continues DEF Writing
  <2>5. CASE ~NeedStop(r)
    BY <2>2, <2>3, <2>5, <1>5, <1>6, Continues DEF Writing
  <2>. QED  BY <2>4, <2>5
<1>8. CASE WriteStop(d)
  <2>1. Writing(d, Event("attack_stop", p, p.at))
    BY <1>2, <1>3, <1>8, EventOK DEF WriteStop, Writing, At, KeepEdge, Data, p
  <2>2. Continue(d, Next1(r))
    BY <1>8 DEF WriteStop
  <2>. QED  BY <2>1, <2>2, <1>5, <1>6, Continues DEF Writing
<1>9. CASE StoreEvent(d)
  <2>1. Writing(d, Event(p.data, p, p.at))
    BY <1>2, <1>3, <1>9, EventOK DEF StoreEvent, Writing, At, KeepEdge, p
  <2>2. Continue(d, Next1(r))
    BY <1>9 DEF StoreEvent
  <2>. QED  BY <2>1, <2>2, <1>5, <1>6, Continues DEF Writing
<1>. QED  BY <1>7, <1>8, <1>9

\* An incident that is stored.
LEMMA Upserted ==
    ASSUME NEW S \in SUBSET StoredSet, NEW data \in Data, NEW p, p.v \in Nat, p.over \in BOOLEAN
    PROVE  \E x \in StoredSet :
             /\ UpsertIncident(S, data, p) = {x}
             /\ x.v = p.v /\ x.data = data /\ x.status = StoredStatus(data, p.over)
             /\ S = {} => x.peak = p.v
             /\ S # {} => \E y \in S : x.peak = Larger(y.peak, p.v)
<1>1. StoredStatus(data, p.over) \in {"active", "ended"}
  BY DEF StoredStatus
<1>2. ASSUME NEW peak \in Nat,
             UpsertIncident(S, data, p) = {[v |-> p.v, data |-> data,
                                            status |-> StoredStatus(data, p.over), peak |-> peak]},
             S = {} => peak = p.v, S # {} => \E y \in S : peak = Larger(y.peak, p.v)
      PROVE  \E x \in StoredSet :
                /\ UpsertIncident(S, data, p) = {x}
                /\ x.v = p.v /\ x.data = data /\ x.status = StoredStatus(data, p.over)
                /\ S = {} => x.peak = p.v
                /\ S # {} => \E y \in S : x.peak = Larger(y.peak, p.v)
  <2>. DEFINE x == [v |-> p.v, data |-> data, status |-> StoredStatus(data, p.over), peak |-> peak]
  <2>1. x \in StoredSet
    BY <1>1 DEF StoredSet
  <2>2. x.v = p.v /\ x.data = data /\ x.status = StoredStatus(data, p.over) /\ x.peak = peak
    OBVIOUS
  <2>3. UpsertIncident(S, data, p) = {x}
    BY <1>2
  <2>. HIDE DEF x
  <2>. QED  BY <1>2, <2>1, <2>2, <2>3
<1>3. CASE S = {}
  <2>1. UpsertIncident(S, data, p) = {[v |-> p.v, data |-> data,
                                       status |-> StoredStatus(data, p.over), peak |-> p.v]}
    BY <1>3 DEF UpsertIncident
  <2>. QED  BY <1>2, <1>3, <2>1
<1>4. CASE S # {}
  <2>1. PICK y \in S : y = CHOOSE r \in S : TRUE
    BY <1>4
  <2>2. Larger(y.peak, p.v) \in Nat
    BY <2>1 DEF Larger, StoredSet
  <2>3. UpsertIncident(S, data, p) = {[v |-> p.v, data |-> data,
                                       status |-> StoredStatus(data, p.over),
                                       peak |-> Larger(y.peak, p.v)]}
    BY <1>4, <2>1 DEF UpsertIncident
  <2>. QED  BY <1>2, <1>4, <2>2, <2>3
<1>. QED  BY <1>3, <1>4

-----------------------------------------------------------------------------
(* Type correctness. *)

TypeHalves == ReportInv /\ ConsoleInv
RestInv ==
    /\ time \in Nat /\ edge \in [Attack -> EdgeSet]
    /\ unsent \in [Attack -> SUBSET {"attack_start", "attack_stop"}]
    /\ l7_attacks \in [Attack -> SUBSET StoredSet]
    /\ security_events \in [Attack -> Seq(EventSet)]

LEMMA Halves ==
    /\ TypeInv <=> RestInv /\ TypeHalves
    /\ TypeInv' <=> RestInv' /\ TypeHalves'
  BY DEF TypeInv, RestInv, TypeHalves, ReportInv, ConsoleInv

LEMMA TypeInit == IncidentInit => TypeInv
<1>1. ReportOK(IdleReport) /\ ConsoleOK(IdleConsole)
  BY IdleOK
<1>2. <<>> \in Seq(EventSet)
  OBVIOUS
<1>3. IncidentInit => ReportInv /\ ConsoleInv
  BY <1>1 DEF IncidentInit, ReportInv, ConsoleInv
<1>4. IncidentInit => RestInv
  <2>1. {[layer |-> l, v |-> 0, began |-> 0, over |-> FALSE] : l \in {"L4", "L7"}} \subseteq EdgeSet
    <3>1. \A l \in {"L4", "L7"} : [layer |-> l, v |-> 0, began |-> 0, over |-> FALSE] \in EdgeSet
      BY DEF EdgeSet
    <3>. QED  BY <3>1
  <2>2. IncidentInit => edge \in [Attack -> EdgeSet]
    BY <2>1 DEF IncidentInit
  <2>. QED  BY <1>2, <2>2 DEF IncidentInit, RestInv
<1>. QED  BY <1>3, <1>4, Halves DEF TypeHalves

\* The steps of the edges.
LEMMA EdgeSteps ==
    ASSUME TypeInv, NEW i \in Attack, Begin(i) \/ Grow(i) \/ End(i)
    PROVE  TypeInv'
<1>1. edge[i] \in EdgeSet /\ unsent[i] \subseteq {"attack_start", "attack_stop"} /\ time \in Nat
  BY DEF TypeInv
<1>2. edge[i].v + 1 \in Nat
  BY <1>1 DEF EdgeSet
<1>3. RestInv'
  <2>1. CASE Begin(i)
    <3>1. [edge[i] EXCEPT !.v = 1, !.began = time] \in EdgeSet
      BY <1>1 DEF EdgeSet
    <3>2. edge' = [edge EXCEPT ![i] = [edge[i] EXCEPT !.v = 1, !.began = time]]
      BY <2>1 DEF Begin, TypeInv
    <3>. QED  BY <2>1, <3>1, <3>2, <1>1 DEF Begin, TypeInv, RestInv, tables
  <2>2. CASE Grow(i)
    <3>1. \A n \in Nat : [edge[i] EXCEPT !.v = n] \in EdgeSet
      BY <1>1 DEF EdgeSet
    <3>2. edge' = [edge EXCEPT ![i] = [edge[i] EXCEPT !.v = edge[i].v + 1]]
      BY <2>2 DEF Grow, TypeInv
    <3>. QED  BY <2>2, <3>1, <3>2, <1>1, <1>2 DEF Grow, TypeInv, RestInv, tables
  <2>3. CASE End(i)
    <3>1. \A n \in Nat : [edge[i] EXCEPT !.v = n, !.over = TRUE] \in EdgeSet
      BY <1>1 DEF EdgeSet
    <3>2. edge' = [edge EXCEPT ![i] = [edge[i] EXCEPT !.v = edge[i].v + 1, !.over = TRUE]]
      BY <2>3 DEF End, TypeInv
    <3>. QED  BY <2>3, <3>1, <3>2, <1>1, <1>2 DEF End, TypeInv, RestInv, tables
  <2>. QED  BY <2>1, <2>2, <2>3
<1>4. TypeHalves'
  <2>1. UNCHANGED <<report, console>>
    BY DEF Begin, Grow, End
  <2>. QED  BY <2>1, Halves DEF TypeHalves, ReportInv, ConsoleInv
<1>. QED  BY <1>3, <1>4, Halves

LEMMA SentReportOK ==
    ASSUME NEW i \in Attack, NEW body \in Seq(PayloadSet), Len(body) >= 1
    PROVE  LET r == [IdleReport EXCEPT !.pc = "store", !.i = i, !.body = body, !.waiting = TRUE]
           IN  ReportOK(r) /\ r.pc = "store" /\ r.i = i /\ r.body = body /\ r.k = 1
<1>1. Len(body) \in Nat /\ 1 \in 1 .. Len(body)
  OBVIOUS
<1>. DEFINE r == [IdleReport EXCEPT !.pc = "store", !.i = i, !.body = body, !.waiting = TRUE]
<1>2. IdleReport \in ReportSet /\ IdleReport.k = 1
  BY DEF IdleReport, ReportSet
<1>3. r \in ReportSet /\ r.pc = "store" /\ r.i = i /\ r.body = body /\ r.k = 1
  BY <1>2 DEF ReportSet
<1>. HIDE DEF r
<1>4. ReportOK(r)
  BY <1>1, <1>3 DEF ReportOK, Working
<1>. QED  BY <1>3, <1>4 DEF r

\* The requests of the edges.
LEMMA SendSteps ==
    ASSUME TypeInv, NEW d \in Delivery, NEW i \in Attack, NEW body, Sending(d, i, body)
    PROVE  TypeInv'
<1>1. body \in Seq(PayloadSet) /\ Len(body) >= 1
  BY DEF Sending
<1>2. ReportInv'
  BY <1>1, SentReportOK, ReportStep DEF Sending
<1>3. RestInv' /\ ConsoleInv'
  BY Halves DEF Sending, RestInv, TypeHalves, ConsoleInv, tables
<1>. QED  BY <1>2, <1>3, Halves DEF TypeHalves

\* The incident is stored by a report, and what the handler does next.
LEMMA Stores ==
    ASSUME TypeInv, NEW d \in Delivery, StoreIncident(d)
    PROVE  LET r == report[d]  p == Current(d) IN
           /\ r.pc = "store" /\ edge[r.i].layer = "L7" /\ r.i \in Attack
           /\ p = r.body[r.k] /\ r.k \in DOMAIN r.body /\ p \in PayloadSet
           /\ \E x \in StoredSet :
                 /\ l7_attacks' = [l7_attacks EXCEPT ![r.i] = {x}]
                 /\ x.v = p.v /\ x.data = p.data /\ x.status = StoredStatus(p.data, p.over)
                 /\ l7_attacks[r.i] = {} => x.peak = p.v
                 /\ l7_attacks[r.i] # {} => \E y \in l7_attacks[r.i] : x.peak = Larger(y.peak, p.v)
           /\ report'[d] \in {[r EXCEPT !.pc = "period"], IdleReport}
           /\ \A y \in Delivery : y # d => report'[y] = report[y]
           /\ ReportInv'
           /\ UNCHANGED <<time, edge, unsent, console, security_events>>
<1>. DEFINE r == report[d]
            p == Current(d)
<1>1. Working(r) /\ r.pc = "store" /\ edge[r.i].layer = "L7"
  BY DEF StoreIncident, At, Working
<1>2. r.i \in Attack /\ p \in PayloadSet /\ p = r.body[r.k] /\ r.k \in DOMAIN r.body
  BY <1>1, CurrentOK
<1>3. p.v \in Nat /\ p.over \in BOOLEAN /\ p.data \in Data /\ l7_attacks[r.i] \in SUBSET StoredSet
  BY <1>2 DEF PayloadSet, TypeInv
<1>4. PICK x \in StoredSet :
             /\ UpsertIncident(l7_attacks[r.i], p.data, p) = {x}
             /\ x.v = p.v /\ x.data = p.data /\ x.status = StoredStatus(p.data, p.over)
             /\ l7_attacks[r.i] = {} => x.peak = p.v
             /\ l7_attacks[r.i] # {} => \E y \in l7_attacks[r.i] : x.peak = Larger(y.peak, p.v)
  BY <1>3, Upserted
<1>5. l7_attacks' = [l7_attacks EXCEPT ![r.i] = {x}]
  BY <1>4 DEF StoreIncident
<1>6. ReportOK([r EXCEPT !.pc = "period"])
  <2>1. ReportOK(r)
    BY DEF TypeInv
  <2>. QED  BY <2>1, <1>1 DEF ReportOK, ReportSet, Working
<1>7. /\ report'[d] \in {[r EXCEPT !.pc = "period"], IdleReport} /\ ReportInv'
      /\ \A y \in Delivery : y # d => report'[y] = report[y]
  BY <1>6, Continues DEF StoreIncident
<1>8. UNCHANGED <<time, edge, unsent, console, security_events>>
  BY DEF StoreIncident, KeepEdge
<1>. HIDE DEF p
<1>. QED  BY <1>1, <1>2, <1>4, <1>5, <1>7, <1>8 DEF p

\* The other steps of a handler.
LEMMA HandlerSteps ==
    ASSUME TypeInv, NEW d \in Delivery,
           ReadPeriod(d) \/ StoreBlock(d) \/ Answer(d) \/ Refuse(d) \/ GiveUp(d)
    PROVE  /\ TypeInv'
           /\ UNCHANGED <<time, edge, l7_attacks, security_events, console>>
           /\ \A i \in Attack : unsent'[i] \subseteq unsent[i]
           /\ \A x \in Delivery : x # d => report'[x] = report[x]
<1>1. ReportOK(report[d]) /\ ReportOK(IdleReport)
  BY IdleOK DEF TypeInv
<1>2. /\ ReportInv' /\ \A x \in Delivery : x # d => report'[x] = report[x]
  <2>1. CASE ReadPeriod(d)
    <3>. DEFINE i == report[d].i
                r == [report[d] EXCEPT !.hasStart = Reported(i, "attack_start"),
                                       !.hasStop = Reported(i, "attack_stop")]
    <3>1. Working(report[d]) /\ report[d] \in ReportSet
      BY <1>1, <2>1 DEF ReadPeriod, At, Working, ReportOK
    <3>2. Reported(i, "attack_start") \in BOOLEAN /\ Reported(i, "attack_stop") \in BOOLEAN
      BY DEF Reported
    <3>3. r \in ReportSet /\ r.pc = report[d].pc /\ r.i = report[d].i /\ r.body = report[d].body
          /\ r.k = report[d].k
      BY <3>1, <3>2 DEF ReportSet
    <3>4. ReportOK(r) /\ Working(r)
      BY <1>1, <3>1, <3>3 DEF ReportOK, Working
    <3>5. report' = [report EXCEPT ![d] = IF NeedStart(r) THEN [r EXCEPT !.pc = "start"]
                                         ELSE IF NeedStop(r) THEN [r EXCEPT !.pc = "stop"]
                                         ELSE Next1(r)]
      BY <2>1 DEF ReadPeriod
    <3>. HIDE DEF r, i
    <3>6. ReportOK([r EXCEPT !.pc = "start"]) /\ ReportOK([r EXCEPT !.pc = "stop"]) /\ ReportOK(Next1(r))
      BY <3>4, NextReport DEF ReportOK, ReportSet, Working
    <3>7. PICK q : ReportOK(q) /\ report' = [report EXCEPT ![d] = q]
      BY <3>5, <3>6
    <3>. QED  BY <3>7, ReportStep
  <2>2. CASE StoreBlock(d)
    <3>1. ReportOK([report[d] EXCEPT !.pc = "event"])
      BY <1>1, <2>2 DEF StoreBlock, At, ReportOK, ReportSet, Working
    <3>. QED  BY <3>1, <2>2, Continues DEF StoreBlock
  <2>3. CASE Answer(d) \/ Refuse(d)
    BY <1>1, <2>3, ReportStep DEF Answer, Refuse
  <2>4. CASE GiveUp(d)
    <3>1. ReportOK([report[d] EXCEPT !.waiting = FALSE])
      BY <1>1, <2>4 DEF ReportOK, ReportSet, Working
    <3>2. report' = [report EXCEPT ![d] = [report[d] EXCEPT !.waiting = FALSE]]
      BY <2>4 DEF GiveUp, TypeInv
    <3>. QED  BY <3>1, <3>2, ReportStep
  <2>. QED  BY <2>1, <2>2, <2>3, <2>4
<1>3. UNCHANGED <<time, edge, l7_attacks, security_events, console>>
  BY DEF ReadPeriod, StoreBlock, Answer, Refuse, GiveUp, KeepEdge, tables
<1>4. /\ \A i \in Attack : unsent'[i] \subseteq unsent[i]
      /\ unsent' \in [Attack -> SUBSET {"attack_start", "attack_stop"}]
  <2>1. CASE UNCHANGED unsent
    BY <2>1 DEF TypeInv
  <2>2. CASE Answer(d) /\ unsent' # unsent
    <3>1. PICK sent : unsent' = [unsent EXCEPT ![report[d].i] = @ \ sent]
      BY <2>2 DEF Answer
    <3>. QED  BY <3>1 DEF TypeInv
  <2>. QED  BY <2>1, <2>2 DEF ReadPeriod, StoreBlock, Answer, Refuse, GiveUp, KeepEdge
<1>5. RestInv' /\ ConsoleInv'
  BY <1>3, <1>4, Halves DEF RestInv, TypeHalves, ConsoleInv
<1>. QED  BY <1>2, <1>3, <1>4, <1>5, Halves DEF TypeHalves

\* The attack console.
ConsoleMove(c) == NeedLive(c) \/ FetchLive(c) \/ StoreLive(c) \/ \E i \in Attack : OpenConsole(c, i)

LEMMA ConsoleSteps ==
    ASSUME TypeInv, NEW c \in Console, ConsoleMove(c)
    PROVE  /\ TypeInv' /\ UNCHANGED <<time, edge, unsent, report, security_events>>
           /\ \A x \in Console : x # c => console'[x] = console[x]
           /\ console'[c].pc = "live" =>
                 LET r == console'[c] IN
                 /\ r.i \in Attack /\ r.v = edge[r.i].v /\ r.over = edge[r.i].over
           /\ \/ UNCHANGED l7_attacks
              \/ LET r == console[c]
                     data == IF r.over THEN "attack_stop" ELSE "attack_update" IN
                 /\ r.pc = "live" /\ r.i \in Attack
                 /\ \E x \in StoredSet :
                    /\ l7_attacks' = [l7_attacks EXCEPT ![r.i] = {x}]
                    /\ x.v = r.v /\ x.data = data /\ x.status = StoredStatus(data, r.over)
                    /\ l7_attacks[r.i] = {} => x.peak = r.v
                    /\ l7_attacks[r.i] # {} => \E y \in l7_attacks[r.i] : x.peak = Larger(y.peak, r.v)
<1>. DEFINE r == console[c]
            data == IF r.over THEN "attack_stop" ELSE "attack_update"
<1>1. ConsoleOK(r) /\ ConsoleOK(IdleConsole) /\ IdleConsole.pc = "idle"
  BY IdleOK DEF TypeInv, IdleConsole
<1>2. UNCHANGED <<time, edge, unsent, report, security_events>>
  BY DEF ConsoleMove, NeedLive, FetchLive, StoreLive, OpenConsole, KeepAll
<1>3. PICK q : /\ ConsoleOK(q) /\ ConsoleTo(c, q)
               /\ q.pc = "live" => q.i \in Attack /\ q.v = edge[q.i].v /\ q.over = edge[q.i].over
  <2>1. CASE NeedLive(c)
    <3>1. ConsoleOK([r EXCEPT !.pc = "fetch"]) /\ [r EXCEPT !.pc = "fetch"].pc = "fetch"
      BY <1>1, <2>1 DEF NeedLive, ConsoleOK, ConsoleSet
    <3>2. \/ ConsoleTo(c, [r EXCEPT !.pc = "fetch"])
          \/ ConsoleTo(c, IdleConsole)
      BY <2>1 DEF NeedLive
    <3>. QED  BY <1>1, <3>1, <3>2
  <2>2. CASE FetchLive(c)
    <3>. DEFINE e == edge[r.i]
                q == [r EXCEPT !.pc = "live", !.v = e.v, !.over = e.over]
    <3>1. r.i \in Attack /\ e \in EdgeSet
      BY <1>1, <2>2 DEF FetchLive, ConsoleOK, TypeInv
    <3>2. ConsoleOK(q) /\ q.i = r.i /\ q.v = edge[r.i].v /\ q.over = edge[r.i].over
      BY <1>1, <3>1 DEF ConsoleOK, ConsoleSet, EdgeSet
    <3>3. ConsoleTo(c, q) \/ ConsoleTo(c, IdleConsole)
      BY <2>2 DEF FetchLive
    <3>. HIDE DEF q
    <3>. QED  BY <1>1, <3>1, <3>2, <3>3
  <2>3. CASE StoreLive(c)
    BY <1>1, <2>3 DEF StoreLive
  <2>4. ASSUME NEW i \in Attack, OpenConsole(c, i)
        PROVE  \E q : /\ ConsoleOK(q) /\ ConsoleTo(c, q) /\ q.pc # "live"
    <3>1. (PeriodStatus(i) = "ongoing") \in BOOLEAN
      OBVIOUS
    <3>. DEFINE q == [IdleConsole EXCEPT !.pc = "stored", !.i = i,
                                         !.ongoing = (PeriodStatus(i) = "ongoing")]
    <3>2. ConsoleOK(q) /\ q.pc = "stored"
      BY <1>1 DEF ConsoleOK, ConsoleSet
    <3>3. ConsoleTo(c, q)
      BY <2>4 DEF OpenConsole
    <3>. HIDE DEF q
    <3>. QED  BY <3>2, <3>3
  <2>. QED  BY <2>1, <2>2, <2>3, <2>4 DEF ConsoleMove
<1>4. /\ ConsoleInv' /\ \A x \in Console : x # c => console'[x] = console[x]
      /\ console'[c] = q
  BY <1>3, ConsoleStep DEF ConsoleTo, TypeInv
<1>5. \/ UNCHANGED l7_attacks
      \/ /\ r.pc = "live" /\ r.i \in Attack
         /\ \E x \in StoredSet :
               /\ l7_attacks' = [l7_attacks EXCEPT ![r.i] = {x}]
               /\ x.v = r.v /\ x.data = data /\ x.status = StoredStatus(data, r.over)
               /\ l7_attacks[r.i] = {} => x.peak = r.v
               /\ l7_attacks[r.i] # {} => \E y \in l7_attacks[r.i] : x.peak = Larger(y.peak, r.v)
  <2>1. CASE StoreLive(c) /\ l7_attacks' # l7_attacks
    <3>1. r.pc = "live" /\ r.i \in Attack /\ r.v \in Nat /\ r.over \in BOOLEAN
      BY <1>1, <2>1 DEF StoreLive, ConsoleOK, ConsoleSet
    <3>2. l7_attacks[r.i] \in SUBSET StoredSet /\ data \in Data
      BY <3>1 DEF TypeInv, Data
    <3>3. l7_attacks' = [l7_attacks EXCEPT ![r.i] = UpsertIncident(l7_attacks[r.i], data, r)]
      BY <2>1 DEF StoreLive
    <3>. HIDE DEF data, r
    <3>4. PICK x \in StoredSet :
               /\ UpsertIncident(l7_attacks[r.i], data, r) = {x}
               /\ x.v = r.v /\ x.data = data /\ x.status = StoredStatus(data, r.over)
               /\ l7_attacks[r.i] = {} => x.peak = r.v
               /\ l7_attacks[r.i] # {} => \E y \in l7_attacks[r.i] : x.peak = Larger(y.peak, r.v)
      BY <3>1, <3>2, Upserted
    <3>5. l7_attacks' = [l7_attacks EXCEPT ![r.i] = {x}]
      BY <3>3, <3>4
    <3>. QED  BY <3>1, <3>4, <3>5
  <2>. QED  BY <2>1 DEF ConsoleMove, NeedLive, FetchLive, StoreLive, OpenConsole
<1>6. l7_attacks' \in [Attack -> SUBSET StoredSet]
  <2>1. l7_attacks \in [Attack -> SUBSET StoredSet]
    BY DEF TypeInv
  <2>2. l7_attacks' = l7_attacks
        \/ \E i \in Attack, x \in StoredSet : l7_attacks' = [l7_attacks EXCEPT ![i] = {x}]
    BY <1>5
  <2>. QED  BY <2>1, <2>2
<1>7. RestInv' /\ ReportInv'
  BY <1>2, <1>6, Halves DEF RestInv, TypeHalves, ReportInv
<1>8. TypeInv'
  BY <1>4, <1>7, Halves DEF TypeHalves
<1>. QED  BY <1>2, <1>3, <1>4, <1>5, <1>8

\* What a report writes leaves the types as they were.
LEMMA WriteSteps ==
    ASSUME TypeInv, NEW d \in Delivery,
           StoreIncident(d) \/ WriteStart(d) \/ WriteStop(d) \/ StoreEvent(d)
    PROVE  TypeInv'
<1>1. CASE StoreIncident(d)
  <2>1. PICK x \in StoredSet : l7_attacks' = [l7_attacks EXCEPT ![report[d].i] = {x}]
    BY <1>1, Stores
  <2>2. ReportInv' /\ UNCHANGED <<time, edge, unsent, console, security_events>>
    BY <1>1, Stores
  <2>3. l7_attacks' \in [Attack -> SUBSET StoredSet]
    BY <2>1 DEF TypeInv
  <2>. QED  BY <2>2, <2>3, Halves DEF RestInv, TypeHalves, ConsoleInv
<1>2. CASE WriteStart(d) \/ WriteStop(d) \/ StoreEvent(d)
  <2>1. PICK e \in EventSet : Writing(d, e)
    BY <1>2, Writes
  <2>2. report[d].i \in Attack
    BY <2>1, CurrentOK DEF Writing, Working
  <2>3. security_events' \in [Attack -> Seq(EventSet)]
    BY <2>1, <2>2, Created DEF Writing
  <2>4. ReportInv'
    BY <1>2, Writes
  <2>. QED  BY <2>1, <2>3, <2>4, Halves DEF Writing, RestInv, TypeHalves, ConsoleInv
<1>. QED  BY <1>1, <1>2

LEMMA RestartStep ==
    ASSUME TypeInv, RestartPanel
    PROVE  TypeInv' /\ \A d \in Delivery : report'[d].pc = "idle"
<1>1. ReportInv' /\ ConsoleInv' /\ \A d \in Delivery : report'[d].pc = "idle"
  BY IdleOK DEF RestartPanel, ReportInv, ConsoleInv, IdleReport
<1>2. RestInv'
  BY Halves DEF RestartPanel, RestInv, tables
<1>. QED  BY <1>1, <1>2, Halves DEF TypeHalves

LEMMA TimeStep ==
    ASSUME TypeInv, PassTime \/ UNCHANGED iVars
    PROVE  TypeInv' /\ UNCHANGED <<edge, unsent, tables, report, console>>
<1>1. UNCHANGED <<edge, unsent, tables, report, console>>
  BY DEF PassTime, iVars, tables
<1>2. time' \in Nat
  BY DEF PassTime, iVars, TypeInv
<1>. QED  BY <1>1, <1>2 DEF TypeInv, tables

\* The kinds of step that the following proofs tell apart.
LEMMA Kinds ==
    ASSUME TypeInv, [IncidentNext]_iVars
    PROVE  \/ PassTime \/ UNCHANGED iVars
           \/ RestartPanel
           \/ \E i \in Attack : Begin(i) \/ Grow(i) \/ End(i)
           \/ \E d \in Delivery, i \in Attack : \E body : Sending(d, i, body)
           \/ \E d \in Delivery : StoreIncident(d)
           \/ \E d \in Delivery : WriteStart(d) \/ WriteStop(d) \/ StoreEvent(d)
           \/ \E d \in Delivery : ReadPeriod(d) \/ StoreBlock(d) \/ Answer(d) \/ Refuse(d) \/ GiveUp(d)
           \/ \E c \in Console : ConsoleMove(c)
<1>1. CASE \E d \in Delivery : Handle(d) \/ GiveUp(d)
  BY <1>1 DEF Handle
<1>2. CASE \E d \in Delivery, i \in Attack : SendPending(d, i) \/ SendUpdate(d, i) \/ SendBlock(d, i)
  BY <1>2, Sends
<1>3. CASE \/ \E c \in Console : NeedLive(c) \/ FetchLive(c) \/ StoreLive(c)
           \/ \E c \in Console, i \in Attack : OpenConsole(c, i)
  BY <1>3 DEF ConsoleMove
<1>. QED  BY <1>1, <1>2, <1>3 DEF IncidentNext

LEMMA TypeStep == TypeInv /\ [IncidentNext]_iVars => TypeInv'
<1>. SUFFICES ASSUME TypeInv, [IncidentNext]_iVars PROVE TypeInv'
  OBVIOUS
<1>. QED  BY Kinds, TimeStep, RestartStep, EdgeSteps, SendSteps, WriteSteps, HandlerSteps, ConsoleSteps

\* Incidents, events, reports and consoles keep their shape, for any number of edges' reports
\* and of consoles at a time.
THEOREM TypeCorrect == IncidentSpec => []TypeInv
  BY TypeInit, TypeStep, PTL DEF IncidentSpec

-----------------------------------------------------------------------------
(* Marked and counted sources. *)

LEMMA LongestInit == IncidentInit => Longest
  BY DEF IncidentInit, Longest, BlockedIPs, Blocks, Rows

\* Both readings of a stored ttl are numbers of seconds.
LEMMA SecondsOK ==
    ASSUME NEW ttl \in TTLs \cup {NoTTL}
    PROVE  SecondsInSQL(ttl) \in Nat /\ SecondsInGo(ttl) \in Nat
<1>1. TTLs \subseteq Text /\ PerMinute \in Nat
  BY TimeAssumption
<1>2. NoTTL \in Text
  BY DEF NoTTL, Text
<1>3. ttl \in Text
  BY <1>1, <1>2
<1>4. ttl.n \in Nat
  BY <1>3 DEF Text
<1>5. PICK a \in Nat, b \in Nat : a = PerMinute /\ b = ttl.n
  BY <1>1, <1>4
<1>6. a * b \in Nat
  OBVIOUS
<1>. QED  BY <1>4, <1>5, <1>6 DEF SecondsInSQL, SecondsInGo

LEMMA LongestStep == TypeInv /\ Longest /\ [IncidentNext]_iVars => Longest'
<1>. SUFFICES ASSUME TypeInv, Longest, [IncidentNext]_iVars PROVE Longest'
  OBVIOUS
<1>1. CASE UNCHANGED security_events
  BY <1>1 DEF Longest, BlockedIPs, Blocks, Rows
<1>2. ASSUME NEW d \in Delivery, WriteStart(d) \/ WriteStop(d) \/ StoreEvent(d)
      PROVE  Longest'
  <2>1. PICK e \in EventSet : Writing(d, e)
    BY <1>2, Writes
  <2>2. PICK n \in Attack : n = report[d].i /\ Create(n, e)
    BY <2>1, CurrentOK DEF Writing, Working
  <2>3. Rows(n)' = Rows(n) \cup {e} /\ \A j \in Attack : j # n => Rows(j)' = Rows(j)
    BY <2>2, Created
  <2>4. \A f \in Rows(n) \cup {e} : SecondsInSQL(f.ttl) \in Nat
    <3>2. \A f \in EventSet : SecondsInSQL(f.ttl) \in Nat
      BY SecondsOK DEF EventSet
    <3>3. security_events[n] \in Seq(EventSet)
      BY DEF TypeInv
    <3>4. Rows(n) \subseteq EventSet
      BY <3>3 DEF Rows
    <3>. QED  BY <3>2, <3>4
  <2>6. SUFFICES ASSUME NEW j \in Attack, NEW ip \in Source, Blocks(j, ip)' # {}
                 PROVE  \E x \in Blocks(j, ip)' : \A f \in Blocks(j, ip)' : SecondsInSQL(f.ttl) <= SecondsInSQL(x.ttl)
    BY DEF Longest, BlockedIPs
  <2>7. CASE j # n
    <3>1. Rows(j)' = Rows(j)
      BY <2>3, <2>7
    <3>2. Blocks(j, ip)' = Blocks(j, ip)
      BY <3>1 DEF Blocks
    <3>. QED  BY <2>6, <3>2 DEF Longest, BlockedIPs
  <2>8. CASE j = n
    <3>1. \/ Blocks(j, ip)' = Blocks(j, ip)
          \/ Blocks(j, ip)' = Blocks(j, ip) \cup {e}
      <4>1. Rows(j)' = Rows(j) \cup {e}
        BY <2>3, <2>8
      <4>2. Blocks(j, ip)' = {f \in Rows(j) \cup {e} : f.data = "block" /\ f.ip = ip}
        BY <4>1 DEF Blocks
      <4>. QED  BY <4>2 DEF Blocks
    <3>2. \A f \in Blocks(j, ip) \cup {e} : SecondsInSQL(f.ttl) \in Nat
      BY <2>4, <2>8 DEF Blocks
    <3>3. Blocks(j, ip) # {} => \E x \in Blocks(j, ip) : \A f \in Blocks(j, ip) : SecondsInSQL(f.ttl) <= SecondsInSQL(x.ttl)
      BY DEF Longest, BlockedIPs
    <3>4. CASE Blocks(j, ip)' = Blocks(j, ip)
      BY <2>6, <3>3, <3>4
    <3>5. CASE Blocks(j, ip)' = Blocks(j, ip) \cup {e} /\ Blocks(j, ip) = {}
      BY <3>2, <3>5
    <3>6. CASE Blocks(j, ip)' = Blocks(j, ip) \cup {e} /\ Blocks(j, ip) # {}
      <4>1. PICK x \in Blocks(j, ip) : \A f \in Blocks(j, ip) : SecondsInSQL(f.ttl) <= SecondsInSQL(x.ttl)
        BY <3>3, <3>6
      <4>2. CASE SecondsInSQL(e.ttl) <= SecondsInSQL(x.ttl)
        BY <3>6, <4>1, <4>2
      <4>3. CASE ~(SecondsInSQL(e.ttl) <= SecondsInSQL(x.ttl))
        <5>1. \A f \in Blocks(j, ip) \cup {e} : SecondsInSQL(f.ttl) <= SecondsInSQL(e.ttl)
          BY <3>2, <4>1, <4>3
        <5>. QED  BY <3>6, <5>1
      <4>. QED  BY <4>2, <4>3
    <3>. QED  BY <3>1, <3>4, <3>5, <3>6
  <2>. QED  BY <2>7, <2>8
<1>3. ASSUME NEW d \in Delivery, NEW i \in Attack, NEW body, Sending(d, i, body)
      PROVE  UNCHANGED security_events
  BY <1>3 DEF Sending, tables
<1>4. PassTime \/ UNCHANGED iVars \/ RestartPanel => UNCHANGED security_events
  BY DEF PassTime, iVars, RestartPanel, tables
<1>5. ASSUME NEW i \in Attack, Begin(i) \/ Grow(i) \/ End(i)
      PROVE  UNCHANGED security_events
  BY <1>5 DEF Begin, Grow, End, tables
<1>. QED  BY <1>1, <1>2, <1>3, <1>4, <1>5, Kinds, Stores, HandlerSteps, ConsoleSteps

\* The longest of a source's times covers that of its newest block.
LEMMA LongestCounts ==
    ASSUME TypeInv, Longest
    PROVE  MarkedIsCounted
<1>. SUFFICES ASSUME NEW i \in Attack, NEW ip \in ShownActive(i),
                     \A e \in NewestBlocks(i, ip) : ~ReadShorter(e) /\ ~Outdone(i, e)
              PROVE  ip \in ActiveIPs(i)
  BY DEF MarkedIsCounted
<1>. DEFINE B == Blocks(i, ip)
            n == NewestBlock(B)
            x == CHOOSE e \in B : \A f \in B : SecondsInSQL(f.ttl) <= SecondsInSQL(e.ttl)
<1>1. ip \in BlockedIPs(i) /\ ip \in Source
  BY DEF ShownActive, BlockedIPs
<1>2. PICK e \in NewestBlocks(i, ip) : e.at + Lasts(SecondsInGo(e.ttl)) > time
  BY DEF ShownActive
<1>3. e \in B /\ e.at = n.at /\ e.ip = ip
  BY <1>2 DEF NewestBlocks, Blocks
<1>4. x \in B /\ SecondsInSQL(e.ttl) <= SecondsInSQL(x.ttl)
  BY <1>1, <1>3 DEF Longest
<1>5. /\ \A f \in B : SecondsInSQL(f.ttl) \in Nat /\ SecondsInGo(f.ttl) \in Nat /\ f.at \in Nat
      /\ DefaultTTL \in Nat /\ time \in Nat
  <2>1. \A f \in EventSet : f.ttl \in TTLs \cup {NoTTL} /\ f.at \in Nat
    BY DEF EventSet
  <2>2. security_events[i] \in Seq(EventSet)
    BY DEF TypeInv
  <2>3. B \subseteq EventSet
    BY <2>2 DEF Blocks, Rows
  <2>. QED  BY <2>1, <2>3, SecondsOK, TimeAssumption DEF TypeInv
<1>6. ~(SecondsInSQL(e.ttl) = 0 /\ SecondsInSQL(x.ttl) \in 1 .. DefaultTTL - 1)
  BY <1>2, <1>3, <1>4 DEF Outdone
<1>7. ~(Lasts(SecondsInSQL(e.ttl)) < Lasts(SecondsInGo(e.ttl)))
  BY <1>2 DEF ReadShorter
<1>. HIDE DEF B, n, x
<1>8. PICK a \in Nat, b \in Nat, g \in Nat, at \in Nat :
         /\ a = SecondsInSQL(e.ttl) /\ b = SecondsInSQL(x.ttl) /\ g = SecondsInGo(e.ttl)
         /\ at = e.at
  BY <1>3, <1>4, <1>5
<1>9. at + Lasts(b) > time
  BY <1>2, <1>4, <1>5, <1>6, <1>7, <1>8 DEF Lasts
<1>. QED  BY <1>1, <1>3, <1>8, <1>9 DEF ActiveIPs, B, n, x

\* However reports of blocks arrive and whatever ttl texts they carry, a source that the console
\* marks as active is one that the count of active sources has, unless the SQL of the count reads
\* a shorter time in its newest block, or that block has none and meets a shorter one.
THEOREM MarkedIsCountedHolds == IncidentSpec => []MarkedIsCounted
  BY TypeInit, TypeStep, LongestInit, LongestStep, LongestCounts, PTL DEF IncidentSpec

-----------------------------------------------------------------------------
(* One delivery at a time: the invariant holds. *)

OneDelivery == \A c, d \in Delivery : c = d
Pending == {"period", "start", "stop"}

\* A handler's step, as far as its body goes.
Keeps(q, r) ==
    \/ q.pc = "idle"
    \/ /\ r.pc # "idle" /\ q.i = r.i /\ q.body = r.body
       /\ Working(q) => Working(r)
       /\ q.pc \in Pending => q.k = r.k

LEMMA NextKeeps ==
    ASSUME NEW r, ReportOK(r), Working(r)
    PROVE  Keeps(Next1(r), r)
  BY NextReport DEF Keeps, Working, Pending

\* What a handler that looks for events goes on to do.
LEMMA Looks ==
    ASSUME TypeInv, NEW d \in Delivery, ReadPeriod(d)
    PROVE  LET r == report[d]  q == report'[d] IN
           /\ r.pc = "period" /\ Keeps(q, r)
           /\ q.pc = "start" => ~Reported(r.i, "attack_start")
                                /\ q.hasStop = Reported(r.i, "attack_stop")
           /\ q.pc = "stop" => /\ Reported(r.i, "attack_start") /\ ~Reported(r.i, "attack_stop")
                               /\ r.body[r.k].data = "attack_stop"
           /\ q.pc \in {"start", "stop", "store", "answer"}
<1>. DEFINE i == report[d].i
            r == [report[d] EXCEPT !.hasStart = Reported(i, "attack_start"),
                                   !.hasStop = Reported(i, "attack_stop")]
<1>1. ReportOK(report[d]) /\ report[d].pc = "period" /\ report[d] \in ReportSet
  BY DEF TypeInv, ReadPeriod, At, ReportOK
<1>2. Reported(i, "attack_start") \in BOOLEAN /\ Reported(i, "attack_stop") \in BOOLEAN
  BY DEF Reported
<1>3. r \in ReportSet /\ r.pc = "period" /\ r.i = i /\ r.body = report[d].body
      /\ r.k = report[d].k /\ r.hasStart = Reported(i, "attack_start")
      /\ r.hasStop = Reported(i, "attack_stop")
  BY <1>1, <1>2 DEF ReportSet
<1>4. report'[d] = IF NeedStart(r) THEN [r EXCEPT !.pc = "start"]
                   ELSE IF NeedStop(r) THEN [r EXCEPT !.pc = "stop"]
                   ELSE Next1(r)
  BY DEF ReadPeriod, TypeInv
<1>5. i = report[d].i
  OBVIOUS
<1>. HIDE DEF r, i
<1>6. ReportOK(r) /\ Working(r) /\ Working(report[d])
  BY <1>1, <1>3, <1>5 DEF ReportOK, Working
<1>7. \A pc \in {"start", "stop"} : LET q == [r EXCEPT !.pc = pc] IN
         /\ q.pc = pc /\ q.i = r.i /\ q.body = r.body /\ q.k = r.k /\ q.hasStop = r.hasStop
  BY <1>3 DEF ReportSet
<1>8. CASE NeedStart(r)
  BY <1>1, <1>3, <1>4, <1>5, <1>6, <1>7, <1>8 DEF NeedStart, Keeps
<1>9. CASE ~NeedStart(r) /\ NeedStop(r)
  BY <1>1, <1>3, <1>4, <1>5, <1>6, <1>7, <1>9 DEF NeedStart, NeedStop, Keeps
<1>10. CASE ~NeedStart(r) /\ ~NeedStop(r)
  <2>1. report'[d] = Next1(r)
    BY <1>4, <1>10
  <2>. QED  BY <1>1, <1>3, <1>5, <1>6, <2>1, NextReport DEF Keeps, Pending
<1>. QED  BY <1>8, <1>9, <1>10

\* What any step of a handler does to its report.
LEMMA Goes ==
    ASSUME TypeInv, NEW d \in Delivery,
           \/ StoreIncident(d) \/ WriteStart(d) \/ WriteStop(d) \/ StoreEvent(d)
           \/ ReadPeriod(d) \/ StoreBlock(d) \/ Answer(d) \/ Refuse(d) \/ GiveUp(d)
    PROVE  Keeps(report'[d], report[d])
<1>. DEFINE r == report[d]
<1>1. ReportOK(r) /\ (r.pc # "idle" => r \in ReportSet)
  BY DEF TypeInv, ReportOK
<1>2. IdleReport.pc = "idle" /\ Keeps(IdleReport, r)
  BY DEF IdleReport, Keeps
<1>3. \A pc \in {"period", "event", "stop"} :
         Working(r) => Keeps([r EXCEPT !.pc = pc], r)
  BY <1>1 DEF Keeps, Working, ReportOK, ReportSet
<1>4. CASE StoreIncident(d)
  BY <1>2, <1>3, <1>4, Stores DEF Working
<1>5. CASE WriteStart(d) \/ WriteStop(d) \/ StoreEvent(d)
  <2>1. Working(r)
    BY <1>5 DEF WriteStart, WriteStop, StoreEvent, At, Working
  <2>. QED  BY <1>1, <1>2, <1>3, <1>5, <2>1, Writes, NextKeeps
<1>6. CASE ReadPeriod(d)
  BY <1>6, Looks
<1>7. CASE StoreBlock(d)
  <2>1. Working(r) /\ Continue(d, [r EXCEPT !.pc = "event"])
    BY <1>7 DEF StoreBlock, At, Working
  <2>2. report'[d] \in {[r EXCEPT !.pc = "event"], IdleReport}
    BY <2>1 DEF Continue, TypeInv
  <2>. QED  BY <1>2, <1>3, <2>1, <2>2
<1>8. CASE Answer(d) \/ Refuse(d)
  <2>1. report'[d] = IdleReport
    BY <1>8 DEF Answer, Refuse, TypeInv
  <2>. QED  BY <1>2, <2>1
<1>9. CASE GiveUp(d)
  <2>1. report'[d] = [r EXCEPT !.waiting = FALSE] /\ r.pc # "idle"
    BY <1>9 DEF GiveUp, TypeInv
  <2>. QED  BY <1>1, <2>1 DEF Keeps, Working, ReportSet
<1>. QED  BY <1>4, <1>5, <1>6, <1>7, <1>8, <1>9

LEMMA KeepsWritten ==
    ASSUME UNCHANGED edge, NEW d \in Delivery, Written(report[d]), Keeps(report'[d], report[d])
    PROVE  Written(report[d])'
  BY DEF Written, Keeps, Taken

\* What holds of the events holds as long as none is written.
LEMMA SameEvents ==
    ASSUME UNCHANGED security_events, NEW i
    PROVE  /\ \A data : Reported(i, data)' = Reported(i, data)
           /\ OnceOnly(i)' = OnceOnly(i)
  BY DEF Reported, OnceOnly, Rows

\* A handler has nothing more in store for an incident than before.
NoNews(d, i) ==
    /\ Working(report[d]') /\ report[d]'.i = i /\ edge[i].over =>
           \/ report[d]'.body[1].over
           \/ Working(report[d]) /\ report[d].i = i /\ report[d]'.body = report[d].body
    /\ Storing(report[d]', i) => Storing(report[d], i)

LEMMA SameReport ==
    ASSUME UNCHANGED <<edge, security_events>>, NEW d, report'[d] = report[d],
           Written(report[d]), Looked(report[d])
    PROVE  Written(report[d])' /\ Looked(report[d])' /\ \A i : NoNews(d, i)
<1>1. Written(report[d])'
  BY DEF Written, Taken
<1>2. \A i, data : Reported(i, data)' = Reported(i, data)
  BY DEF Reported, Rows
<1>3. Looked(report[d])'
  BY <1>2 DEF Looked
<1>4. \A i : NoNews(d, i)
  BY DEF NoNews
<1>. QED  BY <1>1, <1>3, <1>4

LiveInv ==
    \A c \in Console : console[c].pc = "live" =>
        Taken(console[c].i, console[c].v, console[c].over)

\* Steps that change neither an incident nor what is stored of it.
LEMMA Quiet ==
    ASSUME IncInv, TypeInv', UNCHANGED <<edge, l7_attacks, security_events>>,
           \A i \in Attack : unsent'[i] \subseteq unsent[i],
           \A d \in Delivery : /\ Written(report[d])' /\ Looked(report[d])'
                               /\ \A i \in Attack : NoNews(d, i),
           LiveInv'
    PROVE  IncInv'
<1>1. EdgeInv'
  BY DEF IncInv, EdgeInv
<1>2. ASSUME NEW i \in Attack, edge[i].layer = "L7"
      PROVE  (OnceOnly(i) /\ FinalInv(i))'
  <2>1. OnceOnly(i) /\ FinalInv(i)
    BY <1>2 DEF IncInv
  <2>2. OnceOnly(i)' /\ Reported(i, "attack_stop")' = Reported(i, "attack_stop")
    BY <2>1, SameEvents
  <2>3. Done(i)' = Done(i)
    BY DEF Done
  <2>4. \A d \in Delivery : NoNews(d, i)
    OBVIOUS
  <2>5. FinalInv(i)'
    BY <2>1, <2>2, <2>3, <2>4 DEF FinalInv, NoNews
  <2>. QED  BY <2>2, <2>5
<1>. QED  BY <1>1, <1>2 DEF IncInv, LiveInv

LEMMA IncInit == IncidentInit => IncInv
<1>. SUFFICES ASSUME IncidentInit PROVE IncInv
  OBVIOUS
<1>1. \A i \in Attack : /\ edge[i].over = FALSE /\ l7_attacks[i] = {} /\ unsent[i] = {}
                        /\ security_events[i] = <<>> /\ Rows(i) = {}
  <2>1. \A e \in {[layer |-> l, v |-> 0, began |-> 0, over |-> FALSE] : l \in {"L4", "L7"}} :
           e.over = FALSE
    OBVIOUS
  <2>. QED  BY <2>1 DEF IncidentInit, Rows
<1>2. \A d \in Delivery : report[d].pc = "idle"
  BY DEF IncidentInit, IdleReport
<1>3. \A c \in Console : console[c].pc = "idle"
  BY DEF IncidentInit, IdleConsole
<1>4. EdgeInv
  BY <1>1 DEF EdgeInv
<1>5. \A i \in Attack : OnceOnly(i) /\ FinalInv(i)
  BY <1>1, <1>2 DEF OnceOnly, FinalInv, Reported, Storing
<1>. QED  BY <1>2, <1>3, <1>4, <1>5, TypeInit DEF IncInv, Written, Looked

\* Time passes, or the panel starts again.
LEMMA IdleSteps ==
    ASSUME IncInv, PassTime \/ UNCHANGED iVars \/ RestartPanel
    PROVE  IncInv'
<1>1. CASE PassTime \/ UNCHANGED iVars
  <2>1. TypeInv' /\ UNCHANGED <<edge, unsent, tables, report, console>>
    BY <1>1, TimeStep DEF IncInv
  <2>2. \A d \in Delivery : report'[d] = report[d] /\ Written(report[d]) /\ Looked(report[d])
    BY <2>1 DEF IncInv
  <2>3. \A d \in Delivery : Written(report[d])' /\ Looked(report[d])' /\ \A i : NoNews(d, i)
    BY <2>1, <2>2, SameReport DEF tables
  <2>4. LiveInv'
    BY <2>1 DEF IncInv, LiveInv, Taken
  <2>. QED  BY <2>1, <2>3, <2>4, Quiet DEF tables
<1>2. CASE RestartPanel
  <2>1. /\ TypeInv' /\ UNCHANGED <<edge, unsent, tables>>
        /\ \A d \in Delivery : report'[d].pc = "idle"
    BY <1>2, RestartStep DEF IncInv, RestartPanel
  <2>2. \A c \in Console : console'[c].pc = "idle"
    BY <1>2 DEF RestartPanel, IdleConsole
  <2>3. \A d \in Delivery : Written(report[d])' /\ Looked(report[d])'
    BY <2>1 DEF Written, Looked
  <2>4. \A d \in Delivery, i \in Attack : NoNews(d, i)
    BY <2>1 DEF NoNews, Working, Storing
  <2>5. LiveInv'
    BY <2>2 DEF LiveInv
  <2>. QED  BY <2>1, <2>3, <2>4, <2>5, Quiet DEF tables
<1>. QED  BY <1>1, <1>2

\* A body is sent.
LEMMA SendKeeps ==
    ASSUME IncInv, NEW d \in Delivery, NEW i \in Attack, NEW body, Sending(d, i, body)
    PROVE  IncInv'
<1>1. TypeInv /\ TypeInv'
  BY SendSteps DEF IncInv
<1>2. UNCHANGED <<edge, unsent, l7_attacks, security_events, console>>
  BY DEF Sending, tables
<1>3. /\ \A x \in Delivery : x # d => report'[x] = report[x]
      /\ report'[d].pc = "store" /\ report'[d].i = i /\ report'[d].body = body
      /\ body \in Seq(PayloadSet) /\ Len(body) >= 1
  <2>. DEFINE r == [IdleReport EXCEPT !.pc = "store", !.i = i, !.body = body, !.waiting = TRUE]
  <2>1. body \in Seq(PayloadSet) /\ Len(body) >= 1 /\ report' = [report EXCEPT ![d] = r]
    BY DEF Sending
  <2>2. r.pc = "store" /\ r.i = i /\ r.body = body
    BY <2>1, SentReportOK, ZenonT(60)
  <2>. HIDE DEF r
  <2>. QED  BY <1>1, <2>1, <2>2 DEF TypeInv
<1>4. 1 \in DOMAIN body /\ edge[i] \in EdgeSet /\ ("attack_stop" \in unsent[i] => edge[i].over)
  BY <1>1, <1>3 DEF TypeInv, IncInv, EdgeInv
<1>5. \A k \in DOMAIN body :
         /\ Taken(i, body[k].v, body[k].over) /\ body[k].over = edge[i].over
         /\ body[k].data = "attack_stop" => edge[i].over
  BY <1>4 DEF Sending, Taken, EdgeSet
<1>6. Written(report[d])' /\ Looked(report[d])'
  BY <1>2, <1>3, <1>4, <1>5 DEF Written, Looked, Taken
<1>7. ASSUME NEW x \in Delivery, x # d
      PROVE  Written(report[x])' /\ Looked(report[x])'
  <2>1. report'[x] = report[x] /\ Written(report[x]) /\ Looked(report[x])
    BY <1>3, <1>7 DEF IncInv
  <2>. QED  BY <1>2, <2>1, SameReport
<1>8. \A j \in Attack : NoNews(d, j)
  BY <1>3, <1>4, <1>5 DEF NoNews, Storing
<1>9. \A x \in Delivery \ {d}, j \in Attack : NoNews(x, j)
  BY <1>3 DEF NoNews
<1>10. LiveInv'
  BY <1>2 DEF IncInv, LiveInv, Taken
<1>. QED  BY <1>1, <1>2, <1>6, <1>7, <1>8, <1>9, <1>10, Quiet

\* A handler looks for events, answers, breaks off or is given up.
LEMMA HandleKeeps ==
    ASSUME IncInv, NEW d \in Delivery,
           ReadPeriod(d) \/ StoreBlock(d) \/ Answer(d) \/ Refuse(d) \/ GiveUp(d)
    PROVE  IncInv'
<1>1. /\ TypeInv /\ TypeInv' /\ UNCHANGED <<edge, l7_attacks, security_events, console>>
      /\ \A i \in Attack : unsent'[i] \subseteq unsent[i]
      /\ \A x \in Delivery : x # d => report'[x] = report[x]
  BY HandlerSteps DEF IncInv
<1>2. Keeps(report'[d], report[d]) /\ Written(report[d]) /\ Looked(report[d])
  BY <1>1, Goes DEF IncInv
<1>3. Written(report[d])'
  BY <1>1, <1>2, KeepsWritten
<1>4. /\ Looked(report[d])'
      /\ report'[d].pc \in Pending => report[d].pc \in Pending
  <2>1. CASE ReadPeriod(d)
    <3>1. \A i, data : Reported(i, data)' = Reported(i, data)
      BY <1>1, SameEvents
    <3>. QED  BY <1>1, <1>2, <2>1, <3>1, Looks DEF Looked, Keeps, Pending
  <2>2. CASE StoreBlock(d)
    <3>1. report[d].pc = "store" /\ edge[report[d].i].layer = "L4"
      BY <2>2 DEF StoreBlock, At
    <3>2. report'[d] \in {[report[d] EXCEPT !.pc = "event"], IdleReport}
      BY <1>1, <2>2 DEF StoreBlock, Continue, TypeInv
    <3>3. report[d] \in ReportSet
      BY <1>1 DEF TypeInv, ReportOK
    <3>4. report'[d].pc \in {"event", "idle"}
      BY <3>2, <3>3 DEF IdleReport, ReportSet
    <3>. QED  BY <1>1, <1>2, <3>1, <3>4 DEF Looked, Keeps, Pending
  <2>3. CASE Answer(d) \/ Refuse(d)
    <3>1. report'[d].pc = "idle"
      BY <1>1, <2>3 DEF Answer, Refuse, TypeInv, IdleReport
    <3>. QED  BY <3>1 DEF Looked, Pending
  <2>4. CASE GiveUp(d)
    <3>1. report'[d] = [report[d] EXCEPT !.waiting = FALSE] /\ report[d] \in ReportSet
      BY <1>1, <2>4 DEF GiveUp, TypeInv, ReportOK
    <3>2. /\ report'[d].pc = report[d].pc /\ report'[d].i = report[d].i /\ report'[d].k = report[d].k
          /\ report'[d].body = report[d].body /\ report'[d].hasStop = report[d].hasStop
      BY <3>1 DEF ReportSet
    <3>3. \A i, data : Reported(i, data)' = Reported(i, data)
      BY <1>1, SameEvents
    <3>. QED  BY <1>1, <1>2, <3>2, <3>3 DEF Looked
  <2>. QED  BY <2>1, <2>2, <2>3, <2>4
<1>5. \A i \in Attack : NoNews(d, i)
  BY <1>2, <1>4 DEF NoNews, Keeps, Storing, Working, Pending
<1>6. ASSUME NEW x \in Delivery, x # d
      PROVE  /\ Written(report[x])' /\ Looked(report[x])'
             /\ \A i \in Attack : NoNews(x, i)
  <2>1. report'[x] = report[x] /\ Written(report[x]) /\ Looked(report[x])
    BY <1>1, <1>6 DEF IncInv
  <2>. QED  BY <1>1, <2>1, SameReport
<1>7. LiveInv'
  BY <1>1 DEF IncInv, LiveInv, Taken
<1>. QED  BY <1>1, <1>3, <1>4, <1>5, <1>6, <1>7, Quiet

\* An incident begins, grows or ends on its edge.
LEMMA EdgeKeeps ==
    ASSUME IncInv, NEW i \in Attack, Begin(i) \/ Grow(i) \/ End(i)
    PROVE  IncInv'
<1>1. TypeInv /\ TypeInv' /\ UNCHANGED <<l7_attacks, security_events, report, console>>
  BY EdgeSteps DEF IncInv, Begin, Grow, End, tables
<1>2. /\ edge[i] \in EdgeSet /\ ~edge[i].over /\ edge'[i].layer = edge[i].layer
      /\ edge'[i].v = edge[i].v + 1
      /\ End(i) => edge'[i].over
      /\ \A j \in Attack : j # i => edge'[j] = edge[j]
  <2>1. edge[i] \in EdgeSet /\ (edge[i].over => edge[i].v >= 1)
    BY <1>1 DEF TypeInv, IncInv, EdgeInv
  <2>2. CASE Begin(i)
    <3>1. edge' = [edge EXCEPT ![i] = [edge[i] EXCEPT !.v = 1, !.began = time]] /\ edge[i].v = 0
      BY <1>1, <2>2 DEF Begin, TypeInv
    <3>2. ~End(i)
      BY <3>1 DEF End
    <3>. QED  BY <1>1, <2>1, <3>1, <3>2 DEF TypeInv, EdgeSet
  <2>3. CASE Grow(i)
    <3>1. edge' = [edge EXCEPT ![i] = [edge[i] EXCEPT !.v = edge[i].v + 1]] /\ ~edge[i].over
      BY <1>1, <2>3 DEF Grow, TypeInv
    <3>2. End(i) => edge'[i].over
      BY <1>1 DEF End, TypeInv, EdgeSet
    <3>. QED  BY <1>1, <2>1, <3>1, <3>2 DEF TypeInv, EdgeSet
  <2>4. CASE End(i)
    <3>1. edge' = [edge EXCEPT ![i] = [edge[i] EXCEPT !.v = edge[i].v + 1, !.over = TRUE]]
          /\ ~edge[i].over
      BY <1>1, <2>4 DEF End, TypeInv
    <3>. QED  BY <1>1, <2>1, <2>4, <3>1 DEF TypeInv, EdgeSet
  <2>. QED  BY <2>2, <2>3, <2>4
<1>3. ASSUME NEW j, NEW v, NEW over, j \in Attack, v \in Nat, over \in BOOLEAN, Taken(j, v, over)
      PROVE  Taken(j, v, over)'
  BY <1>2, <1>3 DEF Taken, EdgeSet
<1>4. EdgeInv'
  <2>1. ASSUME NEW j \in Attack
        PROVE  /\ edge'[j].over => edge'[j].v >= 1
               /\ "attack_stop" \in unsent'[j] => edge'[j].over
               /\ \A x \in l7_attacks'[j] : x.peak <= edge'[j].v
    <3>1. /\ edge[j].over => edge[j].v >= 1
          /\ "attack_stop" \in unsent[j] => edge[j].over
          /\ \A x \in l7_attacks[j] : x.peak <= edge[j].v /\ x.peak \in Nat
      BY <1>1 DEF IncInv, EdgeInv, TypeInv, StoredSet
    <3>2. CASE j # i
      <4>1. edge'[j] = edge[j] /\ unsent'[j] = unsent[j]
        BY <1>1, <1>2, <3>2 DEF Begin, Grow, End, TypeInv
      <4>. QED  BY <1>1, <3>1, <4>1
    <3>3. CASE j = i
      <4>1. edge'[i].v >= 1 /\ \A x \in l7_attacks'[j] : x.peak <= edge'[j].v
        BY <1>1, <1>2, <3>1, <3>3 DEF EdgeSet
      <4>2. "attack_stop" \in unsent'[i] => edge'[i].over
        <5>1. CASE Begin(i)
          BY <1>1, <5>1 DEF Begin, TypeInv
        <5>2. CASE Grow(i)
          BY <1>1, <1>2, <3>1, <3>3, <5>2 DEF Grow
        <5>3. CASE End(i)
          BY <1>2, <5>3
        <5>. QED  BY <5>1, <5>2, <5>3
      <4>. QED  BY <3>3, <4>1, <4>2
    <3>. QED  BY <3>2, <3>3
  <2>. QED  BY <2>1 DEF EdgeInv
<1>5. ASSUME NEW d \in Delivery
      PROVE  Written(report[d])' /\ Looked(report[d])'
  <2>1. /\ report'[d] = report[d] /\ ReportOK(report[d]) /\ Written(report[d])
        /\ Looked(report[d])
    BY <1>1 DEF IncInv, TypeInv
  <2>2. \A j, data : Reported(j, data)' = Reported(j, data)
    BY <1>1, SameEvents
  <2>3. \A j \in Attack : edge'[j].layer = edge[j].layer
    BY <1>2
  <2>4. Looked(report[d])'
    BY <2>1, <2>2, <2>3 DEF Looked, ReportOK
  <2>5. ASSUME report[d].pc # "idle", NEW k \in DOMAIN report[d].body
        PROVE  Taken(report[d].i, report[d].body[k].v, report[d].body[k].over)'
    <3>1. report[d].i \in Attack /\ report[d].body[k] \in PayloadSet
      BY <2>1, <2>5 DEF ReportOK, ReportSet
    <3>2. PICK j \in Attack, v \in Nat, over \in BOOLEAN :
              j = report[d].i /\ v = report[d].body[k].v /\ over = report[d].body[k].over
      BY <3>1 DEF PayloadSet
    <3>3. Taken(j, v, over)'
      BY <1>3, <2>1, <2>5, <3>2 DEF Written
    <3>. QED  BY <2>1, <3>2, <3>3 DEF Taken
  <2>6. Written(report[d])'
    BY <2>1, <2>5 DEF Written, Taken
  <2>. QED  BY <2>4, <2>6
<1>6. LiveInv'
  <2>1. SUFFICES ASSUME NEW c \in Console, console[c].pc = "live"
                 PROVE  Taken(console[c].i, console[c].v, console[c].over)'
    BY <1>1 DEF LiveInv, Taken
  <2>2. /\ console[c].i \in Attack /\ console[c].v \in Nat /\ console[c].over \in BOOLEAN
        /\ Taken(console[c].i, console[c].v, console[c].over)
    BY <1>1, <2>1 DEF IncInv, TypeInv, ConsoleOK, ConsoleSet
  <2>3. PICK j \in Attack, v \in Nat, over \in BOOLEAN :
            j = console[c].i /\ v = console[c].v /\ over = console[c].over
    BY <2>2
  <2>4. Taken(j, v, over)'
    BY <1>3, <2>2, <2>3
  <2>. QED  BY <1>1, <2>3, <2>4 DEF Taken
<1>7. ASSUME NEW j \in Attack, edge'[j].layer = "L7"
      PROVE  (OnceOnly(j) /\ FinalInv(j))'
  <2>1. edge[j].layer = "L7" /\ OnceOnly(j) /\ FinalInv(j)
    BY <1>2, <1>7 DEF IncInv
  <2>2. OnceOnly(j)' /\ Reported(j, "attack_stop")' = Reported(j, "attack_stop")
    BY <1>1, <2>1, SameEvents
  <2>3. \A d \in Delivery : Storing(report[d], j) => edge[j].over
    <3>1. ASSUME NEW d \in Delivery, Storing(report[d], j) PROVE edge[j].over
      <4>1. report[d].k \in DOMAIN report[d].body /\ report[d].i = j /\ report[d].pc # "idle"
        BY <1>1, <3>1, CurrentOK DEF Storing, Working
      <4>2. Written(report[d])
        BY DEF IncInv
      <4>. QED  BY <3>1, <4>1, <4>2 DEF Written, Storing, Taken
    <3>. QED  BY <3>1
  <2>4. CASE j = i
    <3>1. ~Reported(j, "attack_stop") /\ \A d \in Delivery : ~Storing(report[d], j)
      BY <1>2, <2>1, <2>3, <2>4 DEF FinalInv
    <3>. QED  BY <1>1, <2>2, <3>1 DEF FinalInv, Storing
  <2>5. CASE j # i
    <3>1. edge'[j] = edge[j]
      BY <1>2, <2>5
    <3>. QED  BY <1>1, <2>1, <2>2, <3>1 DEF FinalInv, Done
  <2>. QED  BY <2>4, <2>5
<1>. QED  BY <1>1, <1>4, <1>5, <1>6, <1>7 DEF IncInv, LiveInv

\* The peak only moves up, and not beyond what the edge has seen.
LEMMA Peaks ==
    ASSUME NEW S, NEW n \in Nat, \A y \in S : y.peak <= n /\ y.peak \in Nat, NEW v \in Nat, v <= n,
           NEW peak, S = {} => peak = v, S # {} => \E y \in S : peak = Larger(y.peak, v)
    PROVE  /\ peak <= n /\ (v = n => peak = n)
           /\ \A y \in S : S = {y} /\ y.peak = n => peak = n
<1>1. CASE S = {}
  BY <1>1
<1>2. CASE S # {}
  <2>1. PICK y \in S : peak = Larger(y.peak, v)
    BY <1>2
  <2>2. PICK m \in Nat : m = y.peak /\ m <= n
    BY <2>1
  <2>3. peak = m \/ peak = v
    BY <2>1, <2>2 DEF Larger
  <2>4. m <= peak /\ v <= peak
    BY <2>1, <2>2 DEF Larger
  <2>5. peak <= n /\ (v = n => peak = n) /\ (m = n => peak = n)
    BY <2>2, <2>3, <2>4
  <2>. QED  BY <2>2, <2>5
<1>. QED  BY <1>1, <1>2

\* What is to be final is over on its edge.
LEMMA FinalIsOver ==
    ASSUME IncInv, NEW i \in Attack, edge[i].layer = "L7",
           Reported(i, "attack_stop") \/ \E d \in Delivery : Storing(report[d], i)
    PROVE  edge[i].over /\ Done(i)
<1>1. FinalInv(i) /\ TypeInv
  BY DEF IncInv
<1>2. ASSUME NEW d \in Delivery, Storing(report[d], i)
      PROVE  edge[i].over
  <2>1. report[d].k \in DOMAIN report[d].body /\ report[d].i = i /\ report[d].pc # "idle"
    BY <1>1, <1>2, CurrentOK DEF Storing, Working
  <2>2. Written(report[d])
    BY DEF IncInv
  <2>. QED  BY <1>2, <2>1, <2>2 DEF Written, Storing, Taken
<1>. QED  BY <1>1, <1>2 DEF FinalInv

\* An incident is stored by a report.
LEMMA StoreKeeps ==
    ASSUME IncInv, OneDelivery, NEW d \in Delivery, StoreIncident(d)
    PROVE  IncInv'
<1>. DEFINE r == report[d]
            q == report'[d]
<1>0. TypeInv /\ TypeInv' /\ \A x \in Delivery : x = d
  BY WriteSteps DEF IncInv, OneDelivery
<1>1. PICK i \in Attack, x \in StoredSet, p \in PayloadSet :
         /\ i = r.i /\ p = r.body[r.k] /\ r.k \in DOMAIN r.body
         /\ l7_attacks' = [l7_attacks EXCEPT ![i] = {x}]
         /\ x.v = p.v /\ x.data = p.data /\ x.status = StoredStatus(p.data, p.over)
         /\ l7_attacks[i] = {} => x.peak = p.v
         /\ l7_attacks[i] # {} => \E y \in l7_attacks[i] : x.peak = Larger(y.peak, p.v)
  BY <1>0, Stores
<1>2. /\ r.pc = "store" /\ edge[i].layer = "L7"
      /\ q \in {[r EXCEPT !.pc = "period"], IdleReport}
      /\ UNCHANGED <<edge, unsent, console, security_events>>
  BY <1>0, <1>1, Stores
<1>3. r \in ReportSet /\ p \in PayloadSet /\ edge[i] \in EdgeSet /\ Written(r)
  BY <1>0, <1>1, <1>2, CurrentOK DEF TypeInv, ReportOK, IncInv, Working
<1>4. Taken(i, p.v, p.over) /\ p.over = r.body[1].over /\ (p.data = "attack_stop" => p.over)
  BY <1>1, <1>2, <1>3 DEF Written
<1>5. \/ q.pc = "idle"
      \/ q.pc = "period" /\ q.i = i /\ q.body = r.body /\ q.k = r.k
  BY <1>1, <1>2, <1>3 DEF ReportSet, IdleReport
<1>. HIDE DEF r, q
<1>6. p.v \in Nat /\ p.over \in BOOLEAN /\ edge[i].v \in Nat /\ edge[i].over \in BOOLEAN /\ x.peak \in Nat
  BY <1>3 DEF PayloadSet, EdgeSet, StoredSet
<1>7. \A y \in l7_attacks[i] : y.peak <= edge[i].v /\ y.peak \in Nat
  BY <1>0 DEF IncInv, EdgeInv, TypeInv, StoredSet
<1>8. x.peak <= edge[i].v /\ (p.v = edge[i].v => x.peak = edge[i].v)
  <2>1. p.v <= edge[i].v
    BY <1>4 DEF Taken
  <2>2. PICK S \in SUBSET StoredSet, n \in Nat, v \in Nat, peak \in Nat :
            S = l7_attacks[i] /\ n = edge[i].v /\ v = p.v /\ peak = x.peak
    BY <1>0, <1>6 DEF TypeInv
  <2>3. /\ \A y \in S : y.peak <= n /\ y.peak \in Nat
        /\ v <= n /\ (S = {} => peak = v) /\ (S # {} => \E y \in S : peak = Larger(y.peak, v))
    BY <1>1, <1>7, <2>1, <2>2
  <2>4. /\ peak <= n /\ (v = n => peak = n)
        /\ \A y \in S : S = {y} /\ y.peak = n => peak = n
    BY <2>3, Peaks
  <2>. QED  BY <2>2, <2>4
<1>9. p.over => x.peak = edge[i].v /\ x.status = "ended"
  BY <1>1, <1>4, <1>8 DEF Taken, StoredStatus
<1>10. /\ l7_attacks'[i] = {x}
       /\ \A j \in Attack : j # i => l7_attacks'[j] = l7_attacks[j]
  BY <1>0, <1>1 DEF TypeInv
<1>11. p.over => Done(i)'
  BY <1>2, <1>9, <1>10 DEF Done
<1>12. EdgeInv'
  <2>1. \A j \in Attack : /\ edge[j].over => edge[j].v >= 1
                          /\ "attack_stop" \in unsent[j] => edge[j].over
                          /\ \A y \in l7_attacks'[j] : y.peak <= edge[j].v
    BY <1>8, <1>10 DEF IncInv, EdgeInv
  <2>. QED  BY <1>2, <2>1 DEF EdgeInv
<1>13. Written(report[d])'
  BY <1>0, <1>2, Goes, KeepsWritten DEF IncInv
<1>14. Looked(report[d])'
  BY <1>2, <1>5 DEF Looked, q
<1>15. LiveInv'
  BY <1>2 DEF IncInv, LiveInv, Taken
<1>16. ASSUME NEW j \in Attack, edge[j].layer = "L7"
       PROVE  (OnceOnly(j) /\ FinalInv(j))'
  <2>1. OnceOnly(j) /\ FinalInv(j)
    BY <1>16 DEF IncInv
  <2>2. OnceOnly(j)' /\ Reported(j, "attack_stop")' = Reported(j, "attack_stop")
    BY <1>2, <2>1, SameEvents
  <2>3. CASE j # i
    <3>1. Done(j)' = Done(j)
      BY <1>2, <1>10, <2>3 DEF Done
    <3>2. ~Storing(q, j) /\ ~(Working(q) /\ q.i = j)
      BY <1>5, <2>3 DEF Storing, Working
    <3>3. FinalInv(j)'
      BY <1>0, <1>2, <2>1, <2>2, <3>1, <3>2 DEF FinalInv, q
    <3>. QED  BY <2>2, <3>3
  <2>4. CASE j = i
    <3>1. Reported(i, "attack_stop") => edge[i].over /\ p.over
      BY <1>1, <1>2, <1>4, <2>1, <2>4 DEF FinalInv, Working, r
    <3>2. Working(q) => q.body[1].over = p.over
      BY <1>4, <1>5 DEF Working
    <3>3. Storing(q, i) => p.over
      BY <1>1, <1>4, <1>5 DEF Storing
    <3>4. FinalInv(i)'
      BY <1>0, <1>2, <1>11, <2>2, <2>4, <3>1, <3>2, <3>3 DEF FinalInv, q
    <3>. QED  BY <2>2, <2>4, <3>4
  <2>. QED  BY <2>3, <2>4
<1>. QED  BY <1>0, <1>2, <1>12, <1>13, <1>14, <1>15, <1>16 DEF IncInv, LiveInv

\* The attack console.
LEMMA ConsoleKeeps ==
    ASSUME IncInv, NEW c \in Console, ConsoleMove(c)
    PROVE  IncInv'
<1>. DEFINE r == console[c]
            data == IF r.over THEN "attack_stop" ELSE "attack_update"
<1>1. /\ TypeInv /\ TypeInv' /\ UNCHANGED <<edge, unsent, report, security_events>>
      /\ \A y \in Console : y # c => console'[y] = console[y]
      /\ console'[c].pc = "live" =>
            /\ console'[c].i \in Attack /\ console'[c].v = edge[console'[c].i].v
            /\ console'[c].over = edge[console'[c].i].over
  BY ConsoleSteps DEF IncInv
<1>2. LiveInv'
  <2>1. \A i \in Attack : edge[i] \in EdgeSet
    BY <1>1 DEF TypeInv
  <2>2. console'[c].pc = "live" => Taken(console'[c].i, console'[c].v, console'[c].over)
    BY <1>1, <2>1 DEF Taken, EdgeSet
  <2>3. \A y \in Console : console'[y].pc = "live" =>
            Taken(console'[y].i, console'[y].v, console'[y].over)
    BY <1>1, <2>2 DEF IncInv
  <2>. QED  BY <1>1, <2>3 DEF LiveInv, Taken
<1>3. \A d \in Delivery : /\ Written(report[d])' /\ Looked(report[d])'
                          /\ \A i : NoNews(d, i)
  <2>1. \A d \in Delivery : report'[d] = report[d] /\ Written(report[d]) /\ Looked(report[d])
    BY <1>1 DEF IncInv
  <2>. QED  BY <1>1, <2>1, SameReport
<1>4. CASE UNCHANGED l7_attacks
  BY <1>1, <1>2, <1>3, <1>4, Quiet
<1>5. CASE l7_attacks' # l7_attacks
  <2>1. PICK i \in Attack, x \in StoredSet :
          /\ r.pc = "live" /\ i = r.i
          /\ l7_attacks' = [l7_attacks EXCEPT ![i] = {x}]
          /\ x.v = r.v /\ x.data = data /\ x.status = StoredStatus(data, r.over)
          /\ l7_attacks[i] = {} => x.peak = r.v
          /\ l7_attacks[i] # {} => \E y \in l7_attacks[i] : x.peak = Larger(y.peak, r.v)
    BY <1>1, <1>5, ConsoleSteps
  <2>2. /\ Taken(i, r.v, r.over) /\ r.v \in Nat /\ r.over \in BOOLEAN
        /\ edge[i] \in EdgeSet /\ edge[i].v \in Nat /\ edge[i].over \in BOOLEAN
    BY <1>1, <2>1 DEF IncInv, TypeInv, ConsoleOK, ConsoleSet, EdgeSet
  <2>3. \A y \in l7_attacks[i] : y.peak <= edge[i].v /\ y.peak \in Nat
    BY <1>1 DEF IncInv, EdgeInv, TypeInv, StoredSet
  <2>. HIDE DEF r
  <2>4. /\ x.peak <= edge[i].v
        /\ \A y \in l7_attacks[i] : l7_attacks[i] = {y} /\ y.peak = edge[i].v => x.peak = edge[i].v
    <3>1. r.v <= edge[i].v
      BY <2>2 DEF Taken
    <3>2. PICK S \in SUBSET StoredSet, n \in Nat, v \in Nat, peak \in Nat :
              S = l7_attacks[i] /\ n = edge[i].v /\ v = r.v /\ peak = x.peak
      BY <1>1, <2>2 DEF TypeInv, StoredSet
    <3>3. /\ \A y \in S : y.peak <= n /\ y.peak \in Nat
          /\ v <= n /\ (S = {} => peak = v) /\ (S # {} => \E y \in S : peak = Larger(y.peak, v))
      BY <2>1, <2>3, <3>1, <3>2
    <3>4. peak <= n /\ \A y \in S : S = {y} /\ y.peak = n => peak = n
      BY <3>3, Peaks
    <3>. QED  BY <3>2, <3>4
  <2>5. /\ l7_attacks'[i] = {x}
        /\ \A j \in Attack : j # i => l7_attacks'[j] = l7_attacks[j]
    BY <1>1, <2>1 DEF TypeInv
  <2>6. EdgeInv'
    <3>1. \A j \in Attack : /\ edge[j].over => edge[j].v >= 1
                            /\ "attack_stop" \in unsent[j] => edge[j].over
                            /\ \A y \in l7_attacks'[j] : y.peak <= edge[j].v
      BY <2>4, <2>5 DEF IncInv, EdgeInv
    <3>. QED  BY <1>1, <3>1 DEF EdgeInv
  <2>7. edge[i].over /\ Done(i) => Done(i)'
    <3>1. SUFFICES ASSUME edge[i].over, Done(i) PROVE Done(i)'
      OBVIOUS
    <3>2. PICK y \in StoredSet : l7_attacks[i] = {y} /\ y.peak = edge[i].v
      BY <3>1 DEF Done
    <3>3. x.peak = edge[i].v
      BY <2>4, <3>2
    <3>4. x.status = "ended" \/ (x.data = "attack_update" /\ x.v < edge[i].v)
      BY <2>1, <2>2, <3>1 DEF Taken, StoredStatus
    <3>. QED  BY <1>1, <2>5, <3>3, <3>4 DEF Done
  <2>8. ASSUME NEW j \in Attack, edge[j].layer = "L7"
        PROVE  (OnceOnly(j) /\ FinalInv(j))'
    <3>1. OnceOnly(j) /\ FinalInv(j)
      BY <2>8 DEF IncInv
    <3>2. OnceOnly(j)' /\ Reported(j, "attack_stop")' = Reported(j, "attack_stop")
      BY <1>1, <3>1, SameEvents
    <3>3. edge[j].over /\ Done(j) => Done(j)'
      <4>1. CASE j = i
        BY <2>7, <4>1
      <4>2. CASE j # i
        BY <1>1, <2>5, <4>2 DEF Done
      <4>. QED  BY <4>1, <4>2
    <3>4. Reported(j, "attack_stop") \/ (\E d \in Delivery : Storing(report[d], j)) => Done(j)'
      BY <2>8, <3>3, FinalIsOver
    <3>5. FinalInv(j)'
      BY <1>1, <3>1, <3>2, <3>4 DEF FinalInv, Storing
    <3>. QED  BY <3>2, <3>5
  <2>. QED  BY <1>1, <1>2, <1>3, <2>6, <2>8 DEF IncInv, LiveInv
<1>. QED  BY <1>4, <1>5

\* An event is written.
LEMMA WriteKeeps ==
    ASSUME IncInv, OneDelivery, NEW d \in Delivery, WriteStart(d) \/ WriteStop(d) \/ StoreEvent(d)
    PROVE  IncInv'
<1>. DEFINE r == report[d]
            q == report'[d]
<1>1. TypeInv /\ TypeInv' /\ \A x \in Delivery : x = d
  BY WriteSteps DEF IncInv, OneDelivery
<1>2. PICK e \in EventSet, i \in Attack : Writing(d, e) /\ i = r.i /\ Create(i, e)
  BY <1>1, Writes, CurrentOK DEF Writing, Working
<1>3. /\ q \in {[r EXCEPT !.pc = "stop"], Next1(r), IdleReport}
      /\ q.pc = "stop" => r.pc = "start" /\ NeedStop(r)
      /\ UNCHANGED <<edge, unsent, console, l7_attacks>>
      /\ r \in ReportSet /\ ReportOK(r) /\ Working(r) /\ Written(r) /\ Looked(r)
      /\ Keeps(q, r)
  BY <1>1, <1>2, Writes, Goes DEF Writing, IncInv, TypeInv, ReportOK, Working
<1>4. q.pc \in {"idle", "store", "answer", "stop"}
  BY <1>3, NextReport DEF ReportSet, IdleReport
<1>5. /\ Rows(i)' = Rows(i) \cup {e}
      /\ \A j \in Attack : j # i => /\ Rows(j)' = Rows(j)
                                   /\ security_events'[j] = security_events[j]
      /\ DOMAIN security_events'[i] = DOMAIN security_events[i] \cup {Len(security_events[i]) + 1}
      /\ security_events'[i][Len(security_events[i]) + 1] = e
      /\ \A k \in DOMAIN security_events[i] : security_events'[i][k] = security_events[i][k]
  BY <1>1, <1>2, Created
<1>6. /\ \A data : Reported(i, data)' <=> Reported(i, data) \/ e.data = data
      /\ \A j \in Attack : j # i => \A data : Reported(j, data)' = Reported(j, data)
  BY <1>5 DEF Reported
<1>7. edge[i].layer = "L7" =>
         \/ /\ r.pc = "start" /\ e.data = "attack_start" /\ ~Reported(i, "attack_start")
            /\ r.hasStop = Reported(i, "attack_stop")
         \/ /\ r.pc = "stop" /\ e.data = "attack_stop" /\ Storing(r, i)
            /\ Reported(i, "attack_start") /\ ~Reported(i, "attack_stop")
  BY <1>2, <1>3 DEF Writing, Looked, Storing
<1>8. r.k \in DOMAIN r.body
  BY <1>1, <1>3, CurrentOK
<1>. HIDE DEF r, q
<1>9. EdgeInv'
  BY <1>3 DEF IncInv, EdgeInv
<1>10. Written(report[d])'
  BY <1>3, KeepsWritten DEF q, r
<1>11. Looked(report[d])'
  <2>1. CASE q.pc = "stop"
    <3>1. /\ r.pc = "start" /\ r.body[r.k].data = "attack_stop" /\ ~r.hasStop
          /\ q.i = i /\ q.body = r.body /\ q.k = r.k
      BY <1>2, <1>3, <2>1 DEF NeedStop, Keeps, Pending
    <3>2. edge[i].layer = "L7"
      BY <1>2, <1>3, <3>1 DEF Looked
    <3>3. Reported(i, "attack_start")' /\ ~Reported(i, "attack_stop")'
      BY <1>6, <1>7, <3>1, <3>2
    <3>. QED  BY <1>3, <2>1, <3>1, <3>2, <3>3 DEF Looked, q
  <2>2. CASE q.pc # "stop"
    BY <1>4, <2>2 DEF Looked, q
  <2>. QED  BY <2>1, <2>2
<1>12. LiveInv'
  BY <1>3 DEF IncInv, LiveInv, Taken
<1>13. \A j \in Attack : Done(j)' = Done(j)
  BY <1>3 DEF Done
<1>14. \A j \in Attack : (Storing(q, j) => Storing(r, j)) /\ (Working(q) /\ q.i = j => r.i = j)
  <2>1. q.pc = "stop" => r.pc = "start" /\ q.i = r.i /\ q.body = r.body /\ q.k = r.k
    BY <1>3 DEF Keeps, Pending
  <2>2. Working(q) => q.i = r.i
    BY <1>3 DEF Keeps, Working
  <2>. QED  BY <1>4, <2>1, <2>2 DEF Storing
<1>15. ASSUME NEW j \in Attack, edge[j].layer = "L7", j # i
       PROVE  (OnceOnly(j) /\ FinalInv(j))'
  <2>1. OnceOnly(j) /\ FinalInv(j)
    BY <1>15 DEF IncInv
  <2>2. OnceOnly(j)'
    BY <1>5, <1>6, <1>15, <2>1 DEF OnceOnly
  <2>3. ~(Working(q) /\ q.i = j) /\ ~Storing(q, j)
    BY <1>2, <1>14, <1>15 DEF Storing
  <2>4. FinalInv(j)'
    BY <1>1, <1>3, <1>6, <1>13, <1>15, <2>1, <2>3 DEF FinalInv, q
  <2>. QED  BY <2>2, <2>4
<1>16. ASSUME edge[i].layer = "L7"
       PROVE  (OnceOnly(i) /\ FinalInv(i))'
  <2>1. OnceOnly(i) /\ FinalInv(i)
    BY <1>16 DEF IncInv
  <2>2. ~Reported(i, e.data)
    BY <1>7, <1>16
  <2>3. \A k \in DOMAIN security_events[i] : security_events[i][k].data # e.data
    BY <2>2 DEF Reported, Rows
  <2>4. PICK n : n = Len(security_events[i]) + 1
    OBVIOUS
  <2>5. \A data \in {"attack_start", "attack_stop"} :
           \A k, l \in DOMAIN security_events'[i] :
              security_events'[i][k].data = data /\ security_events'[i][l].data = data => k = l
    <3>1. SUFFICES ASSUME NEW data \in {"attack_start", "attack_stop"},
                          NEW k \in DOMAIN security_events'[i], NEW l \in DOMAIN security_events'[i],
                          security_events'[i][k].data = data, security_events'[i][l].data = data
                   PROVE  k = l
      OBVIOUS
    <3>2. /\ k = n \/ (k \in DOMAIN security_events[i] /\ security_events[i][k].data = data)
          /\ l = n \/ (l \in DOMAIN security_events[i] /\ security_events[i][l].data = data)
          /\ security_events'[i][n] = e
      BY <1>5, <2>4, <3>1
    <3>3. CASE k = n \/ l = n
      <4>1. data = e.data
        BY <3>1, <3>2, <3>3
      <4>. QED  BY <2>3, <3>2, <4>1
    <3>4. CASE k # n /\ l # n
      BY <2>1, <3>2, <3>4 DEF OnceOnly
    <3>. QED  BY <3>3, <3>4
  <2>6. OnceOnly(i)'
    BY <1>6, <1>7, <1>16, <2>1, <2>5 DEF OnceOnly
  <2>7. Reported(i, "attack_stop")' \/ Storing(q, i) => Reported(i, "attack_stop") \/ Storing(r, i)
    BY <1>6, <1>7, <1>14, <1>16
  <2>8. Reported(i, "attack_stop")' \/ Storing(q, i) => edge[i].over /\ Done(i)
    BY <1>16, <2>7, FinalIsOver DEF r
  <2>9. Reported(i, "attack_stop")' /\ Working(q) => q.body[1].over
    <3>1. SUFFICES ASSUME Reported(i, "attack_stop")', Working(q) PROVE q.body[1].over
      OBVIOUS
    <3>2. q.body = r.body
      BY <1>3, <3>1 DEF Keeps, Working
    <3>3. CASE Reported(i, "attack_stop")
      BY <1>2, <1>3, <2>1, <3>2, <3>3 DEF FinalInv, r
    <3>4. CASE Storing(r, i)
      BY <1>3, <1>8, <3>2, <3>4 DEF Storing, Written
    <3>. QED  BY <2>7, <3>1, <3>3, <3>4
  <2>10. FinalInv(i)'
    BY <1>1, <1>3, <1>13, <2>8, <2>9 DEF FinalInv, q
  <2>. QED  BY <2>6, <2>10
<1>17. \A j \in Attack : edge'[j].layer = "L7" => (OnceOnly(j) /\ FinalInv(j))'
  BY <1>3, <1>15, <1>16
<1>. QED  BY <1>1, <1>9, <1>10, <1>11, <1>12, <1>17 DEF IncInv, LiveInv

LEMMA IncStep == OneDelivery /\ IncInv /\ [IncidentNext]_iVars => IncInv'
<1>. SUFFICES ASSUME OneDelivery, IncInv, [IncidentNext]_iVars PROVE IncInv'
  OBVIOUS
<1>1. TypeInv
  BY DEF IncInv
<1>. QED  BY <1>1, Kinds, IdleSteps, EdgeKeeps, SendKeeps, StoreKeeps, WriteKeeps, HandleKeeps, ConsoleKeeps

LEMMA AtMostOne ==
    ASSUME NEW S, \A k, l \in S : k = l
    PROVE  IsFiniteSet(S) /\ Cardinality(S) <= 1
<1>1. CASE S = {}
  BY <1>1, FS_EmptySet
<1>2. CASE S # {}
  <2>1. PICK k : S = {k}
    BY <1>2
  <2>. QED  BY <2>1, FS_Singleton
<1>. QED  BY <1>1, <1>2

LEMMA IncImplies == IncInv => OneStartOneStop /\ FinalFigures
<1>. SUFFICES ASSUME IncInv PROVE OneStartOneStop /\ FinalFigures
  OBVIOUS
<1>. DEFINE At1(i, data) == {k \in DOMAIN security_events[i] : security_events[i][k].data = data}
<1>1. ASSUME NEW i \in Attack, edge[i].layer = "L7"
      PROVE  /\ Cardinality(At1(i, "attack_start")) <= 1 /\ Cardinality(At1(i, "attack_stop")) <= 1
             /\ At1(i, "attack_stop") # {} => At1(i, "attack_start") # {}
  <2>1. OnceOnly(i)
    BY <1>1 DEF IncInv
  <2>2. \A data \in {"attack_start", "attack_stop"} :
           /\ \A k, l \in At1(i, data) : k = l
           /\ Reported(i, data) <=> At1(i, data) # {}
    BY <2>1 DEF OnceOnly, Reported, Rows
  <2>. HIDE DEF At1
  <2>. QED  BY <2>1, <2>2, AtMostOne DEF OnceOnly
<1>2. OneStartOneStop
  BY <1>1 DEF OneStartOneStop
<1>3. ASSUME NEW i \in Attack, edge[i].layer = "L7", Reported(i, "attack_stop"), NEW x \in l7_attacks[i]
      PROVE  x.peak = edge[i].v /\ (x.status = "ended" \/ (x.data = "attack_update" /\ x.v < edge[i].v))
  BY <1>3, FinalIsOver DEF Done
<1>4. FinalFigures
  BY <1>3 DEF FinalFigures
<1>. QED  BY <1>2, <1>4

\* One report at a time, sent again until it is answered and broken off anywhere, records one
\* start and one stop of an L7 incident, and no stop without a start.
THEOREM OneStartOneStopHolds == ASSUME OneDelivery PROVE IncidentSpec => []OneStartOneStop
  BY IncInit, IncStep, IncImplies, PTL DEF IncidentSpec

\* Once the stop is recorded the stored incident has its final peak, and is shown as ended unless
\* one of any number of consoles has stored a snapshot that it fetched before the end.
THEOREM FinalFiguresHolds == ASSUME OneDelivery PROVE IncidentSpec => []FinalFigures
  BY IncInit, IncStep, IncImplies, PTL DEF IncidentSpec
=============================================================================
