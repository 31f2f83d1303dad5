---------------------------- MODULE TempBlacklist ----------------------------
(***************************************************************************)
(* The store of temporary L7 blocks (store/blacklist.go), one Redis command *)
(* per step.  A row temporaryblacklist_backend:entry:{id} holds one block   *)
(* and carries a Redis expiry; ids come from an INCR counter.  None of the  *)
(* store's operations is atomic: each is a SCAN, then one GET per key, then *)
(* the SET, INCR or DEL commands it decided on, while other HTTP handlers   *)
(* run their own commands in between.                                       *)
(***************************************************************************)
EXTENDS Integers, FiniteSets, Functions

CONSTANTS
    Server,       \* edge servers (server_id)
    Ident,        \* what tempIdentity tells apart: ip | site | url
    Worker,       \* HTTP handlers that can be inside the store at once
    AllServers,   \* the serverID 0 of List and DeleteAll: every edge
    TTL,          \* block durations an edge or an operator sends, in ticks
    DefaultTTL,   \* defaultExpireSeconds, in ticks
    Grace,        \* replaceGrace, in ticks
    Skew,         \* bound: how far an edge clock runs ahead of the API host
    MaxNow,       \* bound on the clock
    MaxId,        \* bound on the id counter
    MaxInFlight   \* bound on the handlers inside the store at once

ASSUME ServerAssumption == AllServers \notin Server
ASSUME TimeAssumption ==
    /\ TTL \subseteq Nat
    /\ DefaultTTL \in Nat \ {0}
    /\ Grace \in Nat
    /\ Skew \in Nat
ASSUME BoundAssumption == MaxNow \in Nat /\ MaxId \in Nat /\ MaxInFlight \in Nat

VARIABLES
    now,          \* the clock of the API host, which Redis shares
    entry,        \* live rows: id |-> block; an expired key is not in its domain
    nextId,       \* temporaryblacklist_backend:id
    job,          \* what each handler is doing inside the store
    dirtyReset    \* history: the counter was dropped while an id was still in use

vars == <<now, entry, nextId, job, dirtyReset>>

-----------------------------------------------------------------------------
(* Rows and lifetimes. *)

Time == 0 .. (MaxNow + Skew)
Id == 1 .. MaxId

\* A blocked_at that parseBlockTime makes no time of: empty, or text it cannot read.
Undated == -1
When == Time \cup {Undated}
Dated(at) == at # Undated

Row == [srv: Server, ident: Ident, at: When, ttl: TTL, exp: Nat]

\* blockLifetime: a block without a duration is always active, and so is one without a
\* date, whose whole duration is left at every look.
Active(at, ttl, t) == ttl = 0 \/ ~Dated(at) \/ at + ttl > t

\* Regression: a block without a duration is stored without a lifetime.
LifetimeForGood(at, ttl, t) == IF ttl = 0 \/ ~Dated(at) THEN ttl ELSE at + ttl - t

\* The lifetime left to a block that blockLifetime finds active.
Lifetime(at, ttl, t) == IF ttl = 0 THEN DefaultTTL ELSE IF Dated(at) THEN at + ttl - t ELSE ttl

\* A report of a block that is already over keeps it visible from now on:
\* blocked_at becomes t, and the whole duration is left.
Restamp(at, ttl, t) == IF Active(at, ttl, t) THEN at ELSE t

\* Regression: the re-stamped block is stored with the default duration.
RemainingDefault(at, ttl, t) == IF Active(at, ttl, t) THEN Lifetime(at, ttl, t) ELSE DefaultTTL

Remaining(at, ttl, t) == IF Active(at, ttl, t) THEN Lifetime(at, ttl, t) ELSE ttl

\* SET key value EX rem, and DEL keys.
Put(k, row) == [x \in DOMAIN entry \cup {k} |-> IF x = k THEN row ELSE entry[x]]
Without(keys) == Restrict(entry, DOMAIN entry \ keys)

-----------------------------------------------------------------------------
(* The handlers' local state. *)

NoKey == [key |-> 0, at |-> 0]
NoBlock == [rem |-> 0]

Idle == [pc |-> "idle", op |-> "none", srv |-> AllServers,
         t0 |-> 0, todo |-> {}, key |-> 0,
         block |-> NoBlock,                       \* what a create will SET
         report |-> [i \in {} |-> NoBlock],       \* the blocks a replace has left to apply
         named |-> {},                            \* seen: the blocks its report names
         found |-> [i \in Ident |-> NoKey],       \* byIdentity: the rows it read
         victims |-> {}]                          \* toDelete of a flush

InFlight == {w \in Worker : job[w].pc # "idle"}
MayStart(w) == job[w].pc = "idle" /\ Cardinality(InFlight) < MaxInFlight

\* blocked_at as an edge can send it.
Stamp == {t \in Time : t <= now + Skew} \cup {Undated}

Become(w, j) == job' = [job EXCEPT ![w] = j]

-----------------------------------------------------------------------------
(* CreateFromPayload: normalise, SCAN, look for a row of the same block,    *)
(* SET that row or INCR an id and SET a new one.  The date of a create that *)
(* came in empty is now, one of the stamps.                                 *)

\* An empty date becomes now, one that cannot be read stays.
Filled(at) == IF Dated(at) THEN {at} ELSE {Undated, now}

BeginCreate(j, i, at, ttl) ==
    [j EXCEPT !.pc = "match", !.todo = DOMAIN entry,
              !.block = [ident |-> i, at |-> Restamp(at, ttl, now), ttl |-> ttl,
                         rem |-> Remaining(at, ttl, now)]]

CreateStart(w) ==
    /\ MayStart(w)
    /\ \E s \in Server, i \in Ident, at \in Stamp, ttl \in TTL :
          Become(w, BeginCreate([Idle EXCEPT !.op = "create", !.srv = s], i, at, ttl))
    /\ UNCHANGED <<now, entry, nextId, dirtyReset>>

\* Regression: the row of another edge is taken for this one's.
SameIdent(k, s, i) == entry[k].ident = i

SameBlock(k, s, i) == entry[k].srv = s /\ entry[k].ident = i

MatchKey(w) ==
    /\ job[w].pc = "match"
    /\ \E k \in job[w].todo :
          IF k \in DOMAIN entry /\ SameBlock(k, job[w].srv, job[w].block.ident)
          THEN Become(w, [job[w] EXCEPT !.pc = "set", !.key = k, !.todo = {}])
          ELSE Become(w, [job[w] EXCEPT !.todo = @ \ {k}])
    /\ UNCHANGED <<now, entry, nextId, dirtyReset>>

\* Regression: the new id is drawn before the scan is over.
NewIdEager(w) ==
    /\ job[w].pc = "match"
    /\ nextId < MaxId
    /\ nextId' = nextId + 1
    /\ Become(w, [job[w] EXCEPT !.pc = "set", !.key = nextId + 1, !.todo = {}])
    /\ UNCHANGED <<now, entry, dirtyReset>>

NewId(w) ==
    /\ job[w].pc = "match"
    /\ job[w].todo = {}
    /\ nextId < MaxId
    /\ nextId' = nextId + 1
    /\ Become(w, [job[w] EXCEPT !.pc = "set", !.key = nextId + 1])
    /\ UNCHANGED <<now, entry, dirtyReset>>

-----------------------------------------------------------------------------
(* ReplaceForServer: read every row of the edge, refresh or create the      *)
(* blocks its report names, then DEL the rows that were read, that the      *)
(* report leaves out, and that were blocked at least Grace ago or have no   *)
(* date.                                                                    *)

\* Regression: the grace window is not applied.
Unnamed(j) == {i \in Ident \ j.named : j.found[i].key # 0}

Overdue(j) == {i \in Ident \ j.named : /\ j.found[i].key # 0
                                       /\ \/ ~Dated(j.found[i].at)
                                          \/ j.found[i].at + Grace <= j.t0}

\* Where a replace goes when it has applied a block, or dropped a row.
NextBlock(j) == IF DOMAIN j.report # {} THEN [j EXCEPT !.pc = "apply"]
                ELSE IF Overdue(j) # {} THEN [j EXCEPT !.pc = "drop"]
                ELSE Idle

\* A read goes on while keys are left.  An empty report leaves every row alone.
NextRead(j) == IF j.todo # {} THEN [j EXCEPT !.pc = "read"]
               ELSE IF j.op = "list" \/ j.named = {} THEN Idle
               ELSE NextBlock(j)

ReplaceStart(w) ==
    /\ MayStart(w)
    /\ \E s \in Server, named \in SUBSET Ident :
       \E report \in [named -> [at: Stamp, ttl: TTL]] :
          Become(w, NextRead([Idle EXCEPT !.op = "replace", !.srv = s, !.t0 = now,
                                          !.todo = DOMAIN entry,
                                          !.report = report, !.named = named]))
    /\ UNCHANGED <<now, entry, nextId, dirtyReset>>

\* List and ListPayloadsByServer read the rows the same way.
ListStart(w) ==
    /\ MayStart(w)
    /\ DOMAIN entry # {}
    /\ \E s \in Server \cup {AllServers} :
          Become(w, NextRead([Idle EXCEPT !.op = "list", !.srv = s, !.todo = DOMAIN entry]))
    /\ UNCHANGED <<now, entry, nextId, dirtyReset>>

\* Regression: the rows of every edge are read.
AnyRow(j, k) == TRUE

Concerns(j, k) == j.srv = AllServers \/ entry[k].srv = j.srv

\* A replace compares every row with the time it started, a list with the clock.
ReadTime(j) == IF j.op = "replace" THEN j.t0 ELSE now

ReadRow(w) ==
    /\ job[w].pc = "read"
    /\ \E k \in job[w].todo :
          LET j == [job[w] EXCEPT !.todo = @ \ {k}] IN
          IF k \notin DOMAIN entry \/ ~Concerns(j, k)
          THEN Become(w, NextRead(j))
          ELSE IF ~Active(entry[k].at, entry[k].ttl, ReadTime(j))
          THEN Become(w, [j EXCEPT !.pc = "purge", !.key = k])
          ELSE IF j.op = "list"
          THEN Become(w, NextRead(j))
          ELSE Become(w, NextRead([j EXCEPT !.found[entry[k].ident] =
                                      [key |-> k, at |-> entry[k].at]]))
    /\ UNCHANGED <<now, entry, nextId, dirtyReset>>

\* The DEL of a row read as over; its error is ignored.
PurgeRow(w) ==
    /\ job[w].pc = "purge"
    /\ entry' \in {entry, Without({job[w].key})}
    /\ Become(w, NextRead([job[w] EXCEPT !.key = 0]))
    /\ UNCHANGED <<now, nextId, dirtyReset>>

\* Refresh the row read earlier under the same id, without looking at it again.
ApplyRefresh(w) ==
    /\ job[w].pc = "apply"
    /\ \E i \in DOMAIN job[w].report :
          LET p == job[w].report[i]
              rest == Restrict(job[w].report, DOMAIN job[w].report \ {i})
          IN  /\ job[w].found[i].key # 0
              /\ entry' = Put(job[w].found[i].key,
                              [srv |-> job[w].srv, ident |-> i,
                               at |-> Restamp(p.at, p.ttl, job[w].t0), ttl |-> p.ttl,
                               exp |-> now + Remaining(p.at, p.ttl, job[w].t0)])
              /\ Become(w, NextBlock([job[w] EXCEPT !.report = rest]))
    /\ UNCHANGED <<now, nextId, dirtyReset>>

ApplyCreate(w) ==
    /\ job[w].pc = "apply"
    /\ \E i \in DOMAIN job[w].report :
          LET p == job[w].report[i]
              rest == Restrict(job[w].report, DOMAIN job[w].report \ {i})
          IN  /\ job[w].found[i].key = 0
              /\ \E at \in Filled(p.at) :
                    Become(w, BeginCreate([job[w] EXCEPT !.report = rest], i, at, p.ttl))
    /\ UNCHANGED <<now, entry, nextId, dirtyReset>>

\* The SET at the end of CreateFromPayload, which returns to its caller.
StoreRow(w) ==
    /\ job[w].pc = "set"
    /\ LET b == job[w].block IN
       entry' = Put(job[w].key, [srv |-> job[w].srv, ident |-> b.ident, at |-> b.at,
                                 ttl |-> b.ttl, exp |-> now + b.rem])
    /\ Become(w, IF job[w].op = "create" THEN Idle
                 ELSE NextBlock([job[w] EXCEPT !.key = 0, !.block = NoBlock]))
    /\ UNCHANGED <<now, nextId, dirtyReset>>

\* The DEL of a row the report left out; its error is ignored.
DropRow(w) ==
    /\ job[w].pc = "drop"
    /\ \E i \in Overdue(job[w]) :
          /\ entry' \in {entry, Without({job[w].found[i].key})}
          /\ Become(w, NextBlock([job[w] EXCEPT !.found[i] = NoKey]))
    /\ UNCHANGED <<now, nextId, dirtyReset>>

-----------------------------------------------------------------------------
(* Delete and DeleteAll. *)

DeleteEntry(k) ==
    /\ Cardinality(InFlight) < MaxInFlight
    /\ k \in DOMAIN entry
    /\ entry' = Without({k})
    /\ UNCHANGED <<now, nextId, job, dirtyReset>>

\* A flush that has collected its keys: DEL them all, or return without a command.
NextCollect(j) == IF j.todo # {} THEN [j EXCEPT !.pc = "collect"]
                  ELSE IF j.victims # {} THEN [j EXCEPT !.pc = "wipe"]
                  ELSE Idle

FlushStart(w) ==
    /\ MayStart(w)
    /\ \E s \in Server :
          Become(w, NextCollect([Idle EXCEPT !.op = "flush", !.srv = s, !.todo = DOMAIN entry]))
    /\ UNCHANGED <<now, entry, nextId, dirtyReset>>

CollectRow(w) ==
    /\ job[w].pc = "collect"
    /\ \E k \in job[w].todo :
          LET j == [job[w] EXCEPT !.todo = @ \ {k}] IN
          Become(w, NextCollect(IF k \in DOMAIN entry /\ entry[k].srv = j.srv
                                THEN [j EXCEPT !.victims = @ \cup {k}]
                                ELSE j))
    /\ UNCHANGED <<now, entry, nextId, dirtyReset>>

FlushAllStart(w) ==
    /\ MayStart(w)
    /\ LET j == [Idle EXCEPT !.op = "flushall", !.victims = DOMAIN entry] IN
       Become(w, [j EXCEPT !.pc = IF j.victims = {} THEN "reset" ELSE "wipe"])
    /\ UNCHANGED <<now, entry, nextId, dirtyReset>>

WipeRows(w) ==
    /\ job[w].pc = "wipe"
    /\ entry' = Without(job[w].victims)
    /\ Become(w, IF job[w].op = "flushall"
                 THEN [job[w] EXCEPT !.pc = "reset", !.victims = {}]
                 ELSE Idle)
    /\ UNCHANGED <<now, nextId, dirtyReset>>

\* The keys a handler has decided to write or to delete.
Held(j) == ({j.key} \cup {j.found[i].key : i \in Ident} \cup j.victims) \ {0}

\* A flush of every edge also drops the counter: ids start again at 1.
ResetCounter(w) ==
    /\ job[w].pc = "reset"
    /\ nextId' = 0
    /\ dirtyReset' = (\/ dirtyReset
                      \/ DOMAIN entry # {}
                      \/ \E v \in Worker : Held(job[v]) # {})
    /\ Become(w, Idle)
    /\ UNCHANGED <<now, entry>>

-----------------------------------------------------------------------------
(* The environment: a Redis error or a caller that goes away ends a handler *)
(* between two commands; the clock ticks and Redis drops expired keys.      *)

Abort(w) ==
    /\ job[w].pc # "idle"
    /\ Become(w, Idle)
    /\ UNCHANGED <<now, entry, nextId, dirtyReset>>

Tick ==
    /\ now < MaxNow
    /\ now' = now + 1
    /\ entry' = Restrict(entry, {k \in DOMAIN entry : entry[k].exp > now + 1})
    /\ UNCHANGED <<nextId, job, dirtyReset>>

Init ==
    /\ now = 0
    /\ entry = [k \in {} |-> NoBlock]
    /\ nextId = 0
    /\ job = [w \in Worker |-> Idle]
    /\ dirtyReset = FALSE

Step(w) ==
    \/ CreateStart(w) \/ MatchKey(w) \/ NewId(w) \/ StoreRow(w)
    \/ ReplaceStart(w) \/ ListStart(w) \/ ReadRow(w) \/ PurgeRow(w)
    \/ ApplyRefresh(w) \/ ApplyCreate(w) \/ DropRow(w)
    \/ FlushStart(w) \/ CollectRow(w) \/ FlushAllStart(w) \/ WipeRows(w) \/ ResetCounter(w)
    \/ Abort(w)

Next ==
    \/ \E w \in Worker : Step(w)
    \/ \E k \in Id : DeleteEntry(k)
    \/ Tick

Spec == Init /\ [][Next]_vars

-----------------------------------------------------------------------------
(* Properties. *)

Block == [ident: Ident, at: When, ttl: TTL, rem: Nat \ {0}]

Job == [pc: {"idle", "match", "set", "read", "purge", "apply", "drop", "collect", "wipe", "reset"},
        op: {"none", "create", "replace", "list", "flush", "flushall"},
        srv: Server \cup {AllServers},
        t0: Time, todo: SUBSET Id, key: Id \cup {0},
        block: Block \cup {NoBlock},
        report: UNION {[named -> [at: When, ttl: TTL]] : named \in SUBSET Ident},
        named: SUBSET Ident,
        found: [Ident -> [key: Id \cup {0}, at: When]],
        victims: SUBSET Id]

\* Every live row is a well-formed block with an expiry ahead of the clock: no SET
\* ever stores a block without a Redis TTL, which would keep it for good.
TypeOK ==
    /\ now \in 0 .. MaxNow
    /\ DOMAIN entry \subseteq Id
    /\ \A k \in DOMAIN entry : entry[k] \in Row /\ entry[k].exp > now
    /\ nextId \in 0 .. MaxId
    /\ job \in [Worker -> Job]
    /\ dirtyReset \in BOOLEAN

RowsKeepBlocks ==
    \A k \in DOMAIN entry \cap DOMAIN entry' :
       entry'[k].srv = entry[k].srv /\ entry'[k].ident = entry[k].ident

OthersKept(w) ==
    (job'[w] # job[w] /\ job[w].srv \in Server) =>
       \A k \in DOMAIN entry :
          entry[k].srv # job[w].srv => k \in DOMAIN entry' /\ entry'[k] = entry[k]

\* As long as the id counter was only ever dropped with no row and no handler using
\* an id, the row under an id never turns into the block of another address or edge:
\* however the commands of creates, replaces, lists and flushes interleave, a SET
\* under a key chosen earlier lands on its own block or on a free key.
RowKeepsItsBlock == [][~dirtyReset' => RowsKeepBlocks]_vars

\* A handler that works for one edge never changes or removes a row of another edge,
\* whatever the other handlers did to the keys it had read.
OtherEdgesUntouched == [][~dirtyReset' => \A w \in Worker : OthersKept(w)]_vars

\* Redis never expires a dated block before blocked_at + ttl, although the expiry is
\* computed when the handler starts and set when its SET runs.
NeverExpiresEarly ==
    \A k \in DOMAIN entry :
       entry[k].ttl > 0 /\ Dated(entry[k].at) => entry[k].exp >= entry[k].at + entry[k].ttl

\* One row per block: a re-notified or re-reported block refreshes its row
\* (blacklist.go:233 "instead of creating duplicates").
NoDuplicateRows ==
    \A k, l \in DOMAIN entry :
       entry[k].srv = entry[l].srv /\ entry[k].ident = entry[l].ident => k = l
=============================================================================
