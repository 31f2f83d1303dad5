------------------------ MODULE TempBlacklistProofs ------------------------
(***************************************************************************)
(* Proofs about the store of temporary blocks, for every set of edges,      *)
(* blocks and handlers and every value of the bounds; then, with one handler *)
(* inside it at a time, that a block has one row and that the store          *)
(* implements LiveBlocks.                                                    *)
(***************************************************************************)
EXTENDS TempBlacklistRefinement, FiniteSetTheorems, TLAPS

-----------------------------------------------------------------------------
(* The inductive invariant. *)

\* What a handler keeps from one command to the next.
JobBase(j) ==
    /\ j \in Job
    /\ j.op \in {"create", "replace", "flush"} => j.srv \in Server
    /\ j.t0 <= now
    /\ j.block \in Block /\ j.block.ttl > 0 => now + j.block.rem >= j.block.at + j.block.ttl

\* What it must have in hand when it is about to run a command.
JobReady(j) ==
    /\ j.pc \in {"match", "set"} => j.op \in {"create", "replace"} /\ j.block \in Block
    /\ j.pc \in {"set", "purge"} => j.key # 0
    /\ j.pc \in {"read", "purge"} => j.op \in {"replace", "list"}
    /\ j.pc \in {"apply", "drop"} => j.op = "replace"
    /\ j.pc = "collect" => j.op = "flush"

JobShape(j) == JobBase(j) /\ JobReady(j)

TypeInv == TypeOK /\ \A w \in Worker : JobShape(job[w])

\* The keys a handler has read belong, in the assignment own of ids to blocks, to the
\* blocks or to the edge it works for.
Knows(j, own) ==
    /\ \A i \in Ident : j.found[i].key # 0 => own[j.found[i].key] = <<j.srv, i>>
    /\ j.srv \in Server => \A k \in j.victims : own[k][1] = j.srv

\* So does the key it is about to SET or DEL.
Respects(j, own) ==
    /\ Knows(j, own)
    /\ j.pc = "set" => own[j.key] = <<j.srv, j.block.ident>>
    /\ j.srv \in Server /\ j.pc = "purge" => own[j.key][1] = j.srv

\* The block of an id, or <<>> for an id not handed out yet.
Owner == (Server \X Ident) \cup {<<>>}

\* Every id handed out has one block for ever: every row and every handler agrees on it.
Assigned(own) ==
    /\ \A k \in DOMAIN entry : k <= nextId /\ own[k] = <<entry[k].srv, entry[k].ident>>
    /\ \A w \in Worker : /\ Respects(job[w], own)
                         /\ \A k \in Held(job[w]) : k <= nextId

IdsHaveOneBlock ==
    ~dirtyReset => \E own \in [Id -> Owner] : Assigned(own)

IInv == TypeInv /\ IdsHaveOneBlock

-----------------------------------------------------------------------------
(* Lifetimes, rows and jobs. *)

USE ServerAssumption, TimeAssumption, BoundAssumption

\* Times and durations are naturals, and what stands for no date is a number too.
LEMMA TimesAreNat ==
    Time \subseteq Nat /\ TTL \subseteq Nat /\ When \subseteq Int /\ \A at \in When : Dated(at) => at \in Nat
<1>1. MaxNow \in Nat /\ Skew \in Nat /\ MaxNow + Skew \in Nat
  BY TimeAssumption, BoundAssumption
<1> QED
  BY <1>1, TimeAssumption DEF Time, When, Undated, Dated

\* The expiry of a SET is positive, and covers the block to blocked_at + ttl.
LEMMA LifetimeCoversBlock ==
    ASSUME NEW at \in When, NEW ttl \in TTL, NEW t \in 0 .. MaxNow
    PROVE  /\ Restamp(at, ttl, t) \in When
           /\ Remaining(at, ttl, t) \in Nat \ {0}
           /\ ttl > 0 => t + Remaining(at, ttl, t) >= Restamp(at, ttl, t) + ttl
<1>1. ttl \in Nat /\ at \in Int /\ t \in Nat /\ t \in When /\ (Dated(at) => at \in Nat)
  BY DEF Time, When, Undated, Dated
<1> QED
  BY <1>1 DEF Restamp, Remaining, Active, Lifetime, Undated, Dated

\* A handler outside the store has the shape of a handler.
LEMMA IdleShape == ASSUME now \in 0 .. MaxNow PROVE JobShape(Idle)
<1>1. Idle.report \in UNION {[named -> [at: When, ttl: TTL]] : named \in SUBSET Ident}
  <2>1. Idle.report \in [{} -> [at: When, ttl: TTL]] /\ {} \in SUBSET Ident
    BY DEF Idle
  <2> QED BY <2>1
<1>2. Idle.found \in [Ident -> [key: Id \cup {0}, at: When]]
  BY DEF Idle, NoKey, Time, When
<1>3. Idle.block = NoBlock /\ NoBlock \notin Block
  BY DEF Idle, NoBlock, Block
<1>4. Idle \in Job
  <2> DEFINE r == Idle.report  f == Idle.found
  <2>1. Idle = [pc |-> "idle", op |-> "none", srv |-> AllServers, t0 |-> 0, todo |-> {},
                key |-> 0, block |-> NoBlock, report |-> r, named |-> {}, found |-> f,
                victims |-> {}]
    BY DEF Idle
  <2>2. r \in UNION {[named -> [at: When, ttl: TTL]] : named \in SUBSET Ident}
        /\ f \in [Ident -> [key: Id \cup {0}, at: When]]
    BY <1>1, <1>2
  <2>3. 0 \in Time
    BY DEF Time
  <2> HIDE DEF r, f
  <2> QED BY <2>1, <2>2, <2>3 DEF Job
<1>5. Idle.pc = "idle" /\ Idle.op = "none" /\ Idle.t0 = 0
  BY DEF Idle
<1> QED
  BY <1>3, <1>4, <1>5 DEF JobShape, JobBase, JobReady

\* Going on to the next block of a report keeps the shape of a replace.
LEMMA NextBlockShape ==
    ASSUME NEW j, JobBase(j), j.op = "replace", now \in 0 .. MaxNow
    PROVE  JobShape(NextBlock(j))
<1>1. JobShape([j EXCEPT !.pc = "apply"]) /\ JobShape([j EXCEPT !.pc = "drop"])
  BY DEF JobShape, JobBase, JobReady, Job
<1> QED
  BY <1>1, IdleShape DEF NextBlock

\* Going on to the next row of a read keeps the shape of a replace or a list.
LEMMA NextReadShape ==
    ASSUME NEW j, JobBase(j), j.op \in {"replace", "list"}, now \in 0 .. MaxNow
    PROVE  JobShape(NextRead(j))
<1>1. JobShape([j EXCEPT !.pc = "read"])
  BY DEF JobShape, JobBase, JobReady, Job
<1> QED
  BY <1>1, IdleShape, NextBlockShape DEF NextRead

\* Going on to the next key of a flush keeps the shape of a flush.
LEMMA NextCollectShape ==
    ASSUME NEW j, JobBase(j), j.op = "flush", now \in 0 .. MaxNow
    PROVE  JobShape(NextCollect(j))
<1>1. JobShape([j EXCEPT !.pc = "collect"]) /\ JobShape([j EXCEPT !.pc = "wipe"])
  BY ZenonT(60) DEF JobShape, JobBase, JobReady, Job
<1> QED
  BY <1>1, IdleShape DEF NextCollect

\* A create starts with a well-formed block that has some lifetime left.
LEMMA BeginCreateShape ==
    ASSUME NEW j, JobBase(j), j.op \in {"create", "replace"},
           NEW i \in Ident, NEW at \in When, NEW ttl \in TTL, TypeOK
    PROVE  JobShape(BeginCreate(j, i, at, ttl))
<1> DEFINE blk == [ident |-> i, at |-> Restamp(at, ttl, now), ttl |-> ttl,
                   rem |-> Remaining(at, ttl, now)]
<1>1. now \in 0 .. MaxNow /\ DOMAIN entry \subseteq Id
  BY DEF TypeOK
<1>2. blk \in Block /\ (blk.ttl > 0 => now + blk.rem >= blk.at + blk.ttl)
  BY <1>1, LifetimeCoversBlock DEF Block
<1> HIDE DEF blk
<1>3. BeginCreate(j, i, at, ttl) = [j EXCEPT !.pc = "match", !.todo = DOMAIN entry, !.block = blk]
  BY DEF BeginCreate, blk
<1> QED
  BY <1>1, <1>2, <1>3 DEF JobShape, JobBase, JobReady, Job

\* A SET stores a well-formed row and changes no other one.
LEMMA PutRow ==
    ASSUME NEW k \in Id, NEW row \in Row, row.exp > now,
           DOMAIN entry \subseteq Id,
           \A x \in DOMAIN entry : entry[x] \in Row /\ entry[x].exp > now
    PROVE  /\ DOMAIN Put(k, row) = DOMAIN entry \cup {k}
           /\ DOMAIN Put(k, row) \subseteq Id
           /\ Put(k, row)[k] = row
           /\ \A x \in DOMAIN entry : x # k => Put(k, row)[x] = entry[x]
           /\ \A x \in DOMAIN Put(k, row) : Put(k, row)[x] \in Row /\ Put(k, row)[x].exp > now
  BY DEF Put

\* A DEL removes rows and changes none that stays.
LEMMA WithoutRows ==
    ASSUME NEW keys
    PROVE  /\ DOMAIN Without(keys) = DOMAIN entry \ keys
           /\ \A x \in DOMAIN Without(keys) : Without(keys)[x] = entry[x]
  BY DEF Without, Restrict

-----------------------------------------------------------------------------
(* Type correctness. *)

\* The empty store has the right types.
LEMMA InitTypeInv == Init => TypeInv
<1> SUFFICES ASSUME Init PROVE TypeInv
  OBVIOUS
<1>1. now \in 0 .. MaxNow
  BY DEF Init
<1>2. JobShape(Idle)
  BY <1>1, IdleShape
<1>3. Idle \in Job
  BY <1>2 DEF JobShape, JobBase
<1>4. DOMAIN entry = {}
  BY DEF Init
<1>5. job \in [Worker -> Job] /\ nextId \in 0 .. MaxId
  BY <1>3 DEF Init
<1>6. dirtyReset \in BOOLEAN
  BY DEF Init
<1>7. TypeOK
  BY <1>1, <1>4, <1>5, <1>6 DEF TypeOK
<1>8. \A w \in Worker : job[w] = Idle
  BY DEF Init
<1> QED
  BY <1>2, <1>7, <1>8 DEF TypeInv

\* A command of one handler leaves the jobs of the others as they are.
LEMMA OneJob ==
    ASSUME TypeInv, NEW w \in Worker, NEW j, JobShape(j), Become(w, j), now' = now
    PROVE  job' \in [Worker -> Job] /\ \A v \in Worker : JobShape(job[v])'
<1>1. job \in [Worker -> Job] /\ j \in Job
  BY DEF TypeInv, TypeOK, JobShape, JobBase
<1>2. job' \in [Worker -> Job] /\ \A v \in Worker : job'[v] = IF v = w THEN j ELSE job[v]
  BY <1>1 DEF Become
<1>3. \A v \in Worker : JobShape(job'[v])
  BY <1>2 DEF TypeInv
<1> QED
  BY <1>2, <1>3 DEF JobShape, JobBase, JobReady

\* A command that writes no shared state.
LEMMA ReadOnlyStep ==
    ASSUME TypeInv, NEW w \in Worker, NEW j, JobShape(j), Become(w, j),
           UNCHANGED <<now, entry, nextId, dirtyReset>>
    PROVE  TypeInv'
  BY OneJob DEF TypeInv, TypeOK

\* A command that only writes or removes rows.
LEMMA RowStep ==
    ASSUME TypeInv, NEW w \in Worker, NEW j, JobShape(j), Become(w, j),
           UNCHANGED <<now, nextId, dirtyReset>>,
           DOMAIN entry' \subseteq Id,
           \A k \in DOMAIN entry' : entry'[k] \in Row /\ entry'[k].exp > now
    PROVE  TypeInv'
  BY OneJob DEF TypeInv, TypeOK

\* A command that only removes rows keeps the types.
LEMMA DelStep ==
    ASSUME TypeInv, NEW w \in Worker, NEW j, JobShape(j), Become(w, j),
           UNCHANGED <<now, nextId, dirtyReset>>,
           NEW keys, entry' \in {entry, Without(keys)}
    PROVE  TypeInv'
<1>1. /\ DOMAIN entry' \subseteq DOMAIN entry
      /\ \A k \in DOMAIN entry' : entry'[k] = entry[k]
  BY WithoutRows
<1> QED
  BY <1>1, RowStep DEF TypeInv, TypeOK

\* What an edge sends as blocked_at is a time or none.
LEMMA StampIsWhen == ASSUME NEW at \in Stamp PROVE at \in When
  BY DEF Stamp, When

\* So is the date a create goes on with.
LEMMA FilledIsWhen ==
    ASSUME now \in Time, NEW at \in When, NEW d \in Filled(at) PROVE d \in When
  BY DEF Filled, When

\* Every command of a handler keeps the types.
LEMMA StepTypeInv == ASSUME TypeInv, NEW w \in Worker, Step(w) PROVE TypeInv'
<1> DEFINE jw == job[w]
<1>0. /\ TypeOK /\ JobShape(jw) /\ jw \in Job
      /\ now \in 0 .. MaxNow /\ now \in Time
      /\ DOMAIN entry \subseteq Id /\ DOMAIN entry \in SUBSET Id
  BY DEF TypeInv, TypeOK, JobShape, JobBase, Time
<1>r. \A k \in DOMAIN entry : entry[k] \in Row /\ entry[k].exp > now
  BY DEF TypeInv, TypeOK
<1>id. 0 \notin Id
  BY DEF Id
<1>00. JobShape(Idle) /\ Idle \in Job
  BY <1>0, IdleShape DEF JobShape, JobBase
<1> HIDE DEF jw
<1>1. CASE CreateStart(w)
  <2>1. PICK s \in Server, i \in Ident, at \in Stamp, ttl \in TTL :
            Become(w, BeginCreate([Idle EXCEPT !.op = "create", !.srv = s], i, at, ttl))
    BY <1>1 DEF CreateStart
  <2>2. JobBase([Idle EXCEPT !.op = "create", !.srv = s])
        /\ [Idle EXCEPT !.op = "create", !.srv = s].op = "create"
    BY <1>00 DEF JobShape, JobBase, Job
  <2>3. JobShape(BeginCreate([Idle EXCEPT !.op = "create", !.srv = s], i, at, ttl))
    BY <1>0, <2>2, StampIsWhen, BeginCreateShape
  <2> QED
    BY <1>1, <2>1, <2>3, ReadOnlyStep DEF CreateStart
<1>2. CASE MatchKey(w)
  <2>1. PICK k \in jw.todo :
            Become(w, IF k \in DOMAIN entry /\ SameBlock(k, jw.srv, jw.block.ident)
                      THEN [jw EXCEPT !.pc = "set", !.key = k, !.todo = {}]
                      ELSE [jw EXCEPT !.todo = @ \ {k}])
    BY <1>2 DEF MatchKey, jw
  <2>2. jw.pc = "match" /\ k \in Id
    BY <1>0, <1>2 DEF MatchKey, jw, Job
  <2>3. JobShape([jw EXCEPT !.pc = "set", !.key = k, !.todo = {}])
    BY <1>0, <1>id, <2>2 DEF JobShape, JobBase, JobReady, Job
  <2>4. JobShape([jw EXCEPT !.todo = @ \ {k}])
    BY <1>0, <2>2 DEF JobShape, JobBase, JobReady, Job
  <2> QED
    BY <1>2, <2>1, <2>3, <2>4, ReadOnlyStep DEF MatchKey
<1>3. CASE NewId(w)
  <2> DEFINE j == [jw EXCEPT !.pc = "set", !.key = nextId + 1]
  <2>1. /\ jw.pc = "match" /\ nextId < MaxId /\ nextId' = nextId + 1 /\ Become(w, j)
        /\ UNCHANGED <<now, entry, dirtyReset>>
    BY <1>3 DEF NewId, jw
  <2>2. nextId + 1 \in Id /\ nextId' \in 0 .. MaxId
    BY <2>1 DEF TypeInv, TypeOK, Id
  <2>3. JobShape(j)
    BY <1>0, <1>id, <2>1, <2>2 DEF JobShape, JobBase, JobReady, Job
  <2> QED
    BY <2>1, <2>2, <2>3, OneJob DEF TypeInv, TypeOK
<1>4. CASE StoreRow(w)
  <2> DEFINE row == [srv |-> jw.srv, ident |-> jw.block.ident, at |-> jw.block.at,
                     ttl |-> jw.block.ttl, exp |-> now + jw.block.rem]
             j == [jw EXCEPT !.key = 0, !.block = NoBlock]
  <2>1. /\ jw.pc = "set" /\ entry' = Put(jw.key, row)
        /\ Become(w, IF jw.op = "create" THEN Idle ELSE NextBlock(j))
        /\ UNCHANGED <<now, nextId, dirtyReset>>
    BY <1>4 DEF StoreRow, jw
  <2>2. /\ jw.op \in {"create", "replace"} /\ jw.block \in Block /\ jw.key \in Id
        /\ jw.srv \in Server
    BY <1>0, <2>1 DEF JobShape, JobBase, JobReady, Job
  <2>3. row \in Row /\ row.exp > now
    BY <1>0, <2>2 DEF Row, Block
  <2>4. jw.op = "replace" => JobBase(j) /\ j.op = "replace"
    BY <1>0 DEF JobShape, JobBase, Job, NoBlock, Block
  <2> HIDE DEF row, j
  <2>5. JobShape(IF jw.op = "create" THEN Idle ELSE NextBlock(j))
    BY <1>0, <1>00, <2>2, <2>4, NextBlockShape
  <2> QED
    BY <1>0, <1>r, <2>1, <2>2, <2>3, <2>5, PutRow, RowStep
<1>5. CASE ReplaceStart(w)
  <2>0. PICK s \in Server, named \in SUBSET Ident :
            \E report \in [named -> [at: Stamp, ttl: TTL]] :
            Become(w, NextRead([Idle EXCEPT !.op = "replace", !.srv = s, !.t0 = now,
                                            !.todo = DOMAIN entry,
                                            !.report = report, !.named = named]))
    BY <1>5 DEF ReplaceStart
  <2>1. PICK report \in [named -> [at: Stamp, ttl: TTL]] :
            Become(w, NextRead([Idle EXCEPT !.op = "replace", !.srv = s, !.t0 = now,
                                            !.todo = DOMAIN entry,
                                            !.report = report, !.named = named]))
    BY <2>0
  <2> DEFINE j == [Idle EXCEPT !.op = "replace", !.srv = s, !.t0 = now, !.todo = DOMAIN entry,
                               !.report = report, !.named = named]
  <2>2. report \in UNION {[n -> [at: When, ttl: TTL]] : n \in SUBSET Ident}
    <3>1. report \in [named -> [at: When, ttl: TTL]]
      BY DEF Stamp, When
    <3> QED
      BY <3>1
  <2>3. JobBase(j) /\ j.op = "replace"
    BY <1>0, <1>00, <2>2, now <= now, ZenonT(60) DEF JobShape, JobBase, Job
  <2> HIDE DEF j
  <2>4. JobShape(NextRead(j))
    BY <1>0, <2>3, NextReadShape
  <2> QED
    BY <1>5, <2>1, <2>4, ReadOnlyStep DEF ReplaceStart, j
<1>6. CASE ListStart(w)
  <2>1. PICK s \in Server \cup {AllServers} :
            Become(w, NextRead([Idle EXCEPT !.op = "list", !.srv = s, !.todo = DOMAIN entry]))
    BY <1>6 DEF ListStart
  <2> DEFINE j == [Idle EXCEPT !.op = "list", !.srv = s, !.todo = DOMAIN entry]
  <2>2. JobBase(j) /\ j.op = "list"
    <3>1. j \in Job /\ j.op = "list" /\ j.t0 = Idle.t0 /\ j.block = Idle.block
      BY <1>0, <1>00 DEF Job
    <3> HIDE DEF j
    <3> QED
      BY <1>00, <3>1 DEF JobShape, JobBase
  <2> HIDE DEF j
  <2>3. JobShape(NextRead(j))
    BY <1>0, <2>2, NextReadShape
  <2> QED
    BY <1>6, <2>1, <2>3, ReadOnlyStep DEF ListStart, j
<1>7. CASE ReadRow(w)
  <2>1. jw.pc = "read" /\ jw.op \in {"replace", "list"}
    BY <1>0, <1>7 DEF ReadRow, jw, JobShape, JobReady
  <2>2. PICK k \in jw.todo :
            LET j == [jw EXCEPT !.todo = @ \ {k}] IN
            IF k \notin DOMAIN entry \/ ~Concerns(j, k)
            THEN Become(w, NextRead(j))
            ELSE IF ~Active(entry[k].at, entry[k].ttl, ReadTime(j))
            THEN Become(w, [j EXCEPT !.pc = "purge", !.key = k])
            ELSE IF j.op = "list"
            THEN Become(w, NextRead(j))
            ELSE Become(w, NextRead([j EXCEPT !.found[entry[k].ident] =
                                        [key |-> k, at |-> entry[k].at]]))
    BY <1>7 DEF ReadRow, jw
  <2> DEFINE j == [jw EXCEPT !.todo = @ \ {k}]
             jp == [j EXCEPT !.pc = "purge", !.key = k]
             jf == [j EXCEPT !.found[entry[k].ident] = [key |-> k, at |-> entry[k].at]]
  <2>3. k \in Id /\ k # 0
    BY <1>0 DEF Job, Id
  <2>4. JobBase(j) /\ j.op = jw.op
    BY <1>0 DEF JobShape, JobBase, Job
  <2>5. JobShape(jp)
    BY <1>0, <2>1, <2>3 DEF JobShape, JobBase, JobReady, Job
  <2>6. k \in DOMAIN entry => JobBase(jf) /\ jf.op = jw.op
    <3> SUFFICES ASSUME k \in DOMAIN entry PROVE JobBase(jf) /\ jf.op = jw.op
      OBVIOUS
    <3>1. entry[k].ident \in Ident /\ entry[k].at \in When
      BY <1>r DEF Row
    <3>2. [jw.found EXCEPT ![entry[k].ident] = [key |-> k, at |-> entry[k].at]]
            \in [Ident -> [key: Id \cup {0}, at: When]]
      BY <1>0, <2>3, <3>1 DEF Job
    <3>3. jf = [jw EXCEPT !.todo = @ \ {k},
                          !.found = [@ EXCEPT ![entry[k].ident] = [key |-> k, at |-> entry[k].at]]]
      BY <1>0 DEF Job
    <3> QED
      BY <1>0, <3>2, <3>3 DEF JobShape, JobBase, Job
  <2> HIDE DEF j, jp, jf
  <2>7. JobShape(NextRead(j)) /\ (k \in DOMAIN entry => JobShape(NextRead(jf)))
    BY <1>0, <2>1, <2>4, <2>6, NextReadShape
  <2>8. \/ Become(w, NextRead(j))
        \/ Become(w, jp)
        \/ k \in DOMAIN entry /\ Become(w, NextRead(jf))
    BY <2>2 DEF j, jp, jf
  <2> QED
    BY <1>7, <2>5, <2>7, <2>8, ReadOnlyStep DEF ReadRow
<1>8. CASE PurgeRow(w)
  <2> DEFINE j == [jw EXCEPT !.key = 0]
  <2>1. /\ jw.pc = "purge" /\ jw.op \in {"replace", "list"}
        /\ entry' \in {entry, Without({jw.key})} /\ Become(w, NextRead(j))
        /\ UNCHANGED <<now, nextId, dirtyReset>>
    BY <1>0, <1>8 DEF PurgeRow, jw, JobShape, JobReady
  <2>2. JobBase(j) /\ j.op = jw.op
    BY <1>0 DEF JobShape, JobBase, Job
  <2> HIDE DEF j
  <2>3. JobShape(NextRead(j))
    BY <1>0, <2>1, <2>2, NextReadShape
  <2> QED
    BY <2>1, <2>3, DelStep
<1>9. CASE ApplyRefresh(w)
  <2>1. /\ jw.pc = "apply" /\ UNCHANGED <<now, nextId, dirtyReset>>
        /\ jw.op = "replace" /\ jw.srv \in Server /\ jw.t0 \in 0 .. MaxNow
    BY <1>0, <1>9 DEF ApplyRefresh, jw, JobShape, JobBase, JobReady, Job, Time
  <2>2. PICK i \in DOMAIN jw.report :
            /\ jw.found[i].key # 0
            /\ entry' = Put(jw.found[i].key,
                            [srv |-> jw.srv, ident |-> i,
                             at |-> Restamp(jw.report[i].at, jw.report[i].ttl, jw.t0),
                             ttl |-> jw.report[i].ttl,
                             exp |-> now + Remaining(jw.report[i].at, jw.report[i].ttl, jw.t0)])
            /\ Become(w, NextBlock([jw EXCEPT !.report =
                                      Restrict(jw.report, DOMAIN jw.report \ {i})]))
    BY <1>9 DEF ApplyRefresh, jw
  <2> DEFINE p == jw.report[i]
             rest == Restrict(jw.report, DOMAIN jw.report \ {i})
             row == [srv |-> jw.srv, ident |-> i, at |-> Restamp(p.at, p.ttl, jw.t0),
                     ttl |-> p.ttl, exp |-> now + Remaining(p.at, p.ttl, jw.t0)]
             j == [jw EXCEPT !.report = rest]
  <2>3. /\ i \in Ident /\ p.at \in When /\ p.ttl \in TTL
        /\ rest \in UNION {[n -> [at: When, ttl: TTL]] : n \in SUBSET Ident}
    <3>1. PICK n \in SUBSET Ident : jw.report \in [n -> [at: When, ttl: TTL]]
      BY <1>0 DEF Job
    <3>2. rest \in [n \ {i} -> [at: When, ttl: TTL]]
      BY <3>1 DEF Restrict
    <3> QED
      BY <3>1, <3>2
  <2>4. jw.found[i].key \in Id
    BY <1>0, <2>2, <2>3 DEF Job
  <2>5. JobBase(j) /\ j.op = "replace"
    <3> HIDE DEF rest
    <3> QED
      BY <1>0, <2>1, <2>3 DEF JobShape, JobBase, Job
  <2>6. row \in Row /\ row.exp > now
    <3>1. /\ Restamp(p.at, p.ttl, jw.t0) \in When
          /\ Remaining(p.at, p.ttl, jw.t0) \in Nat \ {0}
      BY <2>1, <2>3, LifetimeCoversBlock
    <3> HIDE DEF p
    <3> QED
      BY <1>0, <2>1, <2>3, <3>1 DEF Row, Time
  <2> HIDE DEF p, rest, row, j
  <2>7. JobShape(NextBlock(j))
    BY <1>0, <2>5, NextBlockShape
  <2>8. entry' = Put(jw.found[i].key, row) /\ Become(w, NextBlock(j))
    BY <2>2 DEF p, rest, row, j
  <2> QED
    BY <1>0, <1>r, <2>1, <2>4, <2>6, <2>7, <2>8, PutRow, RowStep
<1>10. CASE ApplyCreate(w)
  <2>1. jw.pc = "apply" /\ jw.op = "replace"
    BY <1>0, <1>10 DEF ApplyCreate, jw, JobShape, JobReady
  <2>2. PICK i \in DOMAIN jw.report, at \in When :
            Become(w, BeginCreate([jw EXCEPT !.report =
                                     Restrict(jw.report, DOMAIN jw.report \ {i})],
                                  i, at, jw.report[i].ttl))
    <3>1. PICK i \in DOMAIN jw.report : \E at \in Filled(jw.report[i].at) :
            Become(w, BeginCreate([jw EXCEPT !.report =
                                     Restrict(jw.report, DOMAIN jw.report \ {i})],
                                  i, at, jw.report[i].ttl))
      BY <1>10 DEF ApplyCreate, jw
    <3>2. jw.report[i].at \in When
      BY <1>0, <3>1 DEF Job
    <3> QED
      BY <1>0, <3>1, <3>2, FilledIsWhen
  <2> DEFINE rest == Restrict(jw.report, DOMAIN jw.report \ {i})
             j == [jw EXCEPT !.report = rest]
  <2>3. /\ i \in Ident /\ jw.report[i].at \in When /\ jw.report[i].ttl \in TTL
        /\ rest \in UNION {[n -> [at: When, ttl: TTL]] : n \in SUBSET Ident}
    <3>1. PICK n \in SUBSET Ident : jw.report \in [n -> [at: When, ttl: TTL]]
      BY <1>0 DEF Job
    <3>2. rest \in [n \ {i} -> [at: When, ttl: TTL]]
      BY <3>1 DEF Restrict
    <3> QED
      BY <3>1, <3>2
  <2>4. JobBase(j) /\ j.op = "replace"
    <3> HIDE DEF rest
    <3> QED
      BY <1>0, <2>1, <2>3 DEF JobShape, JobBase, Job
  <2> HIDE DEF j
  <2>5. JobShape(BeginCreate(j, i, at, jw.report[i].ttl))
    BY <1>0, <2>2, <2>3, <2>4, BeginCreateShape
  <2> QED
    BY <1>10, <2>2, <2>5, ReadOnlyStep DEF ApplyCreate, j
<1>11. CASE DropRow(w)
  <2>1. jw.pc = "drop" /\ jw.op = "replace" /\ UNCHANGED <<now, nextId, dirtyReset>>
    BY <1>0, <1>11 DEF DropRow, jw, JobShape, JobReady
  <2>2. PICK i \in Overdue(jw) :
            /\ entry' \in {entry, Without({jw.found[i].key})}
            /\ Become(w, NextBlock([jw EXCEPT !.found[i] = NoKey]))
    BY <1>11 DEF DropRow, jw
  <2> DEFINE f == [jw.found EXCEPT ![i] = NoKey]
             j == [jw EXCEPT !.found = f]
  <2>3. f \in [Ident -> [key: Id \cup {0}, at: When]]
    <3>1. NoKey \in [key: Id \cup {0}, at: When]
      BY DEF NoKey, Time, When
    <3>2. jw.found \in [Ident -> [key: Id \cup {0}, at: When]]
      BY <1>0 DEF Job
    <3> QED
      BY <3>1, <3>2
  <2>4. JobBase(j) /\ j.op = "replace" /\ [jw EXCEPT !.found[i] = NoKey] = j
    <3>1. [jw EXCEPT !.found[i] = NoKey] = j
      OBVIOUS
    <3> HIDE DEF f
    <3> QED
      BY <1>0, <2>1, <2>3, <3>1 DEF JobShape, JobBase, Job
  <2> HIDE DEF j
  <2>5. JobShape(NextBlock(j))
    BY <1>0, <2>4, NextBlockShape
  <2> QED
    BY <2>1, <2>2, <2>4, <2>5, DelStep
<1>12. CASE FlushStart(w)
  <2>1. PICK s \in Server :
            Become(w, NextCollect([Idle EXCEPT !.op = "flush", !.srv = s, !.todo = DOMAIN entry]))
    BY <1>12 DEF FlushStart
  <2> DEFINE j == [Idle EXCEPT !.op = "flush", !.srv = s, !.todo = DOMAIN entry]
  <2>2. JobBase(j) /\ j.op = "flush"
    BY <1>0, <1>00, ZenonT(60) DEF JobShape, JobBase, Job
  <2> HIDE DEF j
  <2>3. JobShape(NextCollect(j))
    BY <1>0, <2>2, NextCollectShape
  <2> QED
    BY <1>12, <2>1, <2>3, ReadOnlyStep DEF FlushStart, j
<1>13. CASE CollectRow(w)
  <2>1. jw.pc = "collect" /\ jw.op = "flush"
    BY <1>0, <1>13 DEF CollectRow, jw, JobShape, JobReady
  <2>2. PICK k \in jw.todo :
            LET j == [jw EXCEPT !.todo = @ \ {k}] IN
            Become(w, NextCollect(IF k \in DOMAIN entry /\ entry[k].srv = j.srv
                                  THEN [j EXCEPT !.victims = @ \cup {k}]
                                  ELSE j))
    BY <1>13 DEF CollectRow, jw
  <2> DEFINE j == [jw EXCEPT !.todo = @ \ {k}]
             jv == [j EXCEPT !.victims = @ \cup {k}]
  <2>3. JobBase(j) /\ j.op = "flush" /\ JobBase(jv) /\ jv.op = "flush"
    BY <1>0, <2>1 DEF JobShape, JobBase, Job
  <2> HIDE DEF j, jv
  <2>4. JobShape(NextCollect(j)) /\ JobShape(NextCollect(jv))
    BY <1>0, <2>3, NextCollectShape
  <2>5. Become(w, NextCollect(j)) \/ Become(w, NextCollect(jv))
    BY <2>2 DEF j, jv
  <2> QED
    BY <1>13, <2>4, <2>5, ReadOnlyStep DEF CollectRow
<1>14. CASE FlushAllStart(w)
  <2> DEFINE j == [Idle EXCEPT !.op = "flushall", !.victims = DOMAIN entry]
  <2>1. Become(w, [j EXCEPT !.pc = IF j.victims = {} THEN "reset" ELSE "wipe"])
    BY <1>14 DEF FlushAllStart
  <2>2. JobBase(j)
    <3>1. j \in Job /\ j.op = "flushall" /\ j.t0 = Idle.t0 /\ j.block = Idle.block
      BY <1>0, <1>00 DEF Job
    <3> HIDE DEF j
    <3> QED
      BY <1>00, <3>1 DEF JobShape, JobBase
  <2>3. JobShape([j EXCEPT !.pc = IF j.victims = {} THEN "reset" ELSE "wipe"])
    <3> HIDE DEF j
    <3> QED
      BY <2>2, ZenonT(60) DEF JobShape, JobBase, JobReady, Job
  <2> HIDE DEF j
  <2> QED
    BY <1>14, <2>1, <2>3, ReadOnlyStep DEF FlushAllStart
<1>15. CASE WipeRows(w)
  <2> DEFINE j == [jw EXCEPT !.pc = "reset", !.victims = {}]
  <2>1. /\ entry' = Without(jw.victims) /\ UNCHANGED <<now, nextId, dirtyReset>>
        /\ Become(w, IF jw.op = "flushall" THEN j ELSE Idle)
    BY <1>15 DEF WipeRows, jw
  <2>2. JobShape(j)
    BY <1>0, ZenonT(60) DEF JobShape, JobBase, JobReady, Job
  <2> QED
    BY <1>00, <2>1, <2>2, DelStep
<1>16. CASE ResetCounter(w)
  <2>1. /\ nextId' = 0 /\ dirtyReset' \in BOOLEAN /\ Become(w, Idle)
        /\ UNCHANGED <<now, entry>>
    BY <1>16 DEF ResetCounter, TypeInv, TypeOK
  <2> QED
    BY <1>00, <2>1, OneJob DEF TypeInv, TypeOK
<1>17. CASE Abort(w)
  BY <1>00, <1>17, ReadOnlyStep DEF Abort
<1> QED
  BY <1>1, <1>2, <1>3, <1>4, <1>5, <1>6, <1>7, <1>8, <1>9, <1>10, <1>11, <1>12, <1>13,
     <1>14, <1>15, <1>16, <1>17 DEF Step

\* An operator's DEL removes one row.
LEMMA DeleteTypeInv == ASSUME TypeInv, NEW k \in Id, DeleteEntry(k) PROVE TypeInv'
<1>1. /\ DOMAIN entry' \subseteq DOMAIN entry /\ \A x \in DOMAIN entry' : entry'[x] = entry[x]
      /\ UNCHANGED <<now, nextId, job, dirtyReset>>
  BY WithoutRows DEF DeleteEntry
<1> QED
  BY <1>1 DEF TypeInv, TypeOK, JobShape, JobBase, JobReady

\* The clock only moves ahead, and takes the expired rows with it.
LEMMA TickTypeInv == ASSUME TypeInv, Tick PROVE TypeInv'
<1>1. /\ now' = now + 1 /\ now' \in 0 .. MaxNow /\ UNCHANGED <<nextId, job, dirtyReset>>
      /\ now \in 0 .. MaxNow
  BY DEF Tick, TypeInv, TypeOK
<1>2. /\ DOMAIN entry' \subseteq DOMAIN entry
      /\ \A k \in DOMAIN entry' : entry'[k] = entry[k] /\ entry[k].exp > now'
  BY <1>1 DEF Tick, Restrict
<1>3. TypeOK'
  BY <1>1, <1>2 DEF TypeInv, TypeOK
<1>4. ASSUME NEW v \in Worker PROVE JobShape(job[v])'
  <2>1. JobShape(job[v]) /\ job[v] \in Job /\ job[v].t0 \in Nat
    BY DEF TypeInv, JobShape, JobBase, Job, Time
  <2>2. job[v].block \in Block =>
           job[v].block.rem \in Nat /\ job[v].block.at \in Int /\ job[v].block.ttl \in Nat
    <3>1. \A b \in Block : b.rem \in Nat /\ b.at \in When /\ b.ttl \in TTL
      BY DEF Block
    <3> QED
      BY <3>1, TimesAreNat
  <2>3. job'[v] = job[v] /\ job[v].t0 <= now'
    BY <1>1, <2>1 DEF JobShape, JobBase
  <2>4. job[v].block \in Block /\ job[v].block.ttl > 0 =>
           now' + job[v].block.rem >= job[v].block.at + job[v].block.ttl
    BY <1>1, <2>1, <2>2 DEF JobShape, JobBase
  <2>5. JobBase(job[v])'
    BY <2>1, <2>3, <2>4 DEF JobShape, JobBase
  <2>6. JobReady(job[v])'
    <3>1. JobReady(job[v])
      BY <2>1 DEF JobShape
    <3> QED
      BY <2>3, <3>1 DEF JobReady
  <2> QED
    BY <2>5, <2>6 DEF JobShape
<1> QED
  BY <1>3, <1>4 DEF TypeInv

\* Every step of the store keeps the types.
LEMMA NextTypeInv == TypeInv /\ [Next]_vars => TypeInv'
<1> SUFFICES ASSUME TypeInv, [Next]_vars PROVE TypeInv'
  OBVIOUS
<1>1. CASE UNCHANGED vars
  BY <1>1 DEF vars, TypeInv, TypeOK, JobShape, JobBase, JobReady
<1>2. CASE Next
  BY <1>2, StepTypeInv, DeleteTypeInv, TickTypeInv DEF Next
<1> QED
  BY <1>1, <1>2

\* In every state the variables have their types, and a handler at a command holds what
\* that command needs: a block to SET, a key to write, a report to apply, rows to remove.
THEOREM TypeInvHolds == Spec => []TypeInv
  BY InitTypeInv, NextTypeInv, PTL DEF Spec

\* Every row the store ever holds is well formed and has a Redis expiry ahead of the
\* clock, for any interleaving of the handlers' commands.
THEOREM TypeCorrect == Spec => []TypeOK
<1>1. TypeInv => TypeOK
  BY DEF TypeInv
<1> QED
  BY <1>1, TypeInvHolds, PTL

-----------------------------------------------------------------------------
(* Ids: the keys a handler holds after a command are keys it held before, or *)
(* keys whose row it has just read, or the id it has just been given.        *)

JobFields == {"pc", "op", "srv", "t0", "todo", "key", "block", "report", "named", "found", "victims"}

Bounded(j) == \A k \in Held(j) : k <= nextId

\* A handler outside the store holds no key.
LEMMA IdleHoldsNothing == ASSUME NEW own PROVE Respects(Idle, own) /\ Held(Idle) = {}
<1>1. /\ Idle.pc = "idle" /\ Idle.key = 0 /\ Idle.victims = {}
      /\ \A i \in Ident : Idle.found[i].key = 0
  BY DEF Idle, NoKey
<1> QED
  BY <1>1 DEF Respects, Knows, Held

\* Moving on to another command that uses no key in hand.
LEMMA MoveOn ==
    ASSUME NEW j, DOMAIN j = JobFields, NEW own, Knows(j, own),
           NEW pc \in {"match", "read", "apply", "drop", "collect", "wipe", "reset"}
    PROVE  Respects([j EXCEPT !.pc = pc], own) /\ Held([j EXCEPT !.pc = pc]) = Held(j)
<1> DEFINE m == [j EXCEPT !.pc = pc]
<1>1. /\ m.pc = pc /\ m.key = j.key /\ m.found = j.found /\ m.victims = j.victims
      /\ m.srv = j.srv
  BY DEF JobFields
<1> HIDE DEF m
<1>2. Respects(m, own) /\ Held(m) = Held(j)
  BY <1>1 DEF Respects, Knows, Held
<1> QED
  BY <1>2 DEF m

\* Going on to the next command of an operation takes no new key in hand.
LEMMA NextHolds ==
    ASSUME NEW j, DOMAIN j = JobFields, NEW own, Knows(j, own), NEW m \in {NextBlock(j), NextRead(j), NextCollect(j)}
    PROVE  Respects(m, own) /\ Held(m) \subseteq Held(j)
<1>1. \/ m = Idle
      \/ m = [j EXCEPT !.pc = "apply"] \/ m = [j EXCEPT !.pc = "drop"]
      \/ m = [j EXCEPT !.pc = "read"]
      \/ m = [j EXCEPT !.pc = "collect"] \/ m = [j EXCEPT !.pc = "wipe"]
  BY DEF NextBlock, NextRead, NextCollect
<1>2. CASE m = Idle
  BY <1>2, IdleHoldsNothing
<1>3. CASE m = [j EXCEPT !.pc = "apply"]
  BY <1>3, MoveOn
<1>4. CASE m = [j EXCEPT !.pc = "drop"]
  BY <1>4, MoveOn
<1>5. CASE m = [j EXCEPT !.pc = "read"]
  BY <1>5, MoveOn
<1>6. CASE m = [j EXCEPT !.pc = "collect"]
  BY <1>6, MoveOn
<1>7. CASE m = [j EXCEPT !.pc = "wipe"]
  BY <1>7, MoveOn
<1> QED
  BY <1>1, <1>2, <1>3, <1>4, <1>5, <1>6, <1>7

\* What a command of handler w leaves in its hands.
LEMMA StepHolds ==
    ASSUME TypeInv, NEW w \in Worker, Step(w), ~NewId(w),
           NEW own, Assigned(own)
    PROVE  Respects(job'[w], own) /\ \A k \in Held(job'[w]) : k <= nextId
<1> DEFINE jw == job[w]
<1>0. /\ JobShape(jw) /\ jw \in Job /\ DOMAIN jw = JobFields /\ DOMAIN Idle = JobFields
      /\ Respects(jw, own) /\ Knows(jw, own) /\ Bounded(jw)
  <2>1. now \in 0 .. MaxNow
    BY DEF TypeInv, TypeOK
  <2> QED
    BY <2>1, IdleShape DEF TypeInv, JobShape, JobBase, Assigned, Respects, Bounded, Job, JobFields
<1>r. \A k \in DOMAIN entry : k <= nextId /\ own[k] = <<entry[k].srv, entry[k].ident>>
  BY DEF Assigned
<1>j. \A j : Become(w, j) => job'[w] = j
  BY DEF Become, TypeInv, TypeOK
<1>i. Respects(Idle, own) /\ Knows(Idle, own) /\ Held(Idle) = {} /\ Bounded(Idle)
  BY IdleHoldsNothing DEF Respects, Bounded
<1> HIDE DEF jw
<1> DEFINE Good(j) == Respects(j, own) /\ Bounded(j)
<1>n. ASSUME NEW o, DOMAIN o = JobFields, Knows(o, own), Bounded(o),
             NEW m \in {NextBlock(o), NextRead(o), NextCollect(o)}
      PROVE  Good(m)
  BY <1>n, NextHolds DEF Bounded
<1>m. ASSUME NEW o, DOMAIN o = JobFields, Knows(o, own), Bounded(o),
             NEW pc \in {"match", "read", "apply", "drop", "collect", "wipe", "reset"}
      PROVE  Good([o EXCEPT !.pc = pc])
  BY <1>m, MoveOn DEF Bounded
\* A job that differs from jw in other fields than its keys.
<1>s. ASSUME NEW o, DOMAIN o = JobFields, o.srv = jw.srv, o.found = jw.found, o.victims = jw.victims,
             o.key \in {jw.key, 0}
      PROVE  Knows(o, own) /\ Bounded(o)
  BY <1>0, <1>s DEF Knows, Bounded, Held
\* A job made of Idle, without keys.
<1>e. ASSUME NEW o, DOMAIN o = JobFields, o.found = Idle.found, o.victims = {}, o.key = 0
      PROVE  Knows(o, own) /\ Bounded(o)
  <2>1. \A i \in Ident : Idle.found[i].key = 0
    BY DEF Idle, NoKey
  <2> QED
    BY <1>e, <2>1 DEF Knows, Bounded, Held
<1>1. ASSUME CreateStart(w) PROVE Good(job'[w])
  <2>1. PICK s \in Server, i \in Ident, at \in Stamp, ttl \in TTL :
            Become(w, BeginCreate([Idle EXCEPT !.op = "create", !.srv = s], i, at, ttl))
    BY <1>1 DEF CreateStart
  <2> DEFINE o == [Idle EXCEPT !.op = "create", !.srv = s, !.todo = DOMAIN entry,
                        !.block = [ident |-> i, at |-> Restamp(at, ttl, now), ttl |-> ttl,
                                   rem |-> Remaining(at, ttl, now)]]
  <2>2. /\ DOMAIN o = JobFields /\ o.found = Idle.found /\ o.victims = {} /\ o.key = 0
        /\ job'[w] = [o EXCEPT !.pc = "match"]
    BY <1>0, <1>j, <2>1 DEF BeginCreate, Idle, JobFields
  <2> HIDE DEF o
  <2> QED
    BY <1>e, <1>m, <2>2, ZenonT(60)
<1>2. ASSUME MatchKey(w) PROVE Good(job'[w])
  <2>1. PICK k \in jw.todo :
            Become(w, IF k \in DOMAIN entry /\ SameBlock(k, jw.srv, jw.block.ident)
                      THEN [jw EXCEPT !.pc = "set", !.key = k, !.todo = {}]
                      ELSE [jw EXCEPT !.todo = @ \ {k}])
    BY <1>2 DEF MatchKey, jw
  <2>2. jw.pc = "match" /\ jw.found \in [Ident -> [key: Id \cup {0}, at: When]]
    BY <1>0, <1>2 DEF MatchKey, jw, Job
  <2>3. CASE job'[w] = [jw EXCEPT !.todo = @ \ {k}]
    <3>1. /\ job'[w].pc = "match" /\ job'[w].key = jw.key /\ job'[w].found = jw.found
          /\ job'[w].victims = jw.victims /\ job'[w].srv = jw.srv
      BY <1>0, <2>2, <2>3 DEF JobFields
    <3> QED
      BY <1>0, <3>1 DEF Respects, Knows, Bounded, Held
  <2>4. CASE job'[w] = [jw EXCEPT !.pc = "set", !.key = k, !.todo = {}]
             /\ k \in DOMAIN entry /\ SameBlock(k, jw.srv, jw.block.ident)
    <3>1. /\ job'[w].pc = "set" /\ job'[w].key = k /\ job'[w].found = jw.found
          /\ job'[w].victims = jw.victims /\ job'[w].srv = jw.srv /\ job'[w].block = jw.block
      BY <1>0, <2>4 DEF JobFields
    <3>2. own[k] = <<jw.srv, jw.block.ident>> /\ k <= nextId
      BY <1>r, <2>4 DEF SameBlock
    <3> QED
      BY <1>0, <3>1, <3>2 DEF Respects, Knows, Bounded, Held
  <2> QED
    BY <1>j, <2>1, <2>3, <2>4
<1>4. ASSUME StoreRow(w) PROVE Good(job'[w])
  <2> DEFINE o == [jw EXCEPT !.key = 0, !.block = NoBlock]
  <2>1. job'[w] = Idle \/ job'[w] = NextBlock(o)
    BY <1>4, <1>j DEF StoreRow, jw
  <2>2. /\ DOMAIN o = JobFields /\ o.srv = jw.srv /\ o.found = jw.found
        /\ o.victims = jw.victims /\ o.key = 0
    BY <1>0 DEF JobFields
  <2> HIDE DEF o
  <2> QED
    BY <1>i, <1>n, <1>s, <2>1, <2>2
<1>5. ASSUME ReplaceStart(w) PROVE Good(job'[w])
  <2>1. PICK s \in Server, named \in SUBSET Ident :
            \E report \in [named -> [at: Stamp, ttl: TTL]] :
            Become(w, NextRead([Idle EXCEPT !.op = "replace", !.srv = s, !.t0 = now,
                                            !.todo = DOMAIN entry,
                                            !.report = report, !.named = named]))
    BY <1>5 DEF ReplaceStart
  <2>2. PICK report :
            Become(w, NextRead([Idle EXCEPT !.op = "replace", !.srv = s, !.t0 = now,
                                            !.todo = DOMAIN entry,
                                            !.report = report, !.named = named]))
    BY <2>1
  <2> DEFINE o == [Idle EXCEPT !.op = "replace", !.srv = s, !.t0 = now, !.todo = DOMAIN entry,
                               !.report = report, !.named = named]
  <2>3. /\ DOMAIN o = JobFields /\ o.found = Idle.found /\ o.victims = {} /\ o.key = 0
        /\ job'[w] = NextRead(o)
    BY <1>0, <1>j, <2>2 DEF Idle, JobFields
  <2> HIDE DEF o
  <2> QED
    BY <1>e, <1>n, <2>3
<1>6. ASSUME ListStart(w) PROVE Good(job'[w])
  <2>1. PICK s :
            Become(w, NextRead([Idle EXCEPT !.op = "list", !.srv = s, !.todo = DOMAIN entry]))
    BY <1>6 DEF ListStart
  <2> DEFINE o == [Idle EXCEPT !.op = "list", !.srv = s, !.todo = DOMAIN entry]
  <2>2. /\ DOMAIN o = JobFields /\ o.found = Idle.found /\ o.victims = {} /\ o.key = 0
        /\ job'[w] = NextRead(o)
    BY <1>0, <1>j, <2>1 DEF Idle, JobFields
  <2> HIDE DEF o
  <2> QED
    BY <1>e, <1>n, <2>2
<1>7. ASSUME ReadRow(w) PROVE Good(job'[w])
  <2>1. PICK k \in jw.todo :
            LET j == [jw EXCEPT !.todo = @ \ {k}] IN
            IF k \notin DOMAIN entry \/ ~Concerns(j, k)
            THEN Become(w, NextRead(j))
            ELSE IF ~Active(entry[k].at, entry[k].ttl, ReadTime(j))
            THEN Become(w, [j EXCEPT !.pc = "purge", !.key = k])
            ELSE IF j.op = "list"
            THEN Become(w, NextRead(j))
            ELSE Become(w, NextRead([j EXCEPT !.found[entry[k].ident] =
                                        [key |-> k, at |-> entry[k].at]]))
    BY <1>7 DEF ReadRow, jw
  <2> DEFINE o == [jw EXCEPT !.todo = @ \ {k}]
             f == [jw.found EXCEPT ![entry[k].ident] = [key |-> k, at |-> entry[k].at]]
             op == [o EXCEPT !.pc = "purge", !.key = k]
             of == [o EXCEPT !.found = f]
  <2>2. /\ DOMAIN o = JobFields /\ o.srv = jw.srv /\ o.found = jw.found
        /\ o.victims = jw.victims /\ o.key = jw.key /\ o.op = jw.op
    BY <1>0 DEF JobFields
  <2>3. /\ op.pc = "purge" /\ op.key = k /\ op.srv = jw.srv /\ op.found = jw.found
        /\ op.victims = jw.victims
    BY <1>0 DEF JobFields
  <2>4. /\ DOMAIN of = JobFields /\ of.srv = jw.srv /\ of.found = f
        /\ of.victims = jw.victims /\ of.key = jw.key
    BY <1>0 DEF JobFields
  <2>5. [o EXCEPT !.found[entry[k].ident] = [key |-> k, at |-> entry[k].at]] = of
    BY <2>2
  <2> HIDE DEF o, op, of
  <2>6. jw.found \in [Ident -> [key: Id \cup {0}, at: When]] /\ jw.op \in {"replace", "list"}
    BY <1>0, <1>7 DEF Job, JobShape, JobReady, ReadRow, jw
  <2>7. CASE job'[w] = NextRead(o)
    BY <1>n, <1>s, <2>2, <2>7
  <2>8. CASE job'[w] = op /\ k \in DOMAIN entry /\ Concerns(o, k)
    <3>1. k <= nextId /\ own[k] = <<entry[k].srv, entry[k].ident>>
      BY <1>r, <2>8
    <3>2. jw.srv \in Server => own[k][1] = jw.srv
      BY <2>2, <2>8, <3>1 DEF Concerns
    <3> QED
      BY <1>0, <2>3, <2>8, <3>1, <3>2 DEF Respects, Knows, Bounded, Held
  <2>9. CASE job'[w] = NextRead(of) /\ k \in DOMAIN entry /\ Concerns(o, k) /\ jw.op # "list"
    <3>1. k <= nextId /\ own[k] = <<entry[k].srv, entry[k].ident>>
      BY <1>r, <2>9
    <3>2. jw.srv \in Server /\ entry[k].srv = jw.srv
      BY <1>0, <2>2, <2>6, <2>9 DEF Concerns, JobShape, JobBase
    <3>3. \A i \in Ident : f[i] = IF i = entry[k].ident THEN [key |-> k, at |-> entry[k].at]
                                  ELSE jw.found[i]
      BY <2>6
    <3> HIDE DEF f
    <3>4. Knows(of, own)
      BY <1>0, <2>4, <3>1, <3>2, <3>3 DEF Knows
    <3>5. Bounded(of)
      BY <1>0, <2>4, <3>1, <3>3 DEF Bounded, Held
    <3> QED
      BY <1>n, <2>4, <2>9, <3>4, <3>5
  <2> QED
    BY <1>j, <2>1, <2>2, <2>5, <2>7, <2>8, <2>9 DEF o, op
<1>8. ASSUME PurgeRow(w) PROVE Good(job'[w])
  <2> DEFINE o == [jw EXCEPT !.key = 0]
  <2>1. job'[w] = NextRead(o)
    BY <1>8, <1>j DEF PurgeRow, jw
  <2>2. /\ DOMAIN o = JobFields /\ o.srv = jw.srv /\ o.found = jw.found
        /\ o.victims = jw.victims /\ o.key = 0
    BY <1>0 DEF JobFields
  <2> HIDE DEF o
  <2> QED
    BY <1>n, <1>s, <2>1, <2>2
<1>9. ASSUME ApplyRefresh(w) PROVE Good(job'[w])
  <2>1. PICK rest : Become(w, NextBlock([jw EXCEPT !.report = rest]))
    BY <1>9 DEF ApplyRefresh, jw
  <2> DEFINE o == [jw EXCEPT !.report = rest]
  <2>2. /\ DOMAIN o = JobFields /\ o.srv = jw.srv /\ o.found = jw.found
        /\ o.victims = jw.victims /\ o.key = jw.key /\ job'[w] = NextBlock(o)
    BY <1>0, <1>j, <2>1 DEF JobFields
  <2> HIDE DEF o
  <2> QED
    BY <1>n, <1>s, <2>2
<1>10. ASSUME ApplyCreate(w) PROVE Good(job'[w])
  <2>1. PICK rest, i, at, ttl : Become(w, BeginCreate([jw EXCEPT !.report = rest], i, at, ttl))
    BY <1>10 DEF ApplyCreate, jw
  <2> DEFINE o == [jw EXCEPT !.report = rest, !.todo = DOMAIN entry,
                        !.block = [ident |-> i, at |-> Restamp(at, ttl, now), ttl |-> ttl,
                                   rem |-> Remaining(at, ttl, now)]]
  <2>2. /\ DOMAIN o = JobFields /\ o.srv = jw.srv /\ o.found = jw.found
        /\ o.victims = jw.victims /\ o.key = jw.key /\ job'[w] = [o EXCEPT !.pc = "match"]
    BY <1>0, <1>j, <2>1 DEF BeginCreate, JobFields
  <2> HIDE DEF o
  <2> QED
    BY <1>m, <1>s, <2>2
<1>11. ASSUME DropRow(w) PROVE Good(job'[w])
  <2>1. PICK i : Become(w, NextBlock([jw EXCEPT !.found[i] = NoKey]))
    BY <1>11 DEF DropRow, jw
  <2> DEFINE f == [jw.found EXCEPT ![i] = NoKey]
             o == [jw EXCEPT !.found = f]
  <2>2. /\ DOMAIN o = JobFields /\ o.srv = jw.srv /\ o.found = f
        /\ o.victims = jw.victims /\ o.key = jw.key /\ job'[w] = NextBlock(o)
    BY <1>0, <1>j, <2>1 DEF JobFields
  <2> HIDE DEF o
  <2>3. \A x \in Ident : f[x].key \in {0, jw.found[x].key}
    BY <1>0 DEF Job, NoKey
  <2>4. \A x \in Ident : f[x].key # 0 => f[x].key = jw.found[x].key
    BY <2>3
  <2> HIDE DEF f
  <2>5. Knows(o, own)
    BY <1>0, <2>2, <2>4 DEF Knows
  <2>6. Bounded(o)
    BY <1>0, <2>2, <2>4 DEF Bounded, Held
  <2> QED
    BY <1>n, <2>2, <2>5, <2>6
<1>12. ASSUME FlushStart(w) PROVE Good(job'[w])
  <2>1. PICK s :
            Become(w, NextCollect([Idle EXCEPT !.op = "flush", !.srv = s, !.todo = DOMAIN entry]))
    BY <1>12 DEF FlushStart
  <2> DEFINE o == [Idle EXCEPT !.op = "flush", !.srv = s, !.todo = DOMAIN entry]
  <2>2. /\ DOMAIN o = JobFields /\ o.found = Idle.found /\ o.victims = {} /\ o.key = 0
        /\ job'[w] = NextCollect(o)
    BY <1>0, <1>j, <2>1 DEF Idle, JobFields
  <2> HIDE DEF o
  <2> QED
    BY <1>e, <1>n, <2>2
<1>13. ASSUME CollectRow(w) PROVE Good(job'[w])
  <2>1. PICK k \in jw.todo :
            LET j == [jw EXCEPT !.todo = @ \ {k}] IN
            Become(w, NextCollect(IF k \in DOMAIN entry /\ entry[k].srv = j.srv
                                  THEN [j EXCEPT !.victims = @ \cup {k}]
                                  ELSE j))
    BY <1>13 DEF CollectRow, jw
  <2> DEFINE o == [jw EXCEPT !.todo = @ \ {k}]
             ov == [o EXCEPT !.victims = @ \cup {k}]
  <2>2. /\ DOMAIN o = JobFields /\ o.srv = jw.srv /\ o.found = jw.found
        /\ o.victims = jw.victims /\ o.key = jw.key
    BY <1>0 DEF JobFields
  <2>3. /\ DOMAIN ov = JobFields /\ ov.srv = jw.srv /\ ov.found = jw.found
        /\ ov.victims = jw.victims \cup {k} /\ ov.key = jw.key
    BY <1>0 DEF JobFields
  <2> HIDE DEF o, ov
  <2>4. CASE job'[w] = NextCollect(o)
    BY <1>n, <1>s, <2>2, <2>4
  <2>5. CASE job'[w] = NextCollect(ov) /\ k \in DOMAIN entry /\ entry[k].srv = jw.srv
    <3>1. k <= nextId /\ own[k][1] = jw.srv
      BY <1>r, <2>5
    <3> QED
      BY <1>0, <1>n, <2>3, <2>5, <3>1, ZenonT(60) DEF Knows, Bounded, Held
  <2> QED
    BY <1>j, <2>1, <2>2, <2>4, <2>5 DEF o, ov
<1>14. ASSUME FlushAllStart(w) PROVE Good(job'[w])
  <2> DEFINE o == [Idle EXCEPT !.op = "flushall", !.victims = DOMAIN entry]
  <2>1. job'[w] = [o EXCEPT !.pc = IF o.victims = {} THEN "reset" ELSE "wipe"]
    BY <1>14, <1>j DEF FlushAllStart
  <2>2. /\ DOMAIN o = JobFields /\ o.found = Idle.found /\ o.victims = DOMAIN entry
        /\ o.key = 0 /\ o.srv = AllServers
    BY <1>0 DEF Idle, JobFields
  <2> HIDE DEF o
  <2>3. Knows(o, own) /\ Bounded(o)
    <3>1. \A i \in Ident : Idle.found[i].key = 0
      BY DEF Idle, NoKey
    <3> QED
      BY <1>r, <2>2, <3>1, ServerAssumption DEF Knows, Bounded, Held
  <2>4. Good([o EXCEPT !.pc = "reset"]) /\ Good([o EXCEPT !.pc = "wipe"])
    BY <1>m, <2>2, <2>3
  <2> QED
    BY <2>1, <2>4
<1>15. ASSUME WipeRows(w) PROVE Good(job'[w])
  <2> DEFINE o == [jw EXCEPT !.victims = {}]
  <2>1. job'[w] = Idle \/ job'[w] = [jw EXCEPT !.pc = "reset", !.victims = {}]
    BY <1>15, <1>j DEF WipeRows, jw
  <2>2. [jw EXCEPT !.pc = "reset", !.victims = {}] = [o EXCEPT !.pc = "reset"]
    BY <1>0 DEF JobFields
  <2>3. /\ DOMAIN o = JobFields /\ o.srv = jw.srv /\ o.found = jw.found
        /\ o.victims = {} /\ o.key = jw.key
    BY <1>0 DEF JobFields
  <2> HIDE DEF o
  <2>4. Knows(o, own) /\ Bounded(o)
    BY <1>0, <2>3 DEF Knows, Bounded, Held
  <2>5. Good([o EXCEPT !.pc = "reset"])
    BY <1>m, <2>3, <2>4
  <2> QED
    BY <1>i, <2>1, <2>2, <2>5
<1>16. ASSUME ResetCounter(w) \/ Abort(w) PROVE Good(job'[w])
  <2>1. job'[w] = Idle
    BY <1>16, <1>j DEF ResetCounter, Abort
  <2> QED
    BY <1>i, <2>1
<1> QED
  BY <1>1, <1>2, <1>4, <1>5, <1>6, <1>7, <1>8, <1>9, <1>10, <1>11, <1>12, <1>13,
     <1>14, <1>15, <1>16 DEF Step, Bounded

-----------------------------------------------------------------------------
(* Rows: what the commands of one handler write and remove. *)

\* The row a SET of handler j stores under k.
Writes(j, k, row) ==
    /\ j.srv \in Server /\ row.srv = j.srv
    /\ \/ j.pc = "set" /\ k = j.key /\ row.ident = j.block.ident
       \/ k # 0 /\ row.ident \in Ident /\ k = j.found[row.ident].key
    /\ row.ttl > 0 => row.exp >= row.at + row.ttl

\* The rows a DEL of handler j removes.
Deletes(j, k) ==
    \/ j.pc = "purge" /\ k = j.key
    \/ k # 0 /\ \E i \in Ident : k = j.found[i].key
    \/ k \in j.victims

\* Which rows each command of a handler writes and removes.
LEMMA StepRows ==
    ASSUME TypeInv, NEW w \in Worker, Step(w)
    PROVE  /\ now' = now
           /\ \A v \in Worker : v # w => job'[v] = job[v]
           /\ NewId(w) \/ ResetCounter(w) \/ UNCHANGED <<nextId, dirtyReset>>
           /\ \A k \in DOMAIN entry' :
                 (k \in DOMAIN entry /\ entry'[k] = entry[k]) \/ Writes(job[w], k, entry'[k])
           /\ \A k \in DOMAIN entry \ DOMAIN entry' : Deletes(job[w], k)
<1> DEFINE jw == job[w]
           Rows == /\ \A k \in DOMAIN entry' :
                         (k \in DOMAIN entry /\ entry'[k] = entry[k]) \/ Writes(jw, k, entry'[k])
                   /\ \A k \in DOMAIN entry \ DOMAIN entry' : Deletes(jw, k)
<1>0. /\ JobShape(jw) /\ jw \in Job /\ now \in 0 .. MaxNow
      /\ DOMAIN entry \subseteq Id /\ 0 \notin Id
  BY DEF TypeInv, TypeOK, JobShape, JobBase, Id
<1>1. now' = now /\ \A v \in Worker : v # w => job'[v] = job[v]
  BY DEF Step, Become, TypeInv, TypeOK, CreateStart, MatchKey, NewId, StoreRow, ReplaceStart,
     ListStart, ReadRow, PurgeRow, ApplyRefresh, ApplyCreate, DropRow, FlushStart, CollectRow,
     FlushAllStart, WipeRows, ResetCounter, Abort
<1>2. NewId(w) \/ ResetCounter(w) \/ UNCHANGED <<nextId, dirtyReset>>
  BY DEF Step, CreateStart, MatchKey, StoreRow, ReplaceStart,
     ListStart, ReadRow, PurgeRow, ApplyRefresh, ApplyCreate, DropRow, FlushStart, CollectRow,
     FlushAllStart, WipeRows, Abort
<1>3. CASE entry' = entry
  BY <1>1, <1>2, <1>3
<1>4. CASE StoreRow(w)
  <2> DEFINE b == jw.block
             row == [srv |-> jw.srv, ident |-> b.ident, at |-> b.at, ttl |-> b.ttl,
                     exp |-> now + b.rem]
  <2>1. jw.pc = "set" /\ entry' = Put(jw.key, row)
    BY <1>4 DEF StoreRow, jw
  <2>2. jw.srv \in Server /\ (b.ttl > 0 => now + b.rem >= b.at + b.ttl)
    BY <1>0, <2>1 DEF JobShape, JobBase, JobReady
  <2>3. Writes(jw, jw.key, row)
    BY <2>1, <2>2 DEF Writes
  <2> HIDE DEF row
  <2>4. Rows
    BY <2>1, <2>3 DEF Put
  <2> QED
    BY <1>1, <1>2, <2>4
<1>5. CASE ApplyRefresh(w)
  <2>1. PICK i \in DOMAIN jw.report :
            /\ jw.found[i].key # 0
            /\ entry' = Put(jw.found[i].key,
                            [srv |-> jw.srv, ident |-> i,
                             at |-> Restamp(jw.report[i].at, jw.report[i].ttl, jw.t0),
                             ttl |-> jw.report[i].ttl,
                             exp |-> now + Remaining(jw.report[i].at, jw.report[i].ttl, jw.t0)])
    BY <1>5 DEF ApplyRefresh, jw
  <2> DEFINE p == jw.report[i]
             row == [srv |-> jw.srv, ident |-> i, at |-> Restamp(p.at, p.ttl, jw.t0),
                     ttl |-> p.ttl, exp |-> now + Remaining(p.at, p.ttl, jw.t0)]
  <2>2. jw.pc = "apply" /\ jw.srv \in Server
    BY <1>0, <1>5 DEF ApplyRefresh, jw, JobShape, JobBase, JobReady
  <2>3. i \in Ident /\ p \in [at: When, ttl: TTL] /\ jw.t0 \in Time /\ jw.t0 <= now
    BY <1>0 DEF Job, JobShape, JobBase
  <2>4. p.at \in When /\ p.ttl \in TTL /\ p.ttl \in Nat /\ jw.t0 \in 0 .. MaxNow /\ Time \subseteq Nat
    <3>1. Time \subseteq Nat /\ TTL \subseteq Nat
      BY DEF Time
    <3>2. \A t \in Time : t <= now => t \in 0 .. MaxNow
      BY <1>0 DEF Time
    <3>3. p.at \in When /\ p.ttl \in TTL
      BY <2>3
    <3> QED
      BY <2>3, <3>1, <3>2, <3>3
  <2> HIDE DEF p
  <2>5. p.ttl > 0 => now + Remaining(p.at, p.ttl, jw.t0) >= Restamp(p.at, p.ttl, jw.t0) + p.ttl
    <3> DEFINE r == Remaining(p.at, p.ttl, jw.t0)
               s == Restamp(p.at, p.ttl, jw.t0)
    <3>1. r \in Nat /\ s \in When /\ (p.ttl > 0 => jw.t0 + r >= s + p.ttl)
      BY <2>4, LifetimeCoversBlock
    <3> HIDE DEF r, s
    <3>2. s \in Int /\ jw.t0 \in Nat /\ now \in Nat /\ p.ttl \in Nat
      <4>1. now \in Nat
        BY <1>0
      <4>2. s \in Int /\ p.ttl \in Nat
        BY <2>4, <3>1, TimesAreNat
      <4>3. jw.t0 \in Nat
        BY <2>4
      <4> QED
        BY <4>1, <4>2, <4>3
    <3>3. p.ttl > 0 => now + r >= s + p.ttl
      BY <2>3, <3>1, <3>2
    <3> QED
      BY <3>3 DEF r, s
  <2>6. Writes(jw, jw.found[i].key, row)
    BY <2>1, <2>2, <2>3, <2>5 DEF Writes
  <2>7. entry' = Put(jw.found[i].key, row)
    BY <2>1 DEF p
  <2> HIDE DEF row
  <2>8. Rows
    BY <2>6, <2>7 DEF Put
  <2> QED
    BY <1>1, <1>2, <2>8
<1>6. ASSUME NEW keys, entry' = Without(keys), \A k \in keys \cap Id : Deletes(jw, k)
      PROVE  Rows
  BY <1>0, <1>6, WithoutRows
<1>7. CASE PurgeRow(w)
  <2>1. jw.pc = "purge" /\ entry' \in {entry, Without({jw.key})}
    BY <1>7 DEF PurgeRow, jw
  <2>2. \A k \in {jw.key} \cap Id : Deletes(jw, k)
    BY <2>1 DEF Deletes
  <2> QED
    BY <1>1, <1>2, <1>3, <1>6, <2>1, <2>2
<1>8. CASE DropRow(w)
  <2>1. PICK i \in Overdue(jw) : entry' \in {entry, Without({jw.found[i].key})}
    BY <1>8 DEF DropRow, jw
  <2>2. \A k \in {jw.found[i].key} \cap Id : Deletes(jw, k)
    BY <1>0, <2>1 DEF Deletes, Overdue
  <2> QED
    BY <1>1, <1>2, <1>3, <1>6, <2>1, <2>2
<1>9. CASE WipeRows(w)
  <2>1. entry' = Without(jw.victims)
    BY <1>9 DEF WipeRows, jw
  <2>2. \A k \in jw.victims \cap Id : Deletes(jw, k)
    BY DEF Deletes
  <2> QED
    BY <1>1, <1>2, <1>6, <2>1, <2>2
<1> QED
  BY <1>3, <1>4, <1>5, <1>7, <1>8, <1>9
     DEF Step, CreateStart, MatchKey, NewId, ReplaceStart, ListStart, ReadRow, ApplyCreate,
     FlushStart, CollectRow, FlushAllStart, ResetCounter, Abort

\* A handler that respects the assignment writes and removes rows of its own block or edge.
LEMMA OwnRows ==
    ASSUME NEW j, NEW own, Respects(j, own), NEW k
    PROVE  /\ \A row : Writes(j, k, row) => own[k] = <<row.srv, row.ident>>
           /\ Deletes(j, k) /\ j.srv \in Server => own[k][1] = j.srv
<1>1. \A i \in Ident : j.found[i].key # 0 => own[j.found[i].key] = <<j.srv, i>>
  BY DEF Respects, Knows
<1>2. ASSUME NEW row, Writes(j, k, row) PROVE own[k] = <<row.srv, row.ident>>
  BY <1>1, <1>2 DEF Respects, Writes
<1>3. ASSUME Deletes(j, k), j.srv \in Server PROVE own[k][1] = j.srv
  <2>1. CASE j.pc = "purge" /\ k = j.key
    BY <1>3, <2>1 DEF Respects
  <2>2. CASE k # 0 /\ \E i \in Ident : k = j.found[i].key
    BY <1>1, <2>2
  <2>3. CASE k \in j.victims
    BY <1>3, <2>3 DEF Respects, Knows
  <2> QED
    BY <1>3, <2>1, <2>2, <2>3 DEF Deletes
<1> QED
  BY <1>2, <1>3

-----------------------------------------------------------------------------
(* Every id handed out keeps one block, until the counter is dropped while   *)
(* an id is in use.                                                          *)

\* Commands other than INCR and the DEL of the counter keep the assignment.
LEMMA StepAssigned ==
    ASSUME TypeInv, NEW w \in Worker, Step(w), ~NewId(w), ~ResetCounter(w),
           NEW own, Assigned(own)
    PROVE  Assigned(own)'
<1>1. /\ nextId' = nextId /\ \A v \in Worker : v # w => job'[v] = job[v]
      /\ \A k \in DOMAIN entry' :
            (k \in DOMAIN entry /\ entry'[k] = entry[k]) \/ Writes(job[w], k, entry'[k])
  BY StepRows
<1>2. \A v \in Worker : Respects(job[v], own) /\ \A k \in Held(job[v]) : k <= nextId
  BY DEF Assigned
<1>3. ASSUME NEW k \in DOMAIN entry'
      PROVE  k <= nextId' /\ own[k] = <<entry'[k].srv, entry'[k].ident>>
  <2>1. CASE k \in DOMAIN entry /\ entry'[k] = entry[k]
    BY <1>1, <2>1 DEF Assigned
  <2>2. CASE Writes(job[w], k, entry'[k])
    <3>1. own[k] = <<entry'[k].srv, entry'[k].ident>>
      BY <1>2, <2>2, OwnRows
    <3>2. k \in Held(job[w])
      <4>1. job[w].pc = "set" => job[w].key # 0
        BY DEF TypeInv, JobShape, JobReady
      <4> QED
        BY <2>2, <4>1 DEF Writes, Held
    <3> QED
      BY <1>1, <1>2, <3>1, <3>2
  <2> QED
    BY <1>1, <1>3, <2>1, <2>2
<1>4. \A v \in Worker : Respects(job'[v], own) /\ \A k \in Held(job'[v]) : k <= nextId'
  BY <1>1, <1>2, StepHolds
<1>5. \A v \in Worker : /\ Respects(job[v], own)'
                        /\ \A k \in Held(job[v])' : k <= nextId'
  BY <1>4 DEF Respects, Knows, Held
<1> QED
  BY <1>3, <1>5 DEF Assigned

\* An INCR hands out an id that no row and no handler uses.
LEMMA NewIdAssigned ==
    ASSUME TypeInv, NEW w \in Worker, NewId(w),
           NEW own \in [Id -> Owner], Assigned(own)
    PROVE  \E new \in [Id -> Owner] : Assigned(new)'
<1> DEFINE jw == job[w]
           with == [own EXCEPT ![nextId + 1] = <<jw.srv, jw.block.ident>>]
<1>1. /\ JobShape(jw) /\ jw \in Job /\ nextId \in Nat /\ nextId + 1 \in Id
      /\ \A v \in Worker : job[v] \in Job
  BY DEF TypeInv, TypeOK, JobShape, JobBase, NewId, Id
<1>2. jw.srv \in Server /\ jw.block.ident \in Ident /\ jw.pc = "match"
  <2>1. jw.pc = "match"
    BY DEF NewId
  <2>2. jw.op \in {"create", "replace"} /\ jw.block \in Block
    BY <1>1, <2>1 DEF JobShape, JobReady
  <2> QED
    BY <1>1, <2>1, <2>2 DEF JobShape, JobBase, Block
<1>3. PICK new : /\ new \in [Id -> Owner]
                 /\ new[nextId + 1] = <<jw.srv, jw.block.ident>>
                 /\ \A k \in Id : k # nextId + 1 => new[k] = own[k]
  <2>1. /\ with \in [Id -> Owner]
        /\ with[nextId + 1] = <<jw.srv, jw.block.ident>>
        /\ \A k \in Id : k # nextId + 1 => with[k] = own[k]
    BY <1>1, <1>2 DEF Owner
  <2> QED
    BY <2>1
<1>4. \A k \in Id : k <= nextId => k # nextId + 1
  BY <1>1 DEF Id
<1>5. /\ nextId' = nextId + 1 /\ entry' = entry
      /\ \A v \in Worker : v # w => job'[v] = job[v]
      /\ job'[w] = [jw EXCEPT !.pc = "set", !.key = nextId + 1]
  BY DEF NewId, Become, TypeInv, TypeOK
<1>6. \A k \in Id : k <= nextId => k <= nextId' /\ new[k] = own[k]
  BY <1>1, <1>3, <1>4, <1>5 DEF Id
<1>7. ASSUME NEW v \in Worker
      PROVE  /\ \A k \in Held(job[v]) : k \in Id /\ k <= nextId
             /\ Knows(job[v], new) /\ Respects(job[v], new)
  <2> DEFINE j == job[v]
  <2>1. /\ j.found \in [Ident -> [key: Id \cup {0}, at: When]]
        /\ j.key \in Id \cup {0} /\ j.victims \subseteq Id
    BY <1>1 DEF Job
  <2>2. \A k \in Held(j) : k \in Id /\ k <= nextId
    BY <2>1 DEF Held, Assigned
  <2>3. \A k \in Held(j) : new[k] = own[k]
    BY <1>6, <2>2
  <2>4. 0 \notin Id
    BY DEF Id
  <2>5. Respects(j, own) /\ (j.pc \in {"set", "purge"} => j.key # 0)
    BY DEF Assigned, TypeInv, JobShape, JobReady
  <2> HIDE DEF j
  <2>6. Knows(j, new)
    <3>1. \A i \in Ident : j.found[i].key # 0 => j.found[i].key \in Held(j)
      BY DEF Held
    <3>2. \A k \in j.victims : k \in Held(j)
      BY <2>1, <2>4 DEF Held
    <3> QED
      BY <2>3, <2>5, <3>1, <3>2 DEF Respects, Knows
  <2>7. Respects(j, new)
    <3>1. j.pc \in {"set", "purge"} => j.key \in Held(j)
      BY <2>5 DEF Held
    <3> QED
      BY <2>3, <2>5, <2>6, <3>1 DEF Respects
  <2> QED
    BY <2>2, <2>6, <2>7 DEF j
<1>8. Respects(job'[w], new) /\ \A k \in Held(job'[w]) : k <= nextId'
  <2> DEFINE m == job'[w]
  <2>1. /\ m.pc = "set" /\ m.key = nextId + 1 /\ m.found = jw.found /\ m.victims = jw.victims
        /\ m.srv = jw.srv /\ m.block = jw.block
    BY <1>1, <1>5 DEF Job
  <2> HIDE DEF m
  <2>2. Knows(m, new)
    BY <1>7, <2>1 DEF Knows
  <2>3. Respects(m, new)
    BY <1>3, <2>1, <2>2 DEF Respects
  <2>4. \A k \in Held(m) : k \in Held(jw) \/ k = nextId + 1
    BY <2>1 DEF Held
  <2>5. \A k \in Held(m) : k <= nextId'
    <3>1. nextId + 1 <= nextId'
      BY <1>1, <1>5
    <3>2. \A k \in Held(jw) : k <= nextId'
      BY <1>6, <1>7
    <3> QED
      BY <2>4, <3>1, <3>2
  <2> QED
    BY <2>3, <2>5 DEF m
<1>9. \A v \in Worker : /\ Respects(job[v], new)'
                        /\ \A k \in Held(job[v])' : k <= nextId'
  <2>1. ASSUME NEW v \in Worker, v # w
        PROVE  Respects(job'[v], new) /\ \A k \in Held(job'[v]) : k <= nextId'
    BY <1>5, <1>6, <1>7, <2>1
  <2>2. \A v \in Worker : Respects(job'[v], new) /\ \A k \in Held(job'[v]) : k <= nextId'
    BY <1>8, <2>1
  <2> QED
    BY <2>2 DEF Respects, Knows, Held
<1>10. \A k \in DOMAIN entry' : k <= nextId' /\ new[k] = <<entry'[k].srv, entry'[k].ident>>
  <2>1. \A k \in DOMAIN entry : k \in Id /\ k <= nextId /\ own[k] = <<entry[k].srv, entry[k].ident>>
    BY DEF Assigned, TypeInv, TypeOK
  <2> QED
    BY <1>5, <1>6, <2>1
<1> QED
  BY <1>3, <1>9, <1>10 DEF Assigned

\* Dropping the counter with no row and no key in hand leaves nothing to assign.
LEMMA ResetAssigned ==
    ASSUME TypeInv, NEW w \in Worker, ResetCounter(w), ~dirtyReset',
           NEW own, Assigned(own)
    PROVE  Assigned(own)'
<1>1. /\ DOMAIN entry = {} /\ entry' = entry /\ nextId' = 0
      /\ \A v \in Worker : Held(job[v]) = {}
      /\ job'[w] = Idle /\ \A v \in Worker : v # w => job'[v] = job[v]
  BY DEF ResetCounter, Become, TypeInv, TypeOK
<1>2. \A v \in Worker : Respects(job'[v], own) /\ Held(job'[v]) = {}
  BY <1>1, IdleHoldsNothing DEF Assigned
<1>3. \A v \in Worker : Respects(job[v], own)' /\ Held(job[v])' = {}
  BY <1>2 DEF Respects, Knows, Held
<1> QED
  BY <1>1, <1>3 DEF Assigned

\* Only the counter's DEL changes the history bit, and never back.
LEMMA DirtyStays == ASSUME [Next]_vars, TypeInv PROVE dirtyReset => dirtyReset'
<1>1. ASSUME NEW w \in Worker, Step(w) PROVE dirtyReset => dirtyReset'
  BY <1>1, StepRows DEF NewId, ResetCounter
<1> QED
  BY <1>1 DEF Next, vars, DeleteEntry, Tick

\* Every step of the store keeps one assignment of ids to blocks.
LEMMA NextAssigned == IInv /\ [Next]_vars => IdsHaveOneBlock'
<1> SUFFICES ASSUME IInv, [Next]_vars, ~dirtyReset'
             PROVE  \E own \in [Id -> Owner] : Assigned(own)'
  BY DEF IdsHaveOneBlock
<1>1. PICK own \in [Id -> Owner] : Assigned(own)
  BY DirtyStays DEF IInv, IdsHaveOneBlock
<1>2. TypeInv
  BY DEF IInv
<1>3. ASSUME NEW w \in Worker, Step(w)
      PROVE  \E new \in [Id -> Owner] : Assigned(new)'
  <2>1. CASE NewId(w)
    BY <1>1, <1>2, <2>1, NewIdAssigned
  <2>2. CASE ResetCounter(w)
    BY <1>1, <1>2, <2>2, ResetAssigned
  <2>3. CASE ~NewId(w) /\ ~ResetCounter(w)
    BY <1>1, <1>2, <1>3, <2>3, StepAssigned
  <2> QED
    BY <2>1, <2>2, <2>3
<1>4. ASSUME UNCHANGED <<nextId, job>>, DOMAIN entry' \subseteq DOMAIN entry,
             \A k \in DOMAIN entry' : entry'[k] = entry[k]
      PROVE  Assigned(own)'
  BY <1>1, <1>4 DEF Assigned, Respects, Knows, Held
<1>5. CASE \E k \in Id : DeleteEntry(k)
  BY <1>1, <1>4, <1>5, WithoutRows DEF DeleteEntry
<1>6. CASE Tick
  <2>1. DOMAIN entry' \subseteq DOMAIN entry /\ \A k \in DOMAIN entry' : entry'[k] = entry[k]
    BY <1>6 DEF Tick, Restrict
  <2> QED
    BY <1>1, <1>4, <1>6, <2>1 DEF Tick
<1>7. CASE UNCHANGED vars
  BY <1>1, <1>4, <1>7 DEF vars
<1> QED
  BY <1>3, <1>5, <1>6, <1>7 DEF Next

\* As long as the counter was only dropped with no id in use, one assignment of ids to
\* blocks fits every row and every key a handler has in hand.
THEOREM IInvHolds == Spec => []IInv
<1>1. Init => IInv
  <2> SUFFICES ASSUME Init PROVE \E own \in [Id -> Owner] : Assigned(own)
    BY InitTypeInv DEF IInv, IdsHaveOneBlock
  <2>1. DOMAIN entry = {} /\ \A w \in Worker : job[w] = Idle
    BY DEF Init
  <2>2. \A own : Assigned(own)
    BY <2>1, IdleHoldsNothing DEF Assigned
  <2>3. [k \in Id |-> <<>>] \in [Id -> Owner]
    BY DEF Owner
  <2> QED
    BY <2>2, <2>3
<1>2. IInv /\ [Next]_vars => IInv'
  BY NextTypeInv, NextAssigned DEF IInv
<1> QED
  BY <1>1, <1>2, PTL DEF Spec

-----------------------------------------------------------------------------
(* What the assignment gives. *)

\* What any command of a handler may write or remove, told by the assignment.
LEMMA OwnKeys ==
    ASSUME IInv, ~dirtyReset, NEW w \in Worker
    PROVE  \E own :
              /\ \A k \in DOMAIN entry : own[k] = <<entry[k].srv, entry[k].ident>>
              /\ \A k : Deletes(job[w], k) /\ job[w].srv \in Server => own[k][1] = job[w].srv
              /\ \A k, row : Writes(job[w], k, row) => own[k] = <<row.srv, row.ident>>
<1>1. PICK own \in [Id -> Owner] : Assigned(own)
  BY DEF IInv, IdsHaveOneBlock
<1> QED
  BY <1>1, OwnRows DEF Assigned

\* However the commands of the handlers interleave, the row under an id never turns
\* into the block of another address or edge, for any number of handlers, edges and ids.
THEOREM RowsKeepTheirBlock == Spec => RowKeepsItsBlock
<1>1. IInv /\ [Next]_vars => [~dirtyReset' => RowsKeepBlocks]_vars
  <2> SUFFICES ASSUME IInv, [Next]_vars, ~dirtyReset', ~UNCHANGED vars PROVE RowsKeepBlocks
    OBVIOUS
  <2>1. ASSUME NEW w \in Worker, Step(w) PROVE RowsKeepBlocks
    <3>1. PICK own : /\ \A k \in DOMAIN entry : own[k] = <<entry[k].srv, entry[k].ident>>
                     /\ \A k : Deletes(job[w], k) /\ job[w].srv \in Server => own[k][1] = job[w].srv
                     /\ \A k, row : Writes(job[w], k, row) => own[k] = <<row.srv, row.ident>>
      <4>1. ~dirtyReset
        BY DirtyStays DEF IInv
      <4> QED
        BY <4>1, OwnKeys
    <3>2. \A k \in DOMAIN entry' :
              (k \in DOMAIN entry /\ entry'[k] = entry[k]) \/ Writes(job[w], k, entry'[k])
      BY <2>1, StepRows DEF IInv
    <3>3. \A a, b, c, d : <<a, b>> = <<c, d>> => a = c /\ b = d
      OBVIOUS
    <3> QED
      BY <3>1, <3>2, <3>3 DEF RowsKeepBlocks
  <2>2. CASE \E k \in Id : DeleteEntry(k)
    BY <2>2, WithoutRows DEF DeleteEntry, RowsKeepBlocks
  <2>3. CASE Tick
    BY <2>3 DEF Tick, Restrict, RowsKeepBlocks
  <2> QED
    BY <2>1, <2>2, <2>3 DEF Next
<1> QED
  BY <1>1, IInvHolds, PTL DEF Spec, RowKeepsItsBlock

\* A handler that works for one edge never changes or removes a row of another edge.
THEOREM EdgesAreIsolated == Spec => OtherEdgesUntouched
<1>1. IInv /\ [Next]_vars => [~dirtyReset' => \A w \in Worker : OthersKept(w)]_vars
  <2> SUFFICES ASSUME IInv, [Next]_vars, ~dirtyReset', ~UNCHANGED vars, NEW w \in Worker,
                      job'[w] # job[w], job[w].srv \in Server,
                      NEW k \in DOMAIN entry, entry[k].srv # job[w].srv
               PROVE  k \in DOMAIN entry' /\ entry'[k] = entry[k]
    BY DEF OthersKept
  <2>1. Step(w)
    <3>1. \A v \in Worker : Step(v) => v = w
      BY StepRows DEF IInv
    <3> QED
      BY <3>1 DEF Next, DeleteEntry, Tick
  <2>2. PICK own : /\ own[k] = <<entry[k].srv, entry[k].ident>>
                   /\ Deletes(job[w], k) => own[k][1] = job[w].srv
                   /\ \A row : Writes(job[w], k, row) => own[k] = <<row.srv, row.ident>>
    <3>1. ~dirtyReset
      BY DirtyStays DEF IInv
    <3>2. PICK own : /\ \A l \in DOMAIN entry : own[l] = <<entry[l].srv, entry[l].ident>>
                     /\ \A l : Deletes(job[w], l) /\ job[w].srv \in Server => own[l][1] = job[w].srv
                     /\ \A l, row : Writes(job[w], l, row) => own[l] = <<row.srv, row.ident>>
      BY <3>1, OwnKeys
    <3> QED
      BY <3>2
  <2>3. own[k][1] = entry[k].srv
    BY <2>2
  <2>4. ~Deletes(job[w], k)
    BY <2>2, <2>3
  <2>5. \A row : ~Writes(job[w], k, row)
    <3>1. \A row : Writes(job[w], k, row) => own[k][1] = row.srv /\ row.srv = job[w].srv
      BY <2>2 DEF Writes
    <3> QED
      BY <2>3, <3>1
  <2> QED
    BY <2>1, <2>4, <2>5, StepRows DEF IInv
<1> QED
  BY <1>1, IInvHolds, PTL DEF Spec, OtherEdgesUntouched

\* Redis never expires a block before blocked_at + ttl, however long a handler takes
\* between the time it computed the lifetime for and its SET.
THEOREM ExpiryCoversBlock == Spec => []NeverExpiresEarly
<1>1. Init => NeverExpiresEarly
  BY DEF Init, NeverExpiresEarly
<1>2. NeverExpiresEarly /\ TypeInv /\ [Next]_vars => NeverExpiresEarly'
  <2> SUFFICES ASSUME NeverExpiresEarly, TypeInv, [Next]_vars,
                      NEW k \in DOMAIN entry', entry'[k].ttl > 0, Dated(entry'[k].at)
               PROVE  entry'[k].exp >= entry'[k].at + entry'[k].ttl
    BY DEF NeverExpiresEarly
  <2>1. CASE k \in DOMAIN entry /\ entry'[k] = entry[k]
    BY <2>1 DEF NeverExpiresEarly
  <2>2. ASSUME NEW w \in Worker, Step(w)
        PROVE  entry'[k].exp >= entry'[k].at + entry'[k].ttl
    BY <2>1, <2>2, StepRows DEF Writes
  <2>3. CASE \E x \in Id : DeleteEntry(x)
    BY <2>1, <2>3, WithoutRows DEF DeleteEntry
  <2>4. CASE Tick
    BY <2>1, <2>4 DEF Tick, Restrict
  <2>5. CASE UNCHANGED vars
    BY <2>1, <2>5 DEF vars
  <2> QED
    BY <2>2, <2>3, <2>4, <2>5 DEF Next
<1> QED
  BY <1>1, <1>2, TypeInvHolds, PTL DEF Spec

-----------------------------------------------------------------------------
(* One handler at a time. *)

\* The row is about the block of an edge.
Is(row, s, i) == row.srv = s /\ row.ident = i

Idles(j) == j.pc = "idle" => j = Idle

\* A create knows all the rows of its block that it has not looked at, then the only one.
CreateFits(j, e) ==
    /\ j.pc = "match" => \A k \in DOMAIN e : Is(e[k], j.srv, j.block.ident) => k \in j.todo
    /\ j.pc = "set" => \A k \in DOMAIN e : Is(e[k], j.srv, j.block.ident) => k = j.key
    /\ j.pc \in {"match", "set"} => /\ j.found[j.block.ident].key = 0
                                    /\ j.block.ident \notin DOMAIN j.report
                                    /\ j.op = "replace" => j.block.ident \in j.named

\* The only row of a block is the one found for it; the ones it may drop are as it found them.
Seen(j, e) ==
    /\ DOMAIN j.report \subseteq j.named
    /\ \A i \in Ident : j.found[i].key # 0 =>
          \A k \in DOMAIN e : Is(e[k], j.srv, i) => k = j.found[i].key
    /\ \A i \in Ident \ j.named : j.found[i].key \in DOMAIN e => e[j.found[i].key].at = j.found[i].at

ReplaceFits(j, e) ==
    /\ Seen(j, e)
    /\ j.op = "replace" /\ j.pc \in {"match", "set", "apply", "drop"} => j.named # {}
    /\ j.pc = "drop" => DOMAIN j.report = {}

\* A row about to be removed as over is over.
PurgeFits(j, e, t) ==
    j.pc = "purge" /\ j.key \in DOMAIN e =>
        /\ j.srv = AllServers \/ e[j.key].srv = j.srv
        /\ ~Active(e[j.key].at, e[j.key].ttl, t)

\* A flush has collected all the rows of its edge, or is still to look at them.
FlushFits(j, e) ==
    /\ j.pc \in {"collect", "wipe"} /\ j.op = "flush" =>
          \A k \in DOMAIN e : e[k].srv = j.srv => k \in j.victims \cup j.todo
    /\ j.pc = "wipe" => j.op \in {"flush", "flushall"} /\ j.todo = {}
    /\ j.pc = "reset" => j.op = "flushall"
    /\ j.op = "flushall" =>
          /\ j.pc \in {"wipe", "reset"} /\ j.key = 0 /\ \A i \in Ident : j.found[i].key = 0
          /\ j.pc = "wipe" => DOMAIN e \subseteq j.victims
          /\ j.pc = "reset" => DOMAIN e = {} /\ j.victims = {}

Fits(j, e, t) == Idles(j) /\ CreateFits(j, e) /\ ReplaceFits(j, e) /\ PurgeFits(j, e, t) /\ FlushFits(j, e)

Alone == \A v, w \in InFlight : v = w

SerialInv ==
    /\ ~dirtyReset /\ Alone /\ NoDuplicateRows
    /\ \A w \in Worker : Fits(job[w], entry, now)

\* A handler outside the store fits any rows.
LEMMA IdleFits == ASSUME NEW e, NEW t, 0 \notin DOMAIN e PROVE Fits(Idle, e, t) /\ Seen(Idle, e)
<1>1. /\ Idle.pc = "idle" /\ Idle.op = "none" /\ Idle.key = 0 /\ Idle.victims = {} /\ Idle.named = {}
      /\ DOMAIN Idle.report = {} /\ \A i \in Ident : Idle.found[i].key = 0
  BY DEF Idle, NoKey
<1> QED
  BY <1>1 DEF Fits, Idles, CreateFits, ReplaceFits, Seen, PurgeFits, FlushFits

\* Rows that disappear, and time that passes, disturb no handler.
LEMMA FewerRows ==
    ASSUME NEW j, NEW e, NEW t \in Nat, Fits(j, e, t), NEW f, NEW u \in Nat, u >= t,
           DOMAIN f \subseteq DOMAIN e, \A k \in DOMAIN f : f[k] = e[k],
           \A k \in DOMAIN e : e[k].at \in Int /\ e[k].ttl \in Nat
    PROVE  Fits(j, f, u)
<1>1. CreateFits(j, f)
  BY DEF Fits, CreateFits
<1>2. ReplaceFits(j, f)
  BY DEF Fits, ReplaceFits, Seen
<1>3. PurgeFits(j, f, u)
  <2>1. SUFFICES ASSUME j.pc = "purge", j.key \in DOMAIN f
                 PROVE  /\ j.srv = AllServers \/ f[j.key].srv = j.srv
                        /\ ~Active(f[j.key].at, f[j.key].ttl, u)
    BY DEF PurgeFits
  <2>2. /\ j.srv = AllServers \/ e[j.key].srv = j.srv
        /\ ~Active(e[j.key].at, e[j.key].ttl, t)
    BY <2>1 DEF Fits, PurgeFits
  <2> QED
    BY <2>1, <2>2 DEF Active
<1>4. FlushFits(j, f)
  BY DEF Fits, FlushFits
<1> QED
  BY <1>1, <1>2, <1>3, <1>4 DEF Fits

\* A handler that moves on to another command.
LEMMA MovesOn ==
    ASSUME NEW j, DOMAIN j = JobFields, NEW pc
    PROVE  LET m == [j EXCEPT !.pc = pc] IN
           /\ m.pc = pc /\ m.op = j.op /\ m.srv = j.srv /\ m.todo = j.todo /\ m.key = j.key
           /\ m.block = j.block /\ m.report = j.report /\ m.named = j.named /\ m.found = j.found
           /\ m.victims = j.victims
  BY DEF JobFields

\* Going on to the next block of a report.
LEMMA NextBlockFits ==
    ASSUME NEW j, DOMAIN j = JobFields, NEW e, NEW t, 0 \notin DOMAIN e,
           j.op = "replace", j.named # {}, Seen(j, e)
    PROVE  Fits(NextBlock(j), e, t)
<1>1. CASE DOMAIN j.report # {}
  <2> DEFINE m == [j EXCEPT !.pc = "apply"]
  <2>1. /\ m.pc = "apply" /\ m.op = j.op /\ m.srv = j.srv /\ m.report = j.report
        /\ m.named = j.named /\ m.found = j.found
    BY MovesOn
  <2>2. NextBlock(j) = m
    BY <1>1 DEF NextBlock
  <2> HIDE DEF m
  <2> QED
    BY <2>1, <2>2 DEF Fits, Idles, CreateFits, ReplaceFits, Seen, PurgeFits, FlushFits
<1>2. CASE DOMAIN j.report = {} /\ Overdue(j) # {}
  <2> DEFINE m == [j EXCEPT !.pc = "drop"]
  <2>1. /\ m.pc = "drop" /\ m.op = j.op /\ m.srv = j.srv /\ m.report = j.report
        /\ m.named = j.named /\ m.found = j.found
    BY MovesOn
  <2>2. NextBlock(j) = m
    BY <1>2 DEF NextBlock
  <2> HIDE DEF m
  <2> QED
    BY <1>2, <2>1, <2>2 DEF Fits, Idles, CreateFits, ReplaceFits, Seen, PurgeFits, FlushFits
<1>3. CASE DOMAIN j.report = {} /\ Overdue(j) = {}
  BY <1>3, IdleFits DEF NextBlock
<1> QED
  BY <1>1, <1>2, <1>3

\* Going on to the next row of a read.
LEMMA NextReadFits ==
    ASSUME NEW j, DOMAIN j = JobFields, NEW e, NEW t, 0 \notin DOMAIN e,
           j.op \in {"replace", "list"}, Seen(j, e)
    PROVE  Fits(NextRead(j), e, t)
<1>1. CASE j.todo # {}
  <2> DEFINE m == [j EXCEPT !.pc = "read"]
  <2>1. /\ m.pc = "read" /\ m.op = j.op /\ m.srv = j.srv /\ m.report = j.report
        /\ m.named = j.named /\ m.found = j.found
    BY MovesOn
  <2>2. NextRead(j) = m
    BY <1>1 DEF NextRead
  <2> HIDE DEF m
  <2> QED
    BY <2>1, <2>2 DEF Fits, Idles, CreateFits, ReplaceFits, Seen, PurgeFits, FlushFits
<1>2. CASE j.todo = {} /\ (j.op = "list" \/ j.named = {})
  BY <1>2, IdleFits DEF NextRead
<1>3. CASE j.todo = {} /\ ~(j.op = "list" \/ j.named = {})
  BY <1>3, NextBlockFits DEF NextRead
<1> QED
  BY <1>1, <1>2, <1>3

\* Going on to the next key of a flush.
LEMMA NextCollectFits ==
    ASSUME NEW j, DOMAIN j = JobFields, NEW e, NEW t, 0 \notin DOMAIN e, j.op = "flush", Seen(j, e),
           \A k \in DOMAIN e : e[k].srv = j.srv => k \in j.victims \cup j.todo
    PROVE  Fits(NextCollect(j), e, t)
<1>1. ASSUME NEW pc \in {"collect", "wipe"}, pc = "wipe" => j.todo = {}
      PROVE  Fits([j EXCEPT !.pc = pc], e, t)
  <2> DEFINE m == [j EXCEPT !.pc = pc]
  <2>1. /\ m.pc = pc /\ m.op = j.op /\ m.srv = j.srv /\ m.report = j.report /\ m.todo = j.todo
        /\ m.named = j.named /\ m.found = j.found /\ m.victims = j.victims
    BY MovesOn
  <2> HIDE DEF m
  <2>2. Fits(m, e, t)
    BY <1>1, <2>1 DEF Fits, Idles, CreateFits, ReplaceFits, Seen, PurgeFits, FlushFits
  <2> QED
    BY <2>2 DEF m
<1> QED
  BY <1>1, IdleFits DEF NextCollect

\* A create starts with every row still to be looked at.
LEMMA BeginCreateFits ==
    ASSUME NEW j, DOMAIN j = JobFields, NEW t, j.op \in {"create", "replace"}, Seen(j, entry),
           NEW i, NEW at, NEW ttl, j.found[i].key = 0, i \notin DOMAIN j.report,
           j.op = "replace" => i \in j.named
    PROVE  Fits(BeginCreate(j, i, at, ttl), entry, t)
<1> DEFINE m == BeginCreate(j, i, at, ttl)
<1>1. /\ m.pc = "match" /\ m.op = j.op /\ m.srv = j.srv /\ m.report = j.report
      /\ m.todo = DOMAIN entry /\ m.block.ident = i
      /\ m.named = j.named /\ m.found = j.found
  BY DEF BeginCreate, JobFields
<1> HIDE DEF m
<1>2. Fits(m, entry, t)
  BY <1>1 DEF Fits, Idles, CreateFits, ReplaceFits, Seen, PurgeFits, FlushFits
<1> QED
  BY <1>2 DEF m

\* The handler that takes a step is the only one inside the store.
LEMMA OthersIdle ==
    ASSUME TypeInv, MaxInFlight = 1, SerialInv, NEW w \in Worker, Step(w), NEW v \in Worker, v # w
    PROVE  job[v] = Idle /\ job'[v] = Idle
<1>1. job'[v] = job[v]
  BY StepRows
<1>2. job[v].pc = "idle"
  <2>1. SUFFICES ASSUME job[v].pc # "idle" PROVE FALSE
    OBVIOUS
  <2>2. InFlight \subseteq {v} /\ v \in InFlight
    BY <2>1 DEF SerialInv, Alone, InFlight
  <2>3. InFlight = {v}
    BY <2>2
  <2>4. Cardinality(InFlight) = 1
    BY <2>3, FS_Singleton
  <2>5. job[w].pc = "idle"
    BY <2>3 DEF InFlight
  <2> QED
    BY <2>4, <2>5 DEF Step, MayStart, CreateStart, MatchKey, NewId, StoreRow, ReplaceStart,
       ListStart, ReadRow, PurgeRow, ApplyRefresh, ApplyCreate, DropRow, FlushStart, CollectRow,
       FlushAllStart, WipeRows, ResetCounter, Abort
<1>3. Fits(job[v], entry, now)
  BY DEF SerialInv
<1> QED
  BY <1>1, <1>2, <1>3 DEF Fits, Idles

\* What is left to show of a step.
LEMMA SerialServe ==
    ASSUME TypeInv, TypeInv', MaxInFlight = 1, SerialInv, NEW w \in Worker, Step(w),
           Fits(job'[w], entry', now'), NoDuplicateRows', ~dirtyReset'
    PROVE  SerialInv'
<1>1. \A v \in Worker : v # w => job'[v] = Idle
  BY OthersIdle
<1>2. 0 \notin DOMAIN entry'
  BY DEF TypeInv, TypeOK, Id
<1>3. \A v \in Worker : Fits(job'[v], entry', now')
  BY <1>1, <1>2, IdleFits
<1>4. \A v \in Worker : job'[v].pc # "idle" => v = w
  BY <1>1 DEF Idle
<1>5. Alone'
  BY <1>4 DEF Alone, InFlight
<1> QED
  BY <1>3, <1>5 DEF SerialInv

\* A SET under the only key of its block.
LEMMA SetFits ==
    ASSUME TypeInv, SerialInv, NEW j, Seen(j, entry), NEW own, Assigned(own), Knows(j, own),
           NEW k \in Id, NEW row, row.srv = j.srv, row.ident \in j.named, row.ident \in Ident,
           \A l \in DOMAIN entry : Is(entry[l], row.srv, row.ident) => l = k,
           j.found[row.ident].key \in {0, k}, own[k] = <<row.srv, row.ident>>
    PROVE  Seen(j, Put(k, row))
<1> DEFINE e == Put(k, row)
<1>1. /\ DOMAIN e = DOMAIN entry \cup {k} /\ e[k] = row
      /\ \A l \in DOMAIN entry : l # k => e[l] = entry[l]
      /\ 0 \notin DOMAIN e
  BY DEF Put, TypeInv, TypeOK, Id
<1> HIDE DEF e
<1>2. ASSUME NEW i \in Ident, j.found[i].key # 0, NEW l \in DOMAIN e, Is(e[l], j.srv, i)
      PROVE  l = j.found[i].key
  <2>1. CASE l = k
    BY <1>1, <1>2, <2>1 DEF Is
  <2>2. CASE l # k
    BY <1>1, <1>2, <2>2 DEF Seen
  <2> QED
    BY <2>1, <2>2
<1>3. ASSUME NEW i \in Ident \ j.named, j.found[i].key \in DOMAIN e
      PROVE  e[j.found[i].key].at = j.found[i].at
  <2>1. own[j.found[i].key] = <<j.srv, i>>
    BY <1>1, <1>3 DEF Knows
  <2>2. j.found[i].key # k
    BY <1>3, <2>1
  <2> QED
    BY <1>1, <1>3, <2>2 DEF Seen
<1> QED
  BY <1>2, <1>3 DEF Seen, e

\* A SET under the only key of its block makes no second row of it.
LEMMA SetUnique ==
    ASSUME TypeInv, NoDuplicateRows, NEW k \in Id, NEW row,
           \A l \in DOMAIN entry : Is(entry[l], row.srv, row.ident) => l = k, entry' = Put(k, row)
    PROVE  NoDuplicateRows'
<1>1. /\ DOMAIN entry' = DOMAIN entry \cup {k} /\ entry'[k] = row
      /\ \A l \in DOMAIN entry : l # k => entry'[l] = entry[l]
  BY DEF Put
<1> QED
  BY <1>1 DEF NoDuplicateRows, Is

\* Removing rows makes no duplicate.
LEMMA FewerUnique ==
    ASSUME NoDuplicateRows, DOMAIN entry' \subseteq DOMAIN entry, \A k \in DOMAIN entry' : entry'[k] = entry[k]
    PROVE  NoDuplicateRows'
  BY DEF NoDuplicateRows

\* Removing rows keeps what a replace has found.
LEMMA FewerSeen ==
    ASSUME NEW j, NEW e, Seen(j, e), NEW f, DOMAIN f \subseteq DOMAIN e, \A k \in DOMAIN f : f[k] = e[k]
    PROVE  Seen(j, f)
  BY DEF Seen

\* A command that writes nothing.
Looks(w) ==
    \/ CreateStart(w) \/ MatchKey(w) \/ NewId(w) \/ ReplaceStart(w) \/ ListStart(w) \/ ReadRow(w)
    \/ ApplyCreate(w) \/ FlushStart(w) \/ CollectRow(w) \/ FlushAllStart(w) \/ ResetCounter(w) \/ Abort(w)

\* A command that writes no row leaves its handler fitting the rows.
LEMMA LookFits ==
    ASSUME IInv, MaxInFlight = 1, SerialInv, NEW w \in Worker, Looks(w)
    PROVE  Fits(job'[w], entry, now)
<1> DEFINE jw == job[w]
<1>0. /\ JobShape(jw) /\ jw \in Job /\ DOMAIN jw = JobFields /\ DOMAIN Idle = JobFields
      /\ 0 \notin DOMAIN entry /\ 0 \notin Id /\ now \in Nat /\ DOMAIN entry \subseteq Id
      /\ \A k \in DOMAIN entry : entry[k] \in Row
  BY DEF IInv, TypeInv, TypeOK, JobShape, JobBase, Job, JobFields, Idle, Id
<1>f. Fits(jw, entry, now) /\ Seen(jw, entry)
  BY DEF SerialInv, Fits, ReplaceFits
<1>i. Fits(Idle, entry, now) /\ Seen(Idle, entry)
  BY <1>0, IdleFits
<1>j. \A j : Become(w, j) => job'[w] = j
  BY DEF Become, IInv, TypeInv, TypeOK
<1>e. /\ Idle.op = "none" /\ Idle.key = 0 /\ Idle.victims = {} /\ Idle.named = {}
      /\ DOMAIN Idle.report = {} /\ \A i \in Ident : Idle.found[i].key = 0
  BY DEF Idle, NoKey
<1> HIDE DEF jw
<1>s. ASSUME NEW o, o.srv = jw.srv, o.found = jw.found, o.report = jw.report, o.named = jw.named
      PROVE  Seen(o, entry)
  BY <1>f, <1>s DEF Seen
<1>t. ASSUME NEW o, o.found = Idle.found, DOMAIN o.report \subseteq o.named
      PROVE  Seen(o, entry)
  BY <1>0, <1>e, <1>t DEF Seen
<1>1. CASE CreateStart(w)
  <2>1. PICK s \in Server, i \in Ident, at \in Stamp, ttl \in TTL :
            Become(w, BeginCreate([Idle EXCEPT !.op = "create", !.srv = s], i, at, ttl))
    BY <1>1 DEF CreateStart
  <2> DEFINE o == [Idle EXCEPT !.op = "create", !.srv = s]
  <2>2. /\ DOMAIN o = JobFields /\ o.op = "create" /\ o.found = Idle.found
        /\ o.report = Idle.report /\ o.named = Idle.named
    BY <1>0 DEF JobFields
  <2>3. job'[w] = BeginCreate(o, i, at, ttl)
    BY <1>j, <2>1
  <2> HIDE DEF o
  <2>4. Seen(o, entry) /\ o.found[i].key = 0 /\ i \notin DOMAIN o.report
    BY <1>t, <1>e, <2>2
  <2> QED
    BY <2>2, <2>3, <2>4, BeginCreateFits
<1>2. CASE MatchKey(w)
  <2>1. PICK k \in jw.todo :
            Become(w, IF k \in DOMAIN entry /\ SameBlock(k, jw.srv, jw.block.ident)
                      THEN [jw EXCEPT !.pc = "set", !.key = k, !.todo = {}]
                      ELSE [jw EXCEPT !.todo = @ \ {k}])
    BY <1>2 DEF MatchKey, jw
  <2>2. jw.pc = "match" /\ jw.op \in {"create", "replace"} /\ jw.block \in Block
    BY <1>0, <1>2 DEF MatchKey, jw, JobShape, JobReady
  <2>3. CASE k \in DOMAIN entry /\ SameBlock(k, jw.srv, jw.block.ident)
    <3> DEFINE m == [jw EXCEPT !.pc = "set", !.key = k, !.todo = {}]
    <3>1. /\ m.pc = "set" /\ m.key = k /\ m.op = jw.op /\ m.srv = jw.srv /\ m.block = jw.block
          /\ m.report = jw.report /\ m.named = jw.named /\ m.found = jw.found
      BY <1>0 DEF JobFields
    <3>2. job'[w] = m
      BY <1>j, <2>1, <2>3
    <3> HIDE DEF m
    <3>3. \A l \in DOMAIN entry : Is(entry[l], jw.srv, jw.block.ident) => l = k
      BY <2>3 DEF Is, SameBlock, SerialInv, NoDuplicateRows
    <3> QED
      BY <1>f, <1>s, <2>2, <3>1, <3>2, <3>3 DEF Fits, Idles, CreateFits, ReplaceFits, PurgeFits, FlushFits
  <2>4. CASE ~(k \in DOMAIN entry /\ SameBlock(k, jw.srv, jw.block.ident))
    <3> DEFINE m == [jw EXCEPT !.todo = @ \ {k}]
    <3>1. /\ m.pc = "match" /\ m.todo = jw.todo \ {k} /\ m.op = jw.op /\ m.srv = jw.srv
          /\ m.block = jw.block /\ m.report = jw.report /\ m.named = jw.named /\ m.found = jw.found
      BY <1>0, <2>2 DEF JobFields
    <3>2. job'[w] = m
      BY <1>j, <2>1, <2>4
    <3> HIDE DEF m
    <3> QED
      BY <1>f, <1>s, <2>2, <2>4, <3>1, <3>2
         DEF Fits, Idles, CreateFits, ReplaceFits, PurgeFits, FlushFits, Is, SameBlock
  <2> QED
    BY <2>3, <2>4
<1>3. CASE NewId(w)
  <2> DEFINE m == [jw EXCEPT !.pc = "set", !.key = nextId + 1]
  <2>1. /\ jw.pc = "match" /\ jw.op \in {"create", "replace"} /\ jw.todo = {} /\ job'[w] = m
    BY <1>0, <1>j, <1>3 DEF NewId, jw, JobShape, JobReady
  <2>2. /\ m.pc = "set" /\ m.op = jw.op /\ m.srv = jw.srv /\ m.block = jw.block
        /\ m.report = jw.report /\ m.named = jw.named /\ m.found = jw.found
    BY <1>0 DEF JobFields
  <2> HIDE DEF m
  <2> QED
    BY <1>f, <1>s, <2>1, <2>2 DEF Fits, Idles, CreateFits, ReplaceFits, PurgeFits, FlushFits
<1>4. CASE ReplaceStart(w)
  <2>0. PICK s \in Server, named \in SUBSET Ident : \E report \in [named -> [at : Stamp, ttl : TTL]] :
            Become(w, NextRead([Idle EXCEPT !.op = "replace", !.srv = s, !.t0 = now,
                                            !.todo = DOMAIN entry, !.report = report, !.named = named]))
    BY <1>4 DEF ReplaceStart
  <2>1. PICK report \in [named -> [at : Stamp, ttl : TTL]] :
            Become(w, NextRead([Idle EXCEPT !.op = "replace", !.srv = s, !.t0 = now,
                                            !.todo = DOMAIN entry, !.report = report, !.named = named]))
    BY <2>0
  <2> DEFINE o == [Idle EXCEPT !.op = "replace", !.srv = s, !.t0 = now,
                               !.todo = DOMAIN entry, !.report = report, !.named = named]
  <2>2. /\ DOMAIN o = JobFields /\ o.op = "replace" /\ o.found = Idle.found
        /\ o.report = report /\ o.named = named
    BY <1>0 DEF JobFields
  <2>3. job'[w] = NextRead(o)
    BY <1>j, <2>1
  <2> HIDE DEF o
  <2>4. Seen(o, entry)
    BY <1>t, <2>2
  <2> QED
    BY <1>0, <2>2, <2>3, <2>4, NextReadFits
<1>5. CASE ListStart(w)
  <2>1. PICK s \in Server \cup {AllServers} :
            Become(w, NextRead([Idle EXCEPT !.op = "list", !.srv = s, !.todo = DOMAIN entry]))
    BY <1>5 DEF ListStart
  <2> DEFINE o == [Idle EXCEPT !.op = "list", !.srv = s, !.todo = DOMAIN entry]
  <2>2. /\ DOMAIN o = JobFields /\ o.op = "list" /\ o.found = Idle.found
        /\ o.report = Idle.report /\ o.named = Idle.named
    BY <1>0 DEF JobFields
  <2>3. job'[w] = NextRead(o)
    BY <1>j, <2>1
  <2> HIDE DEF o
  <2>4. Seen(o, entry)
    BY <1>t, <1>e, <2>2
  <2> QED
    BY <1>0, <2>2, <2>3, <2>4, NextReadFits
<1>6. CASE ReadRow(w)
  <2>0. jw.pc = "read" /\ jw.op \in {"replace", "list"} /\ jw.t0 \in Nat /\ jw.t0 <= now
    BY <1>0, <1>6 DEF ReadRow, jw, JobShape, JobReady, JobBase, Job, Time
  <2>1. PICK k \in jw.todo :
          LET j == [jw EXCEPT !.todo = @ \ {k}] IN
          IF k \notin DOMAIN entry \/ ~Concerns(j, k)
          THEN Become(w, NextRead(j))
          ELSE IF ~Active(entry[k].at, entry[k].ttl, ReadTime(j))
          THEN Become(w, [j EXCEPT !.pc = "purge", !.key = k])
          ELSE IF j.op = "list"
          THEN Become(w, NextRead(j))
          ELSE Become(w, NextRead([j EXCEPT !.found[entry[k].ident] = [key |-> k, at |-> entry[k].at]]))
    BY <1>6 DEF ReadRow, jw
  <2> DEFINE j == [jw EXCEPT !.todo = @ \ {k}]
  <2>2. /\ DOMAIN j = JobFields /\ j.op = jw.op /\ j.srv = jw.srv /\ j.t0 = jw.t0 /\ j.found = jw.found
        /\ j.report = jw.report /\ j.named = jw.named /\ j.pc = "read"
    BY <1>0, <2>0 DEF JobFields
  <2>3. Seen(j, entry)
    BY <1>s, <2>2
  <2>4. \/ job'[w] = NextRead(j)
        \/ /\ k \in DOMAIN entry /\ Concerns(j, k) /\ ~Active(entry[k].at, entry[k].ttl, ReadTime(j))
           /\ job'[w] = [j EXCEPT !.pc = "purge", !.key = k]
        \/ /\ k \in DOMAIN entry /\ Concerns(j, k) /\ j.op # "list"
           /\ job'[w] = NextRead([j EXCEPT !.found[entry[k].ident] = [key |-> k, at |-> entry[k].at]])
    BY <1>j, <2>1
  <2> HIDE DEF j
  <2>5. CASE job'[w] = NextRead(j)
    BY <1>0, <2>0, <2>2, <2>3, <2>5, NextReadFits
  <2>6. CASE /\ k \in DOMAIN entry /\ Concerns(j, k) /\ ~Active(entry[k].at, entry[k].ttl, ReadTime(j))
             /\ job'[w] = [j EXCEPT !.pc = "purge", !.key = k]
    <3> DEFINE m == [j EXCEPT !.pc = "purge", !.key = k]
    <3>1. /\ m.pc = "purge" /\ m.key = k /\ m.op = j.op /\ m.srv = j.srv
          /\ m.report = j.report /\ m.named = j.named /\ m.found = j.found
      BY <2>2 DEF JobFields
    <3>2. job'[w] = m
      BY <2>6
    <3> HIDE DEF m
    <3>3. ~Active(entry[k].at, entry[k].ttl, now)
      <4>1. entry[k].at \in Int /\ entry[k].ttl \in Nat
        <5>1. entry[k] \in Row
          BY <1>0, <2>6
        <5>2. entry[k].at \in When /\ entry[k].ttl \in TTL
          BY <5>1 DEF Row
        <5> QED
          BY <5>2, TimesAreNat
      <4>2. ReadTime(j) \in Nat /\ ReadTime(j) <= now
        BY <1>0, <2>0, <2>2 DEF ReadTime
      <4> QED
        BY <1>0, <2>6, <4>1, <4>2 DEF Active
    <3>4. j.srv = AllServers \/ entry[k].srv = j.srv
      BY <2>6 DEF Concerns
    <3>5. Seen(m, entry)
      BY <1>s, <2>2, <3>1
    <3> QED
      BY <2>0, <2>2, <3>1, <3>2, <3>3, <3>4, <3>5
         DEF Fits, Idles, CreateFits, ReplaceFits, PurgeFits, FlushFits
  <2>7. CASE /\ k \in DOMAIN entry /\ Concerns(j, k) /\ j.op # "list"
             /\ job'[w] = NextRead([j EXCEPT !.found[entry[k].ident] = [key |-> k, at |-> entry[k].at]])
    <3> DEFINE m == [j EXCEPT !.found[entry[k].ident] = [key |-> k, at |-> entry[k].at]]
    <3>1. /\ DOMAIN m = JobFields /\ m.op = j.op /\ m.srv = j.srv
          /\ m.report = j.report /\ m.named = j.named
          /\ m.found = [j.found EXCEPT ![entry[k].ident] = [key |-> k, at |-> entry[k].at]]
      BY <2>2 DEF JobFields
    <3>2. job'[w] = NextRead(m)
      BY <2>7
    <3> HIDE DEF m
    <3>3. /\ j.op = "replace" /\ j.srv \in Server /\ entry[k].srv = j.srv
      BY <1>0, <2>0, <2>2, <2>7, ServerAssumption DEF Concerns, JobShape, JobBase
    <3>4. \A i \in Ident : m.found[i] = IF i = entry[k].ident THEN [key |-> k, at |-> entry[k].at]
                                        ELSE j.found[i]
      BY <1>0, <2>2, <3>1 DEF Job
    <3>5. \A l \in DOMAIN entry : Is(entry[l], j.srv, entry[k].ident) => l = k
      BY <2>7, <3>3 DEF SerialInv, NoDuplicateRows, Is
    <3>6. Seen(m, entry)
      BY <2>3, <3>1, <3>4, <3>5 DEF Seen
    <3> QED
      BY <1>0, <3>1, <3>2, <3>3, <3>6, NextReadFits
  <2> QED
    BY <2>4, <2>5, <2>6, <2>7
<1>7. CASE ApplyCreate(w)
  <2>0. jw.pc = "apply" /\ jw.op = "replace"
    BY <1>0, <1>7 DEF ApplyCreate, jw, JobShape, JobReady
  <2>0a. PICK i \in DOMAIN jw.report :
          /\ jw.found[i].key = 0
          /\ \E at \in Filled(jw.report[i].at) :
                Become(w, BeginCreate([jw EXCEPT !.report = Restrict(jw.report, DOMAIN jw.report \ {i})], i,
                                      at, jw.report[i].ttl))
    BY <1>7 DEF ApplyCreate, jw
  <2>1. PICK at :
          /\ jw.found[i].key = 0
          /\ Become(w, BeginCreate([jw EXCEPT !.report = Restrict(jw.report, DOMAIN jw.report \ {i})], i,
                                   at, jw.report[i].ttl))
    BY <2>0a
  <2> DEFINE o == [jw EXCEPT !.report = Restrict(jw.report, DOMAIN jw.report \ {i})]
  <2>2. /\ DOMAIN o = JobFields /\ o.op = jw.op /\ o.srv = jw.srv /\ o.found = jw.found
        /\ DOMAIN o.report = DOMAIN jw.report \ {i} /\ o.named = jw.named
    BY <1>0 DEF JobFields, Restrict
  <2>3. job'[w] = BeginCreate(o, i, at, jw.report[i].ttl)
    BY <1>j, <2>1
  <2> HIDE DEF o
  <2>4. Seen(o, entry) /\ i \in o.named
    BY <1>f, <2>2 DEF Seen
  <2> QED
    BY <2>0, <2>1, <2>2, <2>3, <2>4, BeginCreateFits
<1>8. CASE FlushStart(w)
  <2>1. PICK s \in Server :
            Become(w, NextCollect([Idle EXCEPT !.op = "flush", !.srv = s, !.todo = DOMAIN entry]))
    BY <1>8 DEF FlushStart
  <2> DEFINE o == [Idle EXCEPT !.op = "flush", !.srv = s, !.todo = DOMAIN entry]
  <2>2. /\ DOMAIN o = JobFields /\ o.op = "flush" /\ o.found = Idle.found /\ o.todo = DOMAIN entry
        /\ o.report = Idle.report /\ o.named = Idle.named
    BY <1>0 DEF JobFields
  <2>3. job'[w] = NextCollect(o)
    BY <1>j, <2>1
  <2> HIDE DEF o
  <2>4. Seen(o, entry)
    BY <1>t, <1>e, <2>2
  <2> QED
    BY <1>0, <2>2, <2>3, <2>4, NextCollectFits
<1>9. CASE CollectRow(w)
  <2>0. jw.pc = "collect" /\ jw.op = "flush"
    BY <1>0, <1>9 DEF CollectRow, jw, JobShape, JobReady
  <2>1. PICK k \in jw.todo :
          LET j == [jw EXCEPT !.todo = @ \ {k}] IN
          Become(w, NextCollect(IF k \in DOMAIN entry /\ entry[k].srv = j.srv
                                THEN [j EXCEPT !.victims = @ \cup {k}] ELSE j))
    BY <1>9 DEF CollectRow, jw
  <2> DEFINE j == [jw EXCEPT !.todo = @ \ {k}]
             m == IF k \in DOMAIN entry /\ entry[k].srv = j.srv
                  THEN [j EXCEPT !.victims = @ \cup {k}] ELSE j
  <2>2. /\ DOMAIN m = JobFields /\ m.op = jw.op /\ m.srv = jw.srv /\ m.found = jw.found
        /\ m.report = jw.report /\ m.named = jw.named /\ m.todo = jw.todo \ {k}
        /\ jw.victims \subseteq m.victims /\ (k \in DOMAIN entry /\ entry[k].srv = jw.srv => k \in m.victims)
    BY <1>0 DEF JobFields
  <2>3. job'[w] = NextCollect(m)
    BY <1>j, <2>1
  <2> HIDE DEF j, m
  <2>4. Seen(m, entry)
    BY <1>s, <2>2
  <2>5. \A l \in DOMAIN entry : entry[l].srv = jw.srv => l \in jw.victims \cup jw.todo
    BY <1>f, <2>0 DEF Fits, FlushFits
  <2> QED
    BY <1>0, <2>0, <2>2, <2>3, <2>4, <2>5, NextCollectFits
<1>10. CASE FlushAllStart(w)
  <2> DEFINE j == [Idle EXCEPT !.op = "flushall", !.victims = DOMAIN entry]
             m == [j EXCEPT !.pc = IF j.victims = {} THEN "reset" ELSE "wipe"]
  <2>1. job'[w] = m
    BY <1>j, <1>10 DEF FlushAllStart
  <2>2. /\ m.op = "flushall" /\ m.key = 0 /\ m.found = Idle.found /\ m.victims = DOMAIN entry
        /\ m.report = Idle.report /\ m.named = Idle.named /\ m.todo = {}
        /\ m.pc = IF DOMAIN entry = {} THEN "reset" ELSE "wipe"
    BY <1>0 DEF JobFields, Idle
  <2> HIDE DEF j, m
  <2>3. Seen(m, entry)
    BY <1>t, <1>e, <2>2
  <2> QED
    BY <1>e, <2>1, <2>2, <2>3 DEF Fits, Idles, CreateFits, ReplaceFits, PurgeFits, FlushFits
<1>11. CASE ResetCounter(w) \/ Abort(w)
  BY <1>i, <1>j, <1>11 DEF ResetCounter, Abort
<1> QED
  BY <1>1, <1>2, <1>3, <1>4, <1>5, <1>6, <1>7, <1>8, <1>9, <1>10, <1>11 DEF Looks

\* A command that writes or removes rows.
LEMMA RowFits ==
    ASSUME IInv, MaxInFlight = 1, SerialInv, NEW w \in Worker,
           PurgeRow(w) \/ ApplyRefresh(w) \/ StoreRow(w) \/ DropRow(w) \/ WipeRows(w)
    PROVE  Fits(job'[w], entry', now) /\ NoDuplicateRows'
<1> DEFINE jw == job[w]
<1>0. /\ JobShape(jw) /\ jw \in Job /\ DOMAIN jw = JobFields /\ TypeInv /\ NoDuplicateRows
      /\ 0 \notin DOMAIN entry /\ 0 \notin Id /\ DOMAIN entry \subseteq Id
  BY DEF IInv, TypeInv, TypeOK, JobShape, JobBase, Job, JobFields, Id, SerialInv
<1>f. Fits(jw, entry, now) /\ Seen(jw, entry)
  BY DEF SerialInv, Fits, ReplaceFits
<1>j. \A j : Become(w, j) => job'[w] = j
  BY DEF Become, IInv, TypeInv, TypeOK
<1>o. PICK own \in [Id -> Owner] : Assigned(own)
  BY DEF IInv, IdsHaveOneBlock, SerialInv
<1>k. Respects(jw, own) /\ Knows(jw, own)
  BY <1>o DEF Assigned, Respects
<1> HIDE DEF jw
<1>d. ASSUME NEW keys, entry' \in {entry, Without(keys)}
      PROVE  /\ DOMAIN entry' \subseteq DOMAIN entry /\ \A k \in DOMAIN entry' : entry'[k] = entry[k]
             /\ 0 \notin DOMAIN entry' /\ NoDuplicateRows' /\ Seen(jw, entry')
  <2>1. DOMAIN entry' \subseteq DOMAIN entry /\ \A k \in DOMAIN entry' : entry'[k] = entry[k]
    BY <1>d, WithoutRows
  <2> QED
    BY <1>0, <1>f, <2>1, FewerSeen, FewerUnique
<1>1. CASE PurgeRow(w)
  <2> DEFINE m == [jw EXCEPT !.key = 0]
  <2>1. /\ jw.pc = "purge" /\ jw.op \in {"replace", "list"} /\ entry' \in {entry, Without({jw.key})}
        /\ job'[w] = NextRead(m)
    BY <1>0, <1>j, <1>1 DEF PurgeRow, jw, JobShape, JobReady
  <2>2. /\ DOMAIN m = JobFields /\ m.op = jw.op /\ m.srv = jw.srv /\ m.found = jw.found
        /\ m.report = jw.report /\ m.named = jw.named
    BY <1>0 DEF JobFields
  <2> HIDE DEF m
  <2>3. Seen(m, entry') /\ 0 \notin DOMAIN entry' /\ NoDuplicateRows'
    BY <1>d, <2>1, <2>2 DEF Seen
  <2> QED
    BY <2>1, <2>2, <2>3, NextReadFits
<1>2. CASE DropRow(w)
  <2>0. jw.pc = "drop" /\ jw.op = "replace"
    BY <1>0, <1>2 DEF DropRow, jw, JobShape, JobReady
  <2>1. PICK i \in Overdue(jw) : /\ entry' \in {entry, Without({jw.found[i].key})}
                                 /\ Become(w, NextBlock([jw EXCEPT !.found[i] = NoKey]))
    BY <1>2 DEF DropRow, jw
  <2> DEFINE m == [jw EXCEPT !.found[i] = NoKey]
  <2>2. /\ DOMAIN m = JobFields /\ m.op = jw.op /\ m.srv = jw.srv
        /\ m.report = jw.report /\ m.named = jw.named /\ m.found = [jw.found EXCEPT ![i] = NoKey]
    BY <1>0 DEF JobFields
  <2>3. job'[w] = NextBlock(m)
    BY <1>j, <2>1
  <2> HIDE DEF m
  <2>4. \A x \in Ident : m.found[x] = IF x = i THEN NoKey ELSE jw.found[x]
    BY <1>0, <2>2 DEF Job
  <2>5. Seen(jw, entry') /\ 0 \notin DOMAIN entry' /\ NoDuplicateRows'
    BY <1>d, <2>1
  <2>6. Seen(m, entry')
    BY <2>2, <2>4, <2>5 DEF Seen, NoKey
  <2>7. m.named # {}
    BY <1>f, <2>0, <2>2 DEF Fits, ReplaceFits
  <2> QED
    BY <2>0, <2>2, <2>3, <2>5, <2>6, <2>7, NextBlockFits
<1>3. CASE WipeRows(w)
  <2>1. /\ jw.pc = "wipe" /\ entry' \in {entry, Without(jw.victims)} /\ entry' = Without(jw.victims)
        /\ job'[w] = IF jw.op = "flushall" THEN [jw EXCEPT !.pc = "reset", !.victims = {}] ELSE Idle
    BY <1>j, <1>3 DEF WipeRows, jw
  <2>2. Seen(jw, entry') /\ 0 \notin DOMAIN entry' /\ NoDuplicateRows'
    BY <1>d, <2>1
  <2>3. CASE jw.op = "flushall"
    <3> DEFINE m == [jw EXCEPT !.pc = "reset", !.victims = {}]
    <3>1. /\ m.pc = "reset" /\ m.victims = {} /\ m.op = jw.op /\ m.key = jw.key /\ m.srv = jw.srv
          /\ m.report = jw.report /\ m.named = jw.named /\ m.found = jw.found
      BY <1>0 DEF JobFields
    <3>2. job'[w] = m
      BY <2>1, <2>3
    <3> HIDE DEF m
    <3>3. DOMAIN entry' = {} /\ jw.key = 0 /\ \A i \in Ident : jw.found[i].key = 0
      BY <1>f, <2>1, <2>3, WithoutRows DEF Fits, FlushFits
    <3> QED
      BY <2>2, <2>3, <3>1, <3>2, <3>3 DEF Fits, Idles, CreateFits, ReplaceFits, PurgeFits, FlushFits, Seen
  <2>4. CASE jw.op # "flushall"
    BY <2>1, <2>2, <2>4, IdleFits
  <2> QED
    BY <2>3, <2>4
<1>4. CASE StoreRow(w)
  <2> DEFINE row == [srv |-> jw.srv, ident |-> jw.block.ident, at |-> jw.block.at,
                     ttl |-> jw.block.ttl, exp |-> now + jw.block.rem]
             m == [jw EXCEPT !.key = 0, !.block = NoBlock]
  <2>1. /\ jw.pc = "set" /\ entry' = Put(jw.key, row) /\ jw.op \in {"create", "replace"} /\ jw.key \in Id
        /\ job'[w] = (IF jw.op = "create" THEN Idle ELSE NextBlock(m)) /\ jw.block.ident \in Ident
    BY <1>0, <1>j, <1>4 DEF StoreRow, jw, JobShape, JobReady, JobBase, Job, Block
  <2>2. /\ DOMAIN m = JobFields /\ m.op = jw.op /\ m.srv = jw.srv /\ m.found = jw.found
        /\ m.report = jw.report /\ m.named = jw.named
    BY <1>0 DEF JobFields
  <2>3. row.srv = jw.srv /\ row.ident = jw.block.ident
    OBVIOUS
  <2> HIDE DEF m, row
  <2>4. /\ \A l \in DOMAIN entry : Is(entry[l], row.srv, row.ident) => l = jw.key
        /\ jw.found[row.ident].key = 0 /\ (jw.op = "replace" => row.ident \in jw.named /\ jw.named # {})
    BY <1>f, <2>1, <2>3 DEF Fits, CreateFits, ReplaceFits
  <2>5. NoDuplicateRows'
    BY <1>0, <2>1, <2>4, SetUnique
  <2>6. CASE jw.op = "create"
    <3>1. 0 \notin DOMAIN entry'
      BY <1>0, <2>1 DEF Put
    <3> QED
      BY <2>1, <2>5, <2>6, <3>1, IdleFits
  <2>7. CASE jw.op = "replace"
    <3>1. own[jw.key] = <<row.srv, row.ident>>
      BY <1>k, <2>1, <2>3 DEF Respects
    <3>2. Seen(jw, Put(jw.key, row))
      BY <1>0, <1>f, <1>o, <1>k, <2>1, <2>3, <2>4, <2>7, <3>1, SetFits
    <3>3. Seen(m, entry') /\ 0 \notin DOMAIN entry'
      BY <1>0, <2>1, <2>2, <3>2 DEF Seen, Put
    <3> QED
      BY <2>1, <2>2, <2>4, <2>5, <2>7, <3>3, NextBlockFits
  <2> QED
    BY <2>1, <2>6, <2>7
<1>5. CASE ApplyRefresh(w)
  <2>0. jw.pc = "apply" /\ jw.op = "replace"
    BY <1>0, <1>5 DEF ApplyRefresh, jw, JobShape, JobReady
  <2>1. PICK i \in DOMAIN jw.report :
          /\ jw.found[i].key # 0
          /\ entry' = Put(jw.found[i].key,
                          [srv |-> jw.srv, ident |-> i,
                           at |-> Restamp(jw.report[i].at, jw.report[i].ttl, jw.t0), ttl |-> jw.report[i].ttl,
                           exp |-> now + Remaining(jw.report[i].at, jw.report[i].ttl, jw.t0)])
          /\ Become(w, NextBlock([jw EXCEPT !.report = Restrict(jw.report, DOMAIN jw.report \ {i})]))
    BY <1>5 DEF ApplyRefresh, jw
  <2> DEFINE row == [srv |-> jw.srv, ident |-> i,
                     at |-> Restamp(jw.report[i].at, jw.report[i].ttl, jw.t0), ttl |-> jw.report[i].ttl,
                     exp |-> now + Remaining(jw.report[i].at, jw.report[i].ttl, jw.t0)]
             m == [jw EXCEPT !.report = Restrict(jw.report, DOMAIN jw.report \ {i})]
             k == jw.found[i].key
  <2>2. /\ DOMAIN m = JobFields /\ m.op = jw.op /\ m.srv = jw.srv /\ m.found = jw.found
        /\ DOMAIN m.report = DOMAIN jw.report \ {i} /\ m.named = jw.named
    BY <1>0 DEF JobFields, Restrict
  <2>3. row.srv = jw.srv /\ row.ident = i /\ entry' = Put(k, row) /\ job'[w] = NextBlock(m) /\ k # 0
    BY <1>j, <2>1
  <2>4. i \in jw.named /\ i \in Ident /\ k \in Id
    BY <1>0, <1>f, <2>3 DEF Seen, Job
  <2> HIDE DEF m, row, k
  <2>5. \A l \in DOMAIN entry : Is(entry[l], row.srv, row.ident) => l = k
    BY <1>f, <2>3, <2>4 DEF Seen, k
  <2>6. NoDuplicateRows'
    BY <1>0, <2>3, <2>4, <2>5, SetUnique
  <2>7. own[k] = <<row.srv, row.ident>> /\ jw.found[row.ident].key \in {0, k}
    BY <1>k, <2>3, <2>4 DEF Knows, k
  <2>8. Seen(jw, Put(k, row))
    BY <1>0, <1>f, <1>o, <1>k, <2>3, <2>4, <2>5, <2>7, SetFits
  <2>9. Seen(m, entry') /\ 0 \notin DOMAIN entry' /\ m.named # {}
    BY <1>0, <2>2, <2>3, <2>4, <2>8 DEF Seen, Put
  <2> QED
    BY <2>0, <2>2, <2>3, <2>6, <2>9, NextBlockFits
<1> QED
  BY <1>1, <1>2, <1>3, <1>4, <1>5

\* Whatever removes rows between the commands of a handler.
LEMMA SerialFewer ==
    ASSUME TypeInv, SerialInv, job' = job, dirtyReset' = dirtyReset, now' \in Nat, now' >= now,
           DOMAIN entry' \subseteq DOMAIN entry, \A k \in DOMAIN entry' : entry'[k] = entry[k]
    PROVE  SerialInv'
<1>1. now \in Nat /\ \A k \in DOMAIN entry : entry[k].at \in Int /\ entry[k].ttl \in Nat
  <2>1. now \in Nat /\ \A k \in DOMAIN entry : entry[k].at \in When /\ entry[k].ttl \in TTL
    BY BoundAssumption DEF TypeInv, TypeOK, Row
  <2> QED
    BY <2>1, TimesAreNat
<1>2. \A w \in Worker : Fits(job[w], entry', now')
  BY <1>1, FewerRows DEF SerialInv
<1>3. NoDuplicateRows'
  BY FewerUnique DEF SerialInv
<1>4. Alone'
  BY DEF SerialInv, Alone, InFlight
<1> QED
  BY <1>2, <1>3, <1>4 DEF SerialInv

\* With one handler at a time the counter is never dropped with an id in use.
LEMMA StaysClean ==
    ASSUME IInv, MaxInFlight = 1, SerialInv, NEW w \in Worker, Step(w)
    PROVE  ~dirtyReset'
<1>1. CASE ~ResetCounter(w)
  BY <1>1, StepRows DEF IInv, NewId, SerialInv
<1>2. CASE ResetCounter(w)
  <2>1. job[w].pc = "reset" /\ Fits(job[w], entry, now)
    BY <1>2 DEF ResetCounter, SerialInv
  <2>2. /\ DOMAIN entry = {} /\ job[w].victims = {} /\ job[w].key = 0
        /\ \A i \in Ident : job[w].found[i].key = 0
    BY <2>1 DEF Fits, FlushFits
  <2>3. Held(job[w]) = {}
    BY <2>2 DEF Held
  <2>4. \A v \in Worker : v # w => Held(job[v]) = {}
    BY OthersIdle, IdleHoldsNothing DEF IInv
  <2> QED
    BY <1>2, <2>2, <2>3, <2>4 DEF ResetCounter, SerialInv
<1> QED
  BY <1>1, <1>2

\* Every step keeps the invariant of a store with one handler at a time.
LEMMA SerialStep == MaxInFlight = 1 /\ IInv /\ SerialInv /\ [Next]_vars => SerialInv'
<1> SUFFICES ASSUME MaxInFlight = 1, IInv, SerialInv, [Next]_vars PROVE SerialInv'
  OBVIOUS
<1>0. TypeInv /\ TypeInv' /\ now \in Nat
  BY NextTypeInv, BoundAssumption DEF IInv, TypeInv, TypeOK
<1>1. ASSUME NEW w \in Worker, Step(w) PROVE SerialInv'
  <2>1. ~dirtyReset' /\ now' = now
    BY <1>0, <1>1, StaysClean, StepRows
  <2>2. CASE Looks(w)
    <3>1. entry' = entry
      BY <2>2 DEF Looks, CreateStart, MatchKey, NewId, ReplaceStart, ListStart, ReadRow, ApplyCreate,
         FlushStart, CollectRow, FlushAllStart, ResetCounter, Abort
    <3>2. NoDuplicateRows'
      BY <3>1 DEF SerialInv, NoDuplicateRows
    <3>3. Fits(job'[w], entry', now')
      BY <2>1, <2>2, <3>1, LookFits
    <3> QED
      BY <1>0, <1>1, <2>1, <3>2, <3>3, SerialServe
  <2>3. CASE PurgeRow(w) \/ ApplyRefresh(w) \/ StoreRow(w) \/ DropRow(w) \/ WipeRows(w)
    <3>1. Fits(job'[w], entry', now') /\ NoDuplicateRows'
      BY <2>1, <2>3, RowFits
    <3> QED
      BY <1>0, <1>1, <2>1, <3>1, SerialServe
  <2> QED
    BY <1>1, <2>2, <2>3 DEF Step, Looks
<1>2. CASE \E k \in Id : DeleteEntry(k)
  <2>1. /\ DOMAIN entry' \subseteq DOMAIN entry /\ \A k \in DOMAIN entry' : entry'[k] = entry[k]
        /\ UNCHANGED <<now, job, dirtyReset>>
    BY <1>2, WithoutRows DEF DeleteEntry
  <2> QED
    BY <1>0, <2>1, SerialFewer
<1>3. CASE Tick
  BY <1>0, <1>3, SerialFewer DEF Tick, Restrict
<1>4. CASE UNCHANGED vars
  BY <1>0, <1>4, SerialFewer DEF vars
<1> QED
  BY <1>1, <1>2, <1>3, <1>4 DEF Next

\* The empty store has it.
LEMMA SerialInit == Init => SerialInv
<1> SUFFICES ASSUME Init PROVE SerialInv
  OBVIOUS
<1>1. DOMAIN entry = {} /\ ~dirtyReset /\ \A w \in Worker : job[w] = Idle
  BY DEF Init
<1>2. \A w \in Worker : Fits(job[w], entry, now)
  BY <1>1, IdleFits
<1>3. InFlight = {}
  BY <1>1 DEF InFlight, Idle
<1> QED
  BY <1>1, <1>2, <1>3 DEF SerialInv, Alone, NoDuplicateRows

\* With one handler at a time it always holds.
LEMMA SerialHolds == ASSUME MaxInFlight = 1 PROVE Spec => [](IInv /\ SerialInv)
<1>1. IInv /\ SerialInv /\ [Next]_vars => SerialInv'
  BY SerialStep
<1> QED
  BY <1>1, SerialInit, IInvHolds, PTL DEF Spec

\* With one handler inside the store at a time, and any number of edges, blocks and handlers, a
\* block never has two rows: re-notified and re-reported blocks refresh the row they have.
THEOREM SerialNoDuplicates == ASSUME MaxInFlight = 1 PROVE Spec => []NoDuplicateRows
<1>1. SerialInv => NoDuplicateRows
  BY DEF SerialInv
<1> QED
  BY <1>1, SerialHolds, PTL

-----------------------------------------------------------------------------
(* With one handler at a time the store implements LiveBlocks. *)

Requests == [w \in Worker |-> Requested(job[w])]
Nothing == [op |-> AllServers]

\* What a handler without a block in hand has asked for.
Asks(j) == [op |-> j.op, srv |-> j.srv, store |-> [i \in DOMAIN j.report |-> j.report[i]],
            named |-> IF j.op = "create" THEN DOMAIN j.report ELSE j.named, since |-> j.t0]

\* A handler inside the store without a block in hand has asked for its report.
LEMMA HandFree == ASSUME NEW j, j.pc \notin {"idle", "match", "set"} PROVE Requested(j) = Asks(j)
<1>1. ToStore(j) = [i \in DOMAIN j.report |-> j.report[i]] /\ DOMAIN ToStore(j) = DOMAIN j.report
  BY DEF ToStore
<1> QED
  BY <1>1 DEF Requested, Asks

\* A handler outside the store has asked for nothing.
LEMMA IdleAsks == Requested(Idle) = Nothing
  BY DEF Requested, Nothing, Idle

\* A handler inside the store has asked for something.
LEMMA BusyAsks == ASSUME NEW j, j.pc # "idle" PROVE Requested(j) # Nothing
<1>1. DOMAIN Requested(j) = {"op", "srv", "store", "named", "since"}
  BY DEF Requested
<1>2. DOMAIN Nothing = {"op"}
  BY DEF Nothing
<1> QED
  BY <1>1, <1>2

\* Going on to the next command changes no request, or ends it.
LEMMA NextAsks ==
    ASSUME NEW j, DOMAIN j = JobFields, NEW m \in {NextBlock(j), NextRead(j), NextCollect(j)}
    PROVE  Requested(m) \in {Asks(j), Nothing}
<1>1. m = Idle \/ \E pc \in {"apply", "drop", "read", "collect", "wipe"} : m = [j EXCEPT !.pc = pc]
  BY DEF NextBlock, NextRead, NextCollect
<1>2. ASSUME NEW pc \in {"apply", "drop", "read", "collect", "wipe"}, m = [j EXCEPT !.pc = pc]
      PROVE  Requested(m) = Asks(j)
  <2>1. /\ m.pc = pc /\ m.op = j.op /\ m.srv = j.srv /\ m.report = j.report /\ m.named = j.named
        /\ m.t0 = j.t0
    BY <1>2 DEF JobFields
  <2>2. Requested(m) = Asks(m)
    BY <2>1, HandFree
  <2> QED
    BY <2>1, <2>2 DEF Asks
<1> QED
  BY <1>1, <1>2, IdleAsks

\* Steps of LiveBlocks, told by the blocks and requests of the store.
LEMMA LiveGoes ==
    ASSUME NEW w \in Worker, now' = now, Blocks' = Blocks,
           Requests' = Requests \/ Requests' = [Requests EXCEPT ![w] = Requests[w]]
           \/ Requests' = [Requests EXCEPT ![w] = Nothing]
    PROVE  [Live!Next]_(Live!vars)
<1>1. Requests = [Requests EXCEPT ![w] = Requests[w]]
  BY DEF Requests
<1>2. CASE Requests' = Requests
  BY <1>2 DEF Live!vars, Requests
<1>3. CASE Requests' = [Requests EXCEPT ![w] = Nothing] /\ Requests[w] = Nothing
  BY <1>1, <1>2, <1>3
<1>4. CASE Requests' = [Requests EXCEPT ![w] = Nothing] /\ Requests[w] # Nothing
  <2>1. Live!End(w)
    BY <1>4 DEF Live!End, Live!None, Requests, Nothing
  <2> QED
    BY <2>1 DEF Live!Next
<1> QED
  BY <1>1, <1>2, <1>3, <1>4

\* A handler enters the store.
LEMMA LiveAsks ==
    ASSUME NEW w \in Worker, now' = now, Blocks' = Blocks, Requests[w] = Nothing,
           NEW r, Requests' = [Requests EXCEPT ![w] = r],
           r.op \in {"create", "replace", "list", "flush", "flushall"},
           r.srv \in Server \cup {AllServers}, r.named \subseteq Ident,
           r.store \in [IF r.op \in {"create", "replace"} THEN r.named ELSE {} -> [at : Int, ttl : TTL]],
           r.since = IF r.op = "replace" THEN now ELSE 0
    PROVE  [Live!Next]_(Live!vars)
<1>1. Requests'[w] = r
  BY DEF Requests
<1>2. Live!Asked(r)
  BY DEF Live!Asked
<1>3. Live!Ask(w)
  BY <1>1, <1>2 DEF Live!Ask, Live!None, Requests, Nothing
<1> QED
  BY <1>3 DEF Live!Next

\* A block over when it was reported, or undated, is dated when it is handled.
LEMMA LiveRedates ==
    ASSUME NEW w \in Worker, now' = now, Blocks' = Blocks, Requests[w] # Nothing,
           NEW i \in Ident, i \in DOMAIN Requests[w].store,
           Live!Over(Requests[w].store[i], now) \/ ~Live!Dated(Requests[w].store[i]),
           Requests' = [Requests EXCEPT ![w].store[i].at = now]
    PROVE  [Live!Next]_(Live!vars)
<1>1. Live!Redate(w, i)
  BY DEF Live!Redate, Live!None, Requests, Nothing
<1> QED
  BY <1>1 DEF Live!Next

\* A block is stored.
LEMMA LiveStores ==
    ASSUME NEW w \in Worker, now' = now, NEW r, Requests[w] = r, r # Nothing,
           NEW i \in Ident, i \in DOMAIN r.store,
           NEW at \in {r.store[i].at} \cup (IF Live!Over(r.store[i], r.since) THEN {r.since} ELSE {}),
           Blocks' = {b \in Blocks : ~Live!Same(b, r.srv, i)} \cup
                     {[srv |-> r.srv, ident |-> i, at |-> at, ttl |-> r.store[i].ttl]},
           NEW q \in {Nothing, [r EXCEPT !.store = [j \in DOMAIN r.store \ {i} |-> r.store[j]]]},
           Requests' = [Requests EXCEPT ![w] = q]
    PROVE  [Live!Next]_(Live!vars)
<1>1. Live!Goes(w, [r EXCEPT !.store = [j \in DOMAIN r.store \ {i} |-> r.store[j]]])
  BY DEF Live!Goes, Live!None, Requests, Nothing
<1>2. Live!Store(w, i)
  BY <1>1 DEF Live!Store, Live!None, Requests, Nothing
<1> QED
  BY <1>2 DEF Live!Next

\* A report drops a block it leaves out, or a reader one that is over.
LEMMA LiveRemoves ==
    ASSUME NEW w \in Worker, now' = now, NEW r, Requests[w] = r, r # Nothing,
           NEW b \in Blocks, Blocks' = Blocks \ {b},
           \/ /\ r.op = "replace" /\ b.srv = r.srv /\ b.ident \notin r.named /\ r.named # {}
              /\ DOMAIN r.store = {} /\ r.store = [j \in DOMAIN r.store |-> r.store[j]]
              /\ ~Live!Dated(b) \/ b.at + Grace <= r.since
           \/ r.op \in {"list", "replace"} /\ Live!Of(b, r.srv) /\ Live!Over(b, now),
           NEW q \in {Nothing, r}, Requests' = [Requests EXCEPT ![w] = q]
    PROVE  [Live!Next]_(Live!vars)
<1>1. Live!Goes(w, r)
  BY DEF Live!Goes, Live!None, Requests, Nothing
<1>2. DOMAIN r.store = {} /\ r.store = [j \in DOMAIN r.store |-> r.store[j]] => r.store = [j \in {} |-> 0]
  OBVIOUS
<1>3. Live!Drop(w, b) \/ Live!Purge(w, b)
  BY <1>1, <1>2 DEF Live!Drop, Live!Purge, Live!None, Requests, Nothing
<1> QED
  BY <1>3 DEF Live!Next

\* A flush removes the blocks of its edge, or all of them.
LEMMA LiveFlushes ==
    ASSUME NEW w \in Worker, now' = now, NEW r, Requests[w] = r, r # Nothing,
           r.op \in {"flush", "flushall"},
           Blocks' = {b \in Blocks : r.op = "flush" /\ ~Live!Of(b, r.srv)},
           NEW q \in {Nothing, r}, Requests' = [Requests EXCEPT ![w] = q]
    PROVE  [Live!Next]_(Live!vars)
<1>1. Live!Goes(w, r)
  BY DEF Live!Goes, Live!None, Requests, Nothing
<1>2. Live!Flush(w)
  BY <1>1 DEF Live!Flush, Live!None, Requests, Nothing
<1> QED
  BY <1>2 DEF Live!Next

\* A row without its id and its expiry.
BlockOf(row) == [srv |-> row.srv, ident |-> row.ident, at |-> row.at, ttl |-> row.ttl]

\* The blocks are those of the rows.
LEMMA BlockIs == Blocks = {BlockOf(entry[k]) : k \in DOMAIN entry}
  BY DEF Blocks, BlockOf

\* A block has the fields of its row.
LEMMA BlockFields ==
    ASSUME NEW row
    PROVE  /\ BlockOf(row).srv = row.srv /\ BlockOf(row).ident = row.ident
           /\ BlockOf(row).at = row.at /\ BlockOf(row).ttl = row.ttl
  BY DEF BlockOf

\* The same rows are the same blocks.
LEMMA SameRows == ASSUME entry' = entry PROVE Blocks' = Blocks
  BY DEF Blocks

\* Without duplicates, removing a row removes its block.
LEMMA BlocksMinus ==
    ASSUME NoDuplicateRows, NEW k \in DOMAIN entry, entry' = Without({k})
    PROVE  Blocks' = Blocks \ {BlockOf(entry[k])}
<1>1. DOMAIN entry' = DOMAIN entry \ {k} /\ \A x \in DOMAIN entry' : entry'[x] = entry[x]
  BY WithoutRows
<1>2. Blocks' = {BlockOf(entry'[x]) : x \in DOMAIN entry'}
  BY DEF Blocks, BlockOf
<1>3. \A x \in DOMAIN entry : BlockOf(entry[x]) = BlockOf(entry[k]) => x = k
  BY BlockFields DEF NoDuplicateRows
<1>4. Blocks' = {BlockOf(entry[x]) : x \in DOMAIN entry \ {k}}
  BY <1>1, <1>2
<1>5. ASSUME NEW b \in Blocks, b # BlockOf(entry[k]) PROVE b \in Blocks'
  BY <1>4, <1>5, BlockIs
<1>6. ASSUME NEW b \in Blocks' PROVE b \in Blocks /\ b # BlockOf(entry[k])
  BY <1>3, <1>4, <1>6, BlockIs
<1> QED
  BY <1>5, <1>6

\* A SET under the one key of a block, or a free one, replaces that block.
LEMMA BlocksPut ==
    ASSUME NEW k, NEW row, entry' = Put(k, row),
           \A l \in DOMAIN entry : Is(entry[l], row.srv, row.ident) <=> l = k
    PROVE  Blocks' = {b \in Blocks : ~Live!Same(b, row.srv, row.ident)} \cup {BlockOf(row)}
<1>1. /\ DOMAIN entry' = DOMAIN entry \cup {k} /\ entry'[k] = row
      /\ \A x \in DOMAIN entry : x # k => entry'[x] = entry[x]
  BY DEF Put
<1>2. Blocks' = {BlockOf(entry'[x]) : x \in DOMAIN entry'}
  BY DEF Blocks, BlockOf
<1>3. \A x \in DOMAIN entry : Live!Same(BlockOf(entry[x]), row.srv, row.ident) <=> x = k
  BY BlockFields DEF Live!Same, Is
<1> QED
  BY <1>1, <1>2, <1>3, BlockIs

\* An operator lifts a block.
LEMMA LiveLifts ==
    ASSUME now' = now, Requests' = Requests, NEW b \in Blocks, Blocks' = Blocks \ {b}
    PROVE  [Live!Next]_(Live!vars)
<1>1. Live!Lift(b)
  BY DEF Live!Lift, Requests
<1> QED
  BY <1>1 DEF Live!Next

\* Time passes.
LEMMA LivePasses ==
    ASSUME now' = now + 1, Requests' = Requests, Blocks' \subseteq Blocks,
           \A b \in Blocks \ Blocks' : b.ttl = 0 \/ ~Live!Dated(b) \/ Live!Over(b, now')
    PROVE  [Live!Next]_(Live!vars)
<1>1. Live!Pass
  BY DEF Live!Pass, Requests
<1> QED
  BY <1>1 DEF Live!Next

\* The same rows, or the same but for a key that had none.
LEMMA SameBlocks ==
    ASSUME DOMAIN entry' = DOMAIN entry, \A k \in DOMAIN entry : entry'[k] = entry[k]
    PROVE  Blocks' = Blocks
<1>1. Blocks' = {BlockOf(entry'[k]) : k \in DOMAIN entry'}
  BY DEF Blocks, BlockOf
<1> QED
  BY <1>1, BlockIs

\* A request depends on these fields of a handler alone.
LEMMA SameAsks ==
    ASSUME NEW j, NEW o, o.op = j.op, o.srv = j.srv, o.report = j.report, o.named = j.named, o.t0 = j.t0
    PROVE  Asks(o) = Asks(j)
  BY DEF Asks

\* The parts of a request.
LEMMA AsksFields ==
    ASSUME NEW j
    PROVE  /\ Asks(j).op = j.op /\ Asks(j).srv = j.srv /\ Asks(j).since = j.t0
           /\ Asks(j).store = [i \in DOMAIN j.report |-> j.report[i]]
           /\ Asks(j).named = IF j.op = "create" THEN DOMAIN j.report ELSE j.named
  BY DEF Asks

\* What a handler with a block in hand has asked for.
Hand(j) == [x \in DOMAIN j.report \cup {j.block.ident} |->
               IF x = j.block.ident THEN [at |-> j.block.at, ttl |-> j.block.ttl] ELSE j.report[x]]

\* What is left to store includes the block in hand.
LEMMA HandStore == ASSUME NEW j, j.pc \in {"match", "set"} PROVE Requested(j).store = Hand(j)
<1>1. ToStore(j) = Hand(j)
  BY DEF ToStore, Hand
<1> QED
  BY <1>1 DEF Requested

\* The request of a create.
LEMMA HandCreates ==
    ASSUME NEW j, j.pc \in {"match", "set"}, j.op = "create"
    PROVE  Requested(j) = [op |-> "create", srv |-> j.srv, store |-> Hand(j), named |-> DOMAIN Hand(j),
                           since |-> j.t0]
<1>1. ToStore(j) = Hand(j)
  BY DEF ToStore, Hand
<1> QED
  BY <1>1 DEF Requested

\* The request of a replace with a block in hand.
LEMMA HandReplaces ==
    ASSUME NEW j, j.pc \in {"match", "set"}, j.op = "replace"
    PROVE  Requested(j) = [op |-> "replace", srv |-> j.srv, store |-> Hand(j), named |-> j.named,
                           since |-> j.t0]
<1>1. ToStore(j) = Hand(j)
  BY DEF ToStore, Hand
<1> QED
  BY <1>1 DEF Requested

\* A step of one handler changes the request of that handler.
LEMMA OneRequest ==
    ASSUME TypeInv, NEW w \in Worker, Step(w)
    PROVE  /\ Requests' = [Requests EXCEPT ![w] = Requested(job'[w])]
           /\ Requests[w] = Requested(job[w]) /\ now' = now
<1>1. now' = now /\ \A v \in Worker : v # w => job'[v] = job[v]
  BY StepRows
<1>2. Requests' = [v \in Worker |-> Requested(job'[v])]
  BY DEF Requests
<1> QED
  BY <1>1, <1>2 DEF Requests

\* A command that writes no row starts, changes or ends a request, or is invisible.
LEMMA LookRefines ==
    ASSUME IInv, MaxInFlight = 1, SerialInv, NEW w \in Worker, Looks(w)
    PROVE  [Live!Next]_(Live!vars)
<1> DEFINE jw == job[w]
<1>0. /\ JobShape(jw) /\ jw \in Job /\ DOMAIN jw = JobFields /\ DOMAIN Idle = JobFields
      /\ DOMAIN entry \subseteq Id /\ TypeInv
      /\ now \in Nat /\ Time \subseteq Nat /\ Stamp \subseteq Int
  <2>1. now \in Nat /\ Stamp \subseteq When
    BY BoundAssumption DEF IInv, TypeInv, TypeOK, Stamp, When
  <2> QED
    BY <2>1, TimesAreNat DEF IInv, TypeInv, TypeOK, JobShape, JobBase, Job, JobFields, Idle
<1>f. Fits(jw, entry, now)
  BY DEF SerialInv
<1>j. \A j : Become(w, j) => job'[w] = j
  BY DEF Become, IInv, TypeInv, TypeOK
<1>s. Step(w)
  BY DEF Looks, Step
<1>r. /\ Requests' = [Requests EXCEPT ![w] = Requested(job'[w])] /\ Requests[w] = Requested(jw)
      /\ now' = now /\ Blocks' = Blocks
  <2>1. entry' = entry
    BY DEF Looks, CreateStart, MatchKey, NewId, ReplaceStart, ListStart, ReadRow, ApplyCreate,
       FlushStart, CollectRow, FlushAllStart, ResetCounter, Abort
  <2> QED
    BY <1>0, <1>s, <2>1, OneRequest, SameRows
<1>e. /\ Idle.op = "none" /\ Idle.named = {} /\ Idle.t0 = 0 /\ Idle.srv = AllServers
      /\ Idle.report = [i \in {} |-> NoBlock] /\ Requested(Idle) = Nothing
  BY IdleAsks DEF Idle
<1>n. jw.pc = "idle" => Requested(jw) = Nothing
  BY DEF Requested, Nothing
<1>g. Requested(job'[w]) \in {Requested(jw), Nothing} => [Live!Next]_(Live!vars)
  BY <1>r, LiveGoes
<1> HIDE DEF jw
<1>1. CASE CreateStart(w)
  <2>1. PICK s \in Server, i \in Ident, at \in Stamp, ttl \in TTL :
            Become(w, BeginCreate([Idle EXCEPT !.op = "create", !.srv = s], i, at, ttl))
    BY <1>1 DEF CreateStart
  <2> DEFINE o == [Idle EXCEPT !.op = "create", !.srv = s]
             m == BeginCreate(o, i, at, ttl)
             r == Requested(m)
  <2>2. /\ m.pc = "match" /\ m.op = "create" /\ m.srv = s /\ m.t0 = 0 /\ m.report = [x \in {} |-> NoBlock]
        /\ m.block.ident = i /\ m.block.at = Restamp(at, ttl, now) /\ m.block.ttl = ttl
    BY <1>0, <1>e DEF JobFields, BeginCreate
  <2>3. job'[w] = m
    BY <1>j, <2>1
  <2> HIDE DEF o, m
  <2>4. /\ r.op = "create" /\ r.srv = s /\ r.since = 0 /\ r.named = {i}
        /\ r.store = [x \in {i} |-> [at |-> Restamp(at, ttl, now), ttl |-> ttl]]
    <3>1. DOMAIN m.report = {}
      BY <2>2
    <3>2. Hand(m) = [x \in {i} |-> [at |-> Restamp(at, ttl, now), ttl |-> ttl]]
      BY <2>2, <3>1 DEF Hand
    <3>3. r = [op |-> "create", srv |-> m.srv, store |-> Hand(m), named |-> DOMAIN Hand(m), since |-> m.t0]
      BY <2>2, HandCreates
    <3> QED
      BY <2>2, <3>2, <3>3
  <2> HIDE DEF r
  <2>5. Restamp(at, ttl, now) \in Int
    BY <1>0 DEF Restamp
  <2>6. r.store \in [IF r.op \in {"create", "replace"} THEN r.named ELSE {} -> [at : Int, ttl : TTL]]
    BY <2>4, <2>5
  <2>7. Requests[w] = Nothing
    BY <1>n, <1>r, <1>1 DEF CreateStart, MayStart, jw
  <2>8. Requests' = [Requests EXCEPT ![w] = r]
    BY <1>r, <2>3 DEF r
  <2>9. /\ r.op \in {"create", "replace", "list", "flush", "flushall"} /\ r.srv \in Server \cup {AllServers}
        /\ r.named \subseteq Ident /\ r.since = IF r.op = "replace" THEN now ELSE 0
    BY <2>4
  <2> QED
    BY <1>r, <2>6, <2>7, <2>8, <2>9, LiveAsks
<1>2. CASE MatchKey(w) \/ NewId(w)
  <2>a. \E pc \in {"match", "set"} : \E k, todo : job'[w] = [jw EXCEPT !.pc = pc, !.key = k, !.todo = todo]
    <3>1. CASE MatchKey(w)
      <4>1. PICK k \in jw.todo :
               Become(w, IF k \in DOMAIN entry /\ SameBlock(k, jw.srv, jw.block.ident)
                         THEN [jw EXCEPT !.pc = "set", !.key = k, !.todo = {}]
                         ELSE [jw EXCEPT !.todo = @ \ {k}])
        BY <3>1 DEF MatchKey, jw
      <4>2. jw.pc = "match"
        BY <3>1 DEF MatchKey, jw
      <4>3. [jw EXCEPT !.todo = @ \ {k}] = [jw EXCEPT !.pc = "match", !.key = jw.key, !.todo = jw.todo \ {k}]
        BY <1>0, <4>2 DEF Job
      <4>4. \/ job'[w] = [jw EXCEPT !.pc = "set", !.key = k, !.todo = {}]
            \/ job'[w] = [jw EXCEPT !.pc = "match", !.key = jw.key, !.todo = jw.todo \ {k}]
        <5>1. CASE k \in DOMAIN entry /\ SameBlock(k, jw.srv, jw.block.ident)
          BY <1>j, <4>1, <5>1
        <5>2. CASE ~(k \in DOMAIN entry /\ SameBlock(k, jw.srv, jw.block.ident))
          BY <1>j, <4>1, <4>3, <5>2
        <5> QED
          BY <5>1, <5>2
      <4> QED
        BY <4>4
    <3>2. CASE NewId(w)
      <4>1. job'[w] = [jw EXCEPT !.pc = "set", !.key = nextId + 1]
        BY <1>j, <3>2 DEF NewId, jw
      <4>2. job'[w] = [jw EXCEPT !.pc = "set", !.key = nextId + 1, !.todo = jw.todo]
        BY <1>0, <4>1 DEF Job
      <4> QED
        BY <4>2
    <3> QED
      BY <1>2, <3>1, <3>2
  <2>b. PICK pc \in {"match", "set"} : \E k, todo : job'[w] = [jw EXCEPT !.pc = pc, !.key = k, !.todo = todo]
    BY <2>a
  <2>1. PICK k, todo : job'[w] = [jw EXCEPT !.pc = pc, !.key = k, !.todo = todo]
    BY <2>b
  <2> DEFINE m == [jw EXCEPT !.pc = pc, !.key = k, !.todo = todo]
  <2>2. /\ m.pc = pc /\ m.op = jw.op /\ m.srv = jw.srv /\ m.t0 = jw.t0 /\ m.block = jw.block
        /\ m.report = jw.report /\ m.named = jw.named
    BY <1>0 DEF JobFields
  <2>3. jw.pc = "match"
    BY <1>2 DEF MatchKey, NewId, jw
  <2> HIDE DEF m
  <2>4. ToStore(m) = ToStore(jw)
    BY <2>2, <2>3 DEF ToStore
  <2>5. Requested(m) = Requested(jw)
    BY <2>2, <2>3, <2>4 DEF Requested
  <2> QED
    BY <1>g, <2>1, <2>5 DEF m
<1>3. CASE ReplaceStart(w)
  <2>0. PICK s \in Server, named \in SUBSET Ident : \E report \in [named -> [at : Stamp, ttl : TTL]] :
            Become(w, NextRead([Idle EXCEPT !.op = "replace", !.srv = s, !.t0 = now,
                                            !.todo = DOMAIN entry, !.report = report, !.named = named]))
    BY <1>3 DEF ReplaceStart
  <2>1. PICK report \in [named -> [at : Stamp, ttl : TTL]] :
            Become(w, NextRead([Idle EXCEPT !.op = "replace", !.srv = s, !.t0 = now,
                                            !.todo = DOMAIN entry, !.report = report, !.named = named]))
    BY <2>0
  <2> DEFINE o == [Idle EXCEPT !.op = "replace", !.srv = s, !.t0 = now,
                               !.todo = DOMAIN entry, !.report = report, !.named = named]
             r == Asks(o)
  <2>2. /\ DOMAIN o = JobFields /\ o.op = "replace" /\ o.srv = s /\ o.t0 = now
        /\ o.report = report /\ o.named = named
    BY <1>0 DEF JobFields
  <2>3. job'[w] = NextRead(o)
    BY <1>j, <2>1
  <2> HIDE DEF o
  <2>4. Requested(job'[w]) \in {r, Nothing}
    BY <2>2, <2>3, NextAsks
  <2>5. /\ r.op = "replace" /\ r.srv = s /\ r.since = now /\ r.named = named
        /\ r.store = [i \in named |-> report[i]]
    BY <2>2, AsksFields
  <2> HIDE DEF r
  <2>6. r.store \in [IF r.op \in {"create", "replace"} THEN r.named ELSE {} -> [at : Int, ttl : TTL]]
    <3>1. ASSUME NEW i \in named PROVE report[i] \in [at : Int, ttl : TTL]
      <4>1. report[i] \in [at : Stamp, ttl : TTL]
        OBVIOUS
      <4>2. report[i].at \in Stamp /\ report[i].ttl \in TTL
        BY <4>1
      <4>4. \A t \in Stamp : t \in Int
        BY <1>0
      <4>3. report[i] = [at |-> report[i].at, ttl |-> report[i].ttl]
        BY <4>1
      <4> QED
        BY <4>2, <4>3, <4>4
    <3>2. [i \in named |-> report[i]] \in [named -> [at : Int, ttl : TTL]]
      BY <3>1
    <3> QED
      BY <2>5, <3>2
  <2>7. Requests[w] = Nothing
    BY <1>n, <1>r, <1>3 DEF ReplaceStart, MayStart, jw
  <2>8. CASE Requested(job'[w]) = r
    BY <1>r, <2>5, <2>6, <2>7, <2>8, LiveAsks
  <2>9. CASE Requested(job'[w]) = Nothing
    BY <1>g, <2>9
  <2> QED
    BY <2>4, <2>8, <2>9
<1>4. CASE ListStart(w)
  <2>1. PICK s \in Server \cup {AllServers} :
            Become(w, NextRead([Idle EXCEPT !.op = "list", !.srv = s, !.todo = DOMAIN entry]))
    BY <1>4 DEF ListStart
  <2> DEFINE o == [Idle EXCEPT !.op = "list", !.srv = s, !.todo = DOMAIN entry]
             r == Asks(o)
  <2>2. /\ DOMAIN o = JobFields /\ o.op = "list" /\ o.srv = s /\ o.t0 = 0
        /\ o.report = [i \in {} |-> NoBlock] /\ o.named = {}
    BY <1>0, <1>e DEF JobFields
  <2>3. job'[w] = NextRead(o)
    BY <1>j, <2>1
  <2> HIDE DEF o
  <2>4. Requested(job'[w]) \in {r, Nothing}
    BY <2>2, <2>3, NextAsks
  <2>5. /\ r.op = "list" /\ r.srv = s /\ r.since = 0 /\ r.named = {}
        /\ r.store = [i \in {} |-> o.report[i]]
    <3>1. DOMAIN o.report = {}
      BY <2>2
    <3> QED
      BY <2>2, <3>1, AsksFields
  <2> HIDE DEF r
  <2>6. r.store \in [IF r.op \in {"create", "replace"} THEN r.named ELSE {} -> [at : Int, ttl : TTL]]
    BY <2>5
  <2>7. Requests[w] = Nothing
    BY <1>n, <1>r, <1>4 DEF ListStart, MayStart, jw
  <2>8. CASE Requested(job'[w]) = r
    BY <1>r, <2>5, <2>6, <2>7, <2>8, LiveAsks
  <2>9. CASE Requested(job'[w]) = Nothing
    BY <1>g, <2>9
  <2> QED
    BY <2>4, <2>8, <2>9
<1>5. CASE FlushStart(w)
  <2>1. PICK s \in Server :
            Become(w, NextCollect([Idle EXCEPT !.op = "flush", !.srv = s, !.todo = DOMAIN entry]))
    BY <1>5 DEF FlushStart
  <2> DEFINE o == [Idle EXCEPT !.op = "flush", !.srv = s, !.todo = DOMAIN entry]
             r == Asks(o)
  <2>2. /\ DOMAIN o = JobFields /\ o.op = "flush" /\ o.srv = s /\ o.t0 = 0
        /\ o.report = [i \in {} |-> NoBlock] /\ o.named = {}
    BY <1>0, <1>e DEF JobFields
  <2>3. job'[w] = NextCollect(o)
    BY <1>j, <2>1
  <2> HIDE DEF o
  <2>4. Requested(job'[w]) \in {r, Nothing}
    BY <2>2, <2>3, NextAsks
  <2>5. /\ r.op = "flush" /\ r.srv = s /\ r.since = 0 /\ r.named = {}
        /\ r.store = [i \in {} |-> o.report[i]]
    <3>1. DOMAIN o.report = {}
      BY <2>2
    <3> QED
      BY <2>2, <3>1, AsksFields
  <2> HIDE DEF r
  <2>6. r.store \in [IF r.op \in {"create", "replace"} THEN r.named ELSE {} -> [at : Int, ttl : TTL]]
    BY <2>5
  <2>7. Requests[w] = Nothing
    BY <1>n, <1>r, <1>5 DEF FlushStart, MayStart, jw
  <2>8. CASE Requested(job'[w]) = r
    BY <1>r, <2>5, <2>6, <2>7, <2>8, LiveAsks
  <2>9. CASE Requested(job'[w]) = Nothing
    BY <1>g, <2>9
  <2> QED
    BY <2>4, <2>8, <2>9
<1>6. CASE FlushAllStart(w)
  <2> DEFINE j == [Idle EXCEPT !.op = "flushall", !.victims = DOMAIN entry]
             m == [j EXCEPT !.pc = IF j.victims = {} THEN "reset" ELSE "wipe"]
             r == Asks(m)
  <2>1. job'[w] = m
    BY <1>j, <1>6 DEF FlushAllStart
  <2>2. /\ m.pc \in {"reset", "wipe"} /\ m.op = "flushall" /\ m.srv = AllServers /\ m.t0 = 0
        /\ m.report = [i \in {} |-> NoBlock] /\ m.named = {}
    BY <1>0, <1>e DEF JobFields
  <2> HIDE DEF j, m
  <2>3. Requested(job'[w]) = r
    BY <2>1, <2>2, HandFree
  <2>4. /\ r.op = "flushall" /\ r.srv = AllServers /\ r.since = 0 /\ r.named = {}
        /\ r.store = [i \in {} |-> m.report[i]]
    <3>1. DOMAIN m.report = {}
      BY <2>2
    <3> QED
      BY <2>2, <3>1, AsksFields
  <2> HIDE DEF r
  <2>5. r.store \in [IF r.op \in {"create", "replace"} THEN r.named ELSE {} -> [at : Int, ttl : TTL]]
    BY <2>4
  <2>6. Requests[w] = Nothing
    BY <1>n, <1>r, <1>6 DEF FlushAllStart, MayStart, jw
  <2> QED
    BY <1>r, <2>3, <2>4, <2>5, <2>6, LiveAsks
<1>7. CASE ReadRow(w)
  <2>0. jw.pc = "read" /\ Requested(jw) = Asks(jw)
    BY <1>7, HandFree DEF ReadRow, jw
  <2>1. PICK k \in jw.todo :
          LET j == [jw EXCEPT !.todo = @ \ {k}] IN
          \/ Become(w, NextRead(j))
          \/ Become(w, [j EXCEPT !.pc = "purge", !.key = k])
          \/ Become(w, NextRead([j EXCEPT !.found[entry[k].ident] = [key |-> k, at |-> entry[k].at]]))
    BY <1>7 DEF ReadRow, jw
  <2> DEFINE j == [jw EXCEPT !.todo = @ \ {k}]
             p == [j EXCEPT !.pc = "purge", !.key = k]
             f == [j EXCEPT !.found[entry[k].ident] = [key |-> k, at |-> entry[k].at]]
  <2>2. /\ DOMAIN j = JobFields /\ j.op = jw.op /\ j.srv = jw.srv /\ j.t0 = jw.t0
        /\ j.report = jw.report /\ j.named = jw.named
    BY <1>0 DEF JobFields
  <2>3. job'[w] \in {NextRead(j), p, NextRead(f)}
    BY <1>j, <2>1
  <2> HIDE DEF j
  <2>4. /\ DOMAIN f = JobFields /\ f.op = jw.op /\ f.srv = jw.srv /\ f.t0 = jw.t0
        /\ f.report = jw.report /\ f.named = jw.named
    BY <2>2 DEF JobFields
  <2>5. /\ p.pc = "purge" /\ p.op = jw.op /\ p.srv = jw.srv /\ p.t0 = jw.t0
        /\ p.report = jw.report /\ p.named = jw.named
    BY <2>2 DEF JobFields
  <2> HIDE DEF p, f
  <2>6. Asks(j) = Asks(jw) /\ Asks(p) = Asks(jw) /\ Asks(f) = Asks(jw)
    BY <2>2, <2>4, <2>5, SameAsks
  <2>7. Requested(p) = Asks(p)
    BY <2>5, HandFree
  <2>8. Requested(NextRead(j)) \in {Asks(j), Nothing} /\ Requested(NextRead(f)) \in {Asks(f), Nothing}
    BY <2>2, <2>4, NextAsks
  <2> QED
    BY <1>g, <2>0, <2>3, <2>6, <2>7, <2>8
<1>8. CASE CollectRow(w)
  <2>0. jw.pc = "collect" /\ Requested(jw) = Asks(jw)
    BY <1>8, HandFree DEF CollectRow, jw
  <2>1. PICK k \in jw.todo :
          LET j == [jw EXCEPT !.todo = @ \ {k}] IN
          Become(w, NextCollect(IF k \in DOMAIN entry /\ entry[k].srv = j.srv
                                THEN [j EXCEPT !.victims = @ \cup {k}] ELSE j))
    BY <1>8 DEF CollectRow, jw
  <2> DEFINE j == [jw EXCEPT !.todo = @ \ {k}]
             m == IF k \in DOMAIN entry /\ entry[k].srv = j.srv
                  THEN [j EXCEPT !.victims = @ \cup {k}] ELSE j
  <2>2. /\ DOMAIN m = JobFields /\ m.op = jw.op /\ m.srv = jw.srv /\ m.t0 = jw.t0
        /\ m.report = jw.report /\ m.named = jw.named
    BY <1>0 DEF JobFields
  <2>3. job'[w] = NextCollect(m)
    BY <1>j, <2>1
  <2> HIDE DEF j, m
  <2>4. Asks(m) = Asks(jw)
    BY <2>2, SameAsks
  <2>5. Requested(job'[w]) \in {Asks(m), Nothing}
    BY <2>2, <2>3, NextAsks
  <2> QED
    BY <1>g, <2>0, <2>4, <2>5
<1>9. CASE ApplyCreate(w)
  <2>0. jw.pc = "apply" /\ jw.op = "replace" /\ Requested(jw) = Asks(jw)
    BY <1>0, <1>9, HandFree DEF ApplyCreate, jw, JobShape, JobReady
  <2>a. PICK i \in DOMAIN jw.report : \E at \in Filled(jw.report[i].at) :
          Become(w, BeginCreate([jw EXCEPT !.report = Restrict(jw.report, DOMAIN jw.report \ {i})], i,
                                at, jw.report[i].ttl))
    BY <1>9 DEF ApplyCreate, jw
  <2>1. PICK at \in Filled(jw.report[i].at) :
          Become(w, BeginCreate([jw EXCEPT !.report = Restrict(jw.report, DOMAIN jw.report \ {i})], i,
                                at, jw.report[i].ttl))
    BY <2>a
  <2>2. PICK named \in SUBSET Ident : jw.report \in [named -> [at : When, ttl : TTL]]
    BY <1>0 DEF Job
  <2> DEFINE p == jw.report[i]
             o == [jw EXCEPT !.report = Restrict(jw.report, DOMAIN jw.report \ {i})]
             d == Restamp(at, p.ttl, now)
             m == BeginCreate(o, i, at, p.ttl)
             r == Asks(jw)
             q == Requested(m)
  <2>3. i \in Ident /\ p \in [at : When, ttl : TTL] /\ p = [at |-> p.at, ttl |-> p.ttl]
        /\ p.at \in Int /\ p.ttl \in Nat
    BY <2>2, TimesAreNat
  <2>4. /\ DOMAIN o = JobFields /\ o.report = Restrict(jw.report, DOMAIN jw.report \ {i})
        /\ o.op = "replace" /\ o.srv = jw.srv /\ o.t0 = jw.t0 /\ o.named = jw.named
    BY <1>0, <2>0 DEF JobFields
  <2>5. DOMAIN o.report = DOMAIN jw.report \ {i} /\ \A x \in DOMAIN jw.report \ {i} : o.report[x] = jw.report[x]
    BY <2>4 DEF Restrict
  <2>6. job'[w] = m
    BY <1>j, <2>1
  <2>c. d = p.at \/ (d = now /\ (Live!Over(p, now) \/ ~Live!Dated(p)))
    BY <1>0, <2>1, <2>3 DEF Filled, Restamp, Active, Dated, Live!Over, Live!Dated
  <2> HIDE DEF p, o
  <2>7. /\ m.pc = "match" /\ m.op = "replace" /\ m.srv = jw.srv /\ m.t0 = jw.t0 /\ m.report = o.report
        /\ m.named = jw.named /\ m.block.ident = i /\ m.block.at = d
        /\ m.block.ttl = p.ttl
    BY <2>4 DEF JobFields, BeginCreate
  <2> HIDE DEF m
  <2>8. q = [op |-> "replace", srv |-> jw.srv, store |-> Hand(m), named |-> jw.named, since |-> jw.t0]
    BY <2>7, HandReplaces
  <2>9. q.store = [x \in DOMAIN jw.report |->
                      IF x = i THEN [at |-> d, ttl |-> p.ttl] ELSE jw.report[x]]
    <3>1. q.store = Hand(m)
      BY <2>8
    <3>2. DOMAIN m.report \cup {m.block.ident} = DOMAIN jw.report
      BY <2>5, <2>7
    <3>3. Hand(m) = [x \in DOMAIN jw.report |->
                      IF x = i THEN [at |-> d, ttl |-> p.ttl] ELSE jw.report[x]]
      BY <2>5, <2>7, <3>2 DEF Hand
    <3> QED
      BY <3>1, <3>3
  <2>10. /\ r = [op |-> "replace", srv |-> jw.srv, store |-> r.store, named |-> jw.named, since |-> jw.t0]
         /\ r.store = [x \in DOMAIN jw.report |-> jw.report[x]]
    BY <2>0 DEF Asks
  <2> HIDE DEF q, r, d
  <2>11. CASE d = p.at
    <3>2. [at |-> d, ttl |-> p.ttl] = jw.report[i]
      BY <2>3, <2>11 DEF p
    <3>3. q.store = r.store
      BY <2>9, <2>10, <3>2
    <3>4. q = r
      BY <2>8, <2>10, <3>3
    <3> QED
      BY <1>g, <2>0, <2>6, <3>4 DEF q, r
  <2>12. CASE d # p.at
    <3>1. d = now /\ (Live!Over(p, now) \/ ~Live!Dated(p))
      BY <2>c, <2>12
    <3>2. r.store[i] = p
      BY <2>10 DEF p
    <3>3. Live!Over(r.store[i], now) \/ ~Live!Dated(r.store[i])
      BY <3>1, <3>2
    <3>4. [p EXCEPT !.at = now] = [at |-> now, ttl |-> p.ttl]
      BY <2>3
    <3>5. q.store = [r.store EXCEPT ![i] = [p EXCEPT !.at = now]]
      BY <2>9, <2>10, <3>1, <3>4
    <3>6. q = [r EXCEPT !.store = [r.store EXCEPT ![i] = [p EXCEPT !.at = now]]]
      BY <2>8, <2>10, <3>5
    <3>7. q = [r EXCEPT !.store[i].at = now]
      BY <3>2, <3>6
    <3>8. Requests' = [Requests EXCEPT ![w] = q] /\ Requests[w] = r
      BY <1>r, <2>0, <2>6 DEF q, r
    <3>9. Requests' = [Requests EXCEPT ![w].store[i].at = now]
      BY <3>7, <3>8
    <3>10. Requests[w] # Nothing /\ i \in DOMAIN Requests[w].store
      BY <1>r, <2>0, <2>10, <3>8, BusyAsks
    <3> QED
      BY <1>r, <2>3, <3>3, <3>8, <3>9, <3>10, LiveRedates
  <2> QED
    BY <2>11, <2>12
<1>10. CASE ResetCounter(w) \/ Abort(w)
  BY <1>e, <1>g, <1>j, <1>10 DEF ResetCounter, Abort
<1> QED
  BY <1>1, <1>2, <1>3, <1>4, <1>5, <1>6, <1>7, <1>8, <1>9, <1>10 DEF Looks

\* A SET, and the DELs, take effect in LiveBlocks at the block they are about.
LEMMA RowRefines ==
    ASSUME IInv, MaxInFlight = 1, SerialInv, NEW w \in Worker,
           PurgeRow(w) \/ ApplyRefresh(w) \/ StoreRow(w) \/ DropRow(w) \/ WipeRows(w)
    PROVE  [Live!Next]_(Live!vars)
<1> DEFINE jw == job[w]
           r == Requested(jw)
           q == Requested(job'[w])
<1>0. /\ JobShape(jw) /\ jw \in Job /\ DOMAIN jw = JobFields /\ TypeInv /\ NoDuplicateRows
      /\ DOMAIN entry \subseteq Id /\ now \in Nat
  BY BoundAssumption DEF IInv, TypeInv, TypeOK, JobShape, JobBase, Job, JobFields, SerialInv
<1>t. \A k \in DOMAIN entry : entry[k].at \in Int /\ entry[k].ttl \in Nat
  <2>1. \A k \in DOMAIN entry : entry[k].at \in When /\ entry[k].ttl \in TTL
    BY <1>0 DEF TypeInv, TypeOK, Row
  <2> QED
    BY <2>1, TimesAreNat
<1>f. Fits(jw, entry, now) /\ Seen(jw, entry)
  BY DEF SerialInv, Fits, ReplaceFits
<1>j. \A j : Become(w, j) => job'[w] = j
  BY DEF Become, IInv, TypeInv, TypeOK
<1>o. PICK own \in [Id -> Owner] : Assigned(own)
  BY DEF IInv, IdsHaveOneBlock, SerialInv
<1>k. /\ Respects(jw, own) /\ Knows(jw, own)
      /\ \A k \in DOMAIN entry : own[k] = <<entry[k].srv, entry[k].ident>>
  BY <1>o DEF Assigned, Respects
<1>s. Step(w)
  BY DEF Step
<1>r. Requests' = [Requests EXCEPT ![w] = q] /\ Requests[w] = r /\ now' = now
  BY <1>0, <1>s, OneRequest
<1>n. Requested(Idle) = Nothing /\ (jw.pc # "idle" => r # Nothing)
  BY IdleAsks, BusyAsks
<1>a. /\ Asks(jw).op = jw.op /\ Asks(jw).srv = jw.srv /\ Asks(jw).since = jw.t0
      /\ Asks(jw).store = [x \in DOMAIN jw.report |-> jw.report[x]]
      /\ jw.op # "create" => Asks(jw).named = jw.named
  BY DEF Asks
<1> HIDE DEF jw, r, q
<1>g. q \in {r, Nothing} /\ Blocks' = Blocks => [Live!Next]_(Live!vars)
  BY <1>r, LiveGoes
<1>d. ASSUME NEW k, k \notin DOMAIN entry, entry' = Without({k}) PROVE Blocks' = Blocks
  <2>1. DOMAIN entry' = DOMAIN entry /\ \A x \in DOMAIN entry : entry'[x] = entry[x]
    BY <1>d, WithoutRows
  <2> QED
    BY <2>1, SameBlocks
<1>1. CASE PurgeRow(w)
  <2> DEFINE m == [jw EXCEPT !.key = 0]
             k == jw.key
             b == BlockOf(entry[k])
  <2>1. /\ jw.pc = "purge" /\ jw.op \in {"replace", "list"} /\ entry' \in {entry, Without({k})}
        /\ job'[w] = NextRead(m)
    BY <1>0, <1>j, <1>1 DEF PurgeRow, jw, JobShape, JobReady
  <2>2. /\ DOMAIN m = JobFields /\ m.op = jw.op /\ m.srv = jw.srv /\ m.t0 = jw.t0
        /\ m.report = jw.report /\ m.named = jw.named
    BY <1>0 DEF JobFields
  <2> HIDE DEF m, k
  <2>3. q \in {Asks(m), Nothing} /\ Asks(m) = Asks(jw)
    BY <2>1, <2>2, NextAsks, SameAsks DEF q
  <2>4. r = Asks(jw) /\ r # Nothing
    BY <1>n, <2>1, HandFree DEF r
  <2>5. CASE entry' = entry \/ k \notin DOMAIN entry
    BY <1>d, <1>g, <2>1, <2>3, <2>4, <2>5, SameRows
  <2>6. CASE entry' = Without({k}) /\ k \in DOMAIN entry
    <3>1. /\ jw.srv = AllServers \/ entry[k].srv = jw.srv
          /\ ~Active(entry[k].at, entry[k].ttl, now)
      BY <1>f, <2>1, <2>6 DEF Fits, PurgeFits, k
    <3>2. b \in Blocks /\ Blocks' = Blocks \ {b}
      BY <1>0, <2>6, BlocksMinus, BlockIs
    <3>3. b.srv = entry[k].srv /\ b.at = entry[k].at /\ b.ttl = entry[k].ttl
      BY BlockFields
    <3> HIDE DEF b
    <3>4. Live!Of(b, jw.srv)
      BY <3>1, <3>3 DEF Live!Of
    <3>5. Live!Over(b, now)
      BY <1>0, <1>t, <2>6, <3>1, <3>3 DEF Live!Over, Live!Dated, Active, Dated
    <3>6. r.op \in {"list", "replace"} /\ r.srv = jw.srv
      BY <1>a, <2>1, <2>4
    <3> QED
      BY <1>r, <2>3, <2>4, <3>2, <3>4, <3>5, <3>6, LiveRemoves
  <2> QED
    BY <2>1, <2>5, <2>6
<1>2. CASE DropRow(w)
  <2>0. jw.pc = "drop" /\ jw.op = "replace"
    BY <1>0, <1>2 DEF DropRow, jw, JobShape, JobReady
  <2>1. PICK i \in Overdue(jw) : /\ entry' \in {entry, Without({jw.found[i].key})}
                                 /\ Become(w, NextBlock([jw EXCEPT !.found[i] = NoKey]))
    BY <1>2 DEF DropRow, jw
  <2> DEFINE m == [jw EXCEPT !.found[i] = NoKey]
             k == jw.found[i].key
             b == BlockOf(entry[k])
  <2>2. /\ DOMAIN m = JobFields /\ m.op = jw.op /\ m.srv = jw.srv /\ m.t0 = jw.t0
        /\ m.report = jw.report /\ m.named = jw.named
    BY <1>0 DEF JobFields
  <2>3. job'[w] = NextBlock(m)
    BY <1>j, <2>1
  <2> HIDE DEF m
  <2>4. q \in {Asks(m), Nothing} /\ Asks(m) = Asks(jw)
    BY <2>2, <2>3, NextAsks, SameAsks DEF q
  <2>5. r = Asks(jw) /\ r # Nothing
    BY <1>n, <2>0, HandFree DEF r
  <2>6. entry' \in {entry, Without({k})}
    BY <2>1
  <2>7. /\ i \in Ident \ jw.named /\ k # 0
        /\ ~Dated(jw.found[i].at) \/ jw.found[i].at + Grace <= jw.t0
    BY DEF Overdue
  <2>8. k \in DOMAIN entry => entry[k].at = jw.found[i].at
    BY <1>f, <2>7 DEF Seen
  <2>9. own[k] = <<jw.srv, i>>
    BY <1>k, <2>7 DEF Knows
  <2> HIDE DEF k
  <2>10. CASE entry' = entry \/ k \notin DOMAIN entry
    BY <1>d, <1>g, <2>4, <2>5, <2>6, <2>10, SameRows
  <2>11. CASE entry' = Without({k}) /\ k \in DOMAIN entry
    <3>1. entry[k].srv = jw.srv /\ entry[k].ident = i
      BY <1>k, <2>9, <2>11
    <3>2. b \in Blocks /\ Blocks' = Blocks \ {b}
      BY <1>0, <2>11, BlocksMinus, BlockIs
    <3>3. b.srv = jw.srv /\ b.at = jw.found[i].at /\ b.ident = i
      BY <2>8, <2>11, <3>1, BlockFields
    <3> HIDE DEF b
    <3>4. r.op = "replace" /\ r.srv = jw.srv /\ r.named = jw.named /\ r.since = jw.t0
      BY <1>a, <2>0, <2>5
    <3>5. r.named # {} /\ DOMAIN jw.report = {}
      BY <1>f, <2>0, <3>4 DEF Fits, ReplaceFits
    <3>6. DOMAIN r.store = {} /\ r.store = [x \in DOMAIN r.store |-> r.store[x]]
      BY <1>a, <2>5, <3>5
    <3>7. /\ r.op = "replace" /\ b.srv = r.srv /\ b.ident \notin r.named /\ r.named # {}
          /\ DOMAIN r.store = {} /\ r.store = [x \in DOMAIN r.store |-> r.store[x]]
          /\ ~Live!Dated(b) \/ b.at + Grace <= r.since
      BY <2>7, <3>3, <3>4, <3>5, <3>6 DEF Dated, Live!Dated
    <3> QED
      BY <1>r, <2>4, <2>5, <3>2, <3>7, LiveRemoves
  <2> QED
    BY <2>6, <2>10, <2>11
<1>3. CASE WipeRows(w)
  <2>1. /\ jw.pc = "wipe" /\ entry' = Without(jw.victims) /\ jw.op \in {"flush", "flushall"}
        /\ job'[w] = IF jw.op = "flushall" THEN [jw EXCEPT !.pc = "reset", !.victims = {}] ELSE Idle
    BY <1>f, <1>j, <1>3 DEF WipeRows, jw, Fits, FlushFits
  <2>2. r = Asks(jw) /\ r # Nothing /\ r.op = jw.op /\ r.srv = jw.srv
    BY <1>a, <1>n, <2>1, HandFree DEF r
  <2>3. q \in {r, Nothing}
    <3> DEFINE m == [jw EXCEPT !.pc = "reset", !.victims = {}]
    <3>1. /\ m.pc = "reset" /\ m.op = jw.op /\ m.srv = jw.srv /\ m.t0 = jw.t0
          /\ m.report = jw.report /\ m.named = jw.named
      BY <1>0 DEF JobFields
    <3>2. job'[w] \in {m, Idle}
      BY <2>1
    <3> HIDE DEF m
    <3>3. Requested(m) = Asks(jw)
      BY <3>1, HandFree, SameAsks
    <3> QED
      BY <1>n, <2>2, <3>2, <3>3 DEF q
  <2>4. DOMAIN entry' = DOMAIN entry \ jw.victims /\ \A k \in DOMAIN entry' : entry'[k] = entry[k]
    BY <2>1, WithoutRows
  <2>5. Blocks' = {BlockOf(entry[k]) : k \in DOMAIN entry \ jw.victims}
    <3>1. Blocks' = {BlockOf(entry'[k]) : k \in DOMAIN entry'}
      BY DEF Blocks, BlockOf
    <3> QED
      BY <2>4, <3>1
  <2>6. \A k \in DOMAIN entry : k \in jw.victims <=> (jw.op = "flush" => entry[k].srv = jw.srv)
    <3>1. CASE jw.op = "flushall"
      BY <1>f, <2>1, <3>1 DEF Fits, FlushFits
    <3>2. CASE jw.op = "flush"
      <4>1. jw.srv \in Server
        BY <1>0, <3>2 DEF JobShape, JobBase
      <4>2. \A k \in jw.victims : own[k][1] = jw.srv
        BY <1>k, <4>1 DEF Knows
      <4>3. \A k \in DOMAIN entry : entry[k].srv = jw.srv => k \in jw.victims
        BY <1>f, <2>1, <3>2 DEF Fits, FlushFits
      <4> QED
        BY <1>k, <3>2, <4>2, <4>3
    <3> QED
      BY <2>1, <3>1, <3>2
  <2>7. \A k \in DOMAIN entry : k \in jw.victims <=> ~(jw.op = "flush" /\ ~Live!Of(BlockOf(entry[k]), jw.srv))
    <3>1. jw.op = "flush" => jw.srv # AllServers
      BY <1>0, ServerAssumption DEF JobShape, JobBase
    <3> QED
      BY <2>6, <3>1, BlockFields DEF Live!Of
  <2>8. Blocks' = {b \in Blocks : jw.op = "flush" /\ ~Live!Of(b, jw.srv)}
    BY <2>5, <2>7, BlockIs
  <2>9. Blocks' = {b \in Blocks : r.op = "flush" /\ ~Live!Of(b, r.srv)} /\ r.op \in {"flush", "flushall"}
    BY <2>1, <2>2, <2>8
  <2> QED
    BY <1>r, <2>2, <2>3, <2>9, LiveFlushes
<1>4. CASE StoreRow(w)
  <2>i. PICK i \in Ident : i = jw.block.ident
    BY <1>0, <1>4 DEF StoreRow, jw, JobShape, JobReady, Block
  <2> DEFINE row == [srv |-> jw.srv, ident |-> i, at |-> jw.block.at, ttl |-> jw.block.ttl,
                     exp |-> now + jw.block.rem]
             m == [jw EXCEPT !.key = 0, !.block = NoBlock]
             p == [at |-> jw.block.at, ttl |-> jw.block.ttl]
  <2>1. /\ jw.pc = "set" /\ entry' = Put(jw.key, row) /\ jw.op \in {"create", "replace"}
        /\ job'[w] = (IF jw.op = "create" THEN Idle ELSE NextBlock(m))
    BY <1>0, <1>j, <1>4, <2>i DEF StoreRow, jw, JobShape, JobReady
  <2>2. /\ DOMAIN m = JobFields /\ m.op = jw.op /\ m.srv = jw.srv /\ m.t0 = jw.t0
        /\ m.report = jw.report /\ m.named = jw.named
    BY <1>0 DEF JobFields
  <2>3. row.srv = jw.srv /\ row.ident = i /\ BlockOf(row) = [srv |-> jw.srv, ident |-> i, at |-> p.at, ttl |-> p.ttl]
    BY DEF BlockOf
  <2> HIDE DEF m, row
  <2>4. \A l \in DOMAIN entry : Is(entry[l], row.srv, row.ident) <=> l = jw.key
    <3>1. \A l \in DOMAIN entry : Is(entry[l], jw.srv, i) => l = jw.key
      BY <1>f, <2>1, <2>i DEF Fits, CreateFits
    <3>2. own[jw.key] = <<jw.srv, i>>
      BY <1>k, <2>1, <2>i DEF Respects
    <3>3. \A l \in DOMAIN entry : l = jw.key => Is(entry[l], jw.srv, i)
      BY <1>k, <3>2 DEF Is
    <3> QED
      BY <2>3, <3>1, <3>3
  <2>5. Blocks' = {b \in Blocks : ~Live!Same(b, jw.srv, i)} \cup
                  {[srv |-> jw.srv, ident |-> i, at |-> p.at, ttl |-> p.ttl]}
    BY <2>1, <2>3, <2>4, BlocksPut
  <2>6. /\ r.srv = jw.srv /\ r.store = Hand(jw) /\ r # Nothing
        /\ r.since = jw.t0
        /\ jw.op = "replace" => r = [op |-> "replace", srv |-> jw.srv, store |-> Hand(jw),
                                     named |-> jw.named, since |-> jw.t0]
    BY <1>n, <2>1, HandCreates, HandReplaces DEF r
  <2>7. DOMAIN Hand(jw) = DOMAIN jw.report \cup {i} /\ Hand(jw)[i] = p
        /\ \A x \in DOMAIN jw.report : x # i => Hand(jw)[x] = jw.report[x]
    BY <2>i DEF Hand
  <2>8. i \notin DOMAIN jw.report
    BY <1>f, <2>1, <2>i DEF Fits, CreateFits
  <2>9. q \in {Nothing, [r EXCEPT !.store = [x \in DOMAIN r.store \ {i} |-> r.store[x]]]}
    <3>1. CASE jw.op = "create"
      BY <1>n, <2>1, <3>1 DEF q
    <3>2. CASE jw.op = "replace"
      <4>1. q \in {Asks(m), Nothing}
        BY <2>1, <2>2, <3>2, NextAsks DEF q
      <4>2. Asks(m) = [op |-> "replace", srv |-> jw.srv, store |-> [x \in DOMAIN jw.report |-> jw.report[x]],
                       named |-> jw.named, since |-> jw.t0]
        BY <2>2, <3>2 DEF Asks
      <4>3. [x \in DOMAIN r.store \ {i} |-> r.store[x]] = [x \in DOMAIN jw.report |-> jw.report[x]]
        <5>1. DOMAIN r.store \ {i} = DOMAIN jw.report
          BY <2>6, <2>7, <2>8
        <5> QED
          BY <2>6, <2>7, <2>8, <5>1
      <4>4. Asks(m) = [r EXCEPT !.store = [x \in DOMAIN r.store \ {i} |-> r.store[x]]]
        BY <2>6, <3>2, <4>2, <4>3
      <4> QED
        BY <4>1, <4>4
    <3> QED
      BY <2>1, <3>1, <3>2
  <2>10. r.store[i] = p /\ i \in DOMAIN r.store
    BY <2>6, <2>7
  <2> DEFINE at == p.at
  <2>11. r.store[i] = p /\ i \in DOMAIN r.store /\ r.srv = jw.srv /\ r.since = jw.t0
    BY <2>1, <2>6, <2>10
  <2>14. r # Nothing
    BY <2>6
  <2>12. at \in {r.store[i].at} \cup (IF Live!Over(r.store[i], r.since) THEN {r.since} ELSE {})
    BY <2>10
  <2>13. Blocks' = {b \in Blocks : ~Live!Same(b, jw.srv, i)} \cup
                   {[srv |-> jw.srv, ident |-> i, at |-> at, ttl |-> p.ttl]}
    BY <2>5
  <2> HIDE DEF at, p
  <2>15. Live!Goes(w, [r EXCEPT !.store = [x \in DOMAIN r.store \ {i} |-> r.store[x]]])
    BY <1>r, <2>9 DEF Live!Goes, Live!None, Requests, Nothing
  <2>16. Live!Store(w, i)
    BY <1>r, <2>11, <2>12, <2>13, <2>14, <2>15 DEF Live!Store, Live!None, Requests, Nothing
  <2> QED
    BY <2>16 DEF Live!Next
<1>5. CASE ApplyRefresh(w)
  <2>0. jw.pc = "apply" /\ jw.op = "replace"
    BY <1>0, <1>5 DEF ApplyRefresh, jw, JobShape, JobReady
  <2>1. PICK i \in DOMAIN jw.report :
          /\ jw.found[i].key # 0
          /\ entry' = Put(jw.found[i].key,
                          [srv |-> jw.srv, ident |-> i,
                           at |-> Restamp(jw.report[i].at, jw.report[i].ttl, jw.t0), ttl |-> jw.report[i].ttl,
                           exp |-> now + Remaining(jw.report[i].at, jw.report[i].ttl, jw.t0)])
          /\ Become(w, NextBlock([jw EXCEPT !.report = Restrict(jw.report, DOMAIN jw.report \ {i})]))
    BY <1>5 DEF ApplyRefresh, jw
  <2> DEFINE p == jw.report[i]
             at == Restamp(p.at, p.ttl, jw.t0)
             row == [srv |-> jw.srv, ident |-> i, at |-> at, ttl |-> p.ttl,
                     exp |-> now + Remaining(p.at, p.ttl, jw.t0)]
             m == [jw EXCEPT !.report = Restrict(jw.report, DOMAIN jw.report \ {i})]
             k == jw.found[i].key
  <2>2. /\ DOMAIN m = JobFields /\ m.op = "replace" /\ m.srv = jw.srv /\ m.t0 = jw.t0 /\ m.named = jw.named
        /\ m.report = [x \in DOMAIN jw.report \ {i} |-> jw.report[x]]
    BY <1>0, <2>0 DEF JobFields, Restrict
  <2>3. entry' = Put(k, row) /\ job'[w] = NextBlock(m) /\ k # 0
    BY <1>j, <2>1
  <2>4. row.srv = jw.srv /\ row.ident = i /\ BlockOf(row) = [srv |-> jw.srv, ident |-> i, at |-> at, ttl |-> p.ttl]
    BY DEF BlockOf
  <2>5. i \in Ident /\ p.at \in Int /\ p.ttl \in Nat /\ jw.t0 \in Nat
    <3>1. PICK named \in SUBSET Ident : jw.report \in [named -> [at : When, ttl : TTL]]
      BY <1>0 DEF Job
    <3>2. p.at \in When /\ p.ttl \in TTL /\ i \in Ident
      BY <3>1
    <3>3. jw.t0 \in Time
      BY <1>0 DEF Job
    <3> QED
      BY <3>2, <3>3, TimesAreNat
  <2> HIDE DEF m, row, k
  <2>6. \A l \in DOMAIN entry : Is(entry[l], row.srv, row.ident) <=> l = k
    <3>1. \A l \in DOMAIN entry : Is(entry[l], jw.srv, i) => l = k
      BY <1>f, <2>3, <2>5 DEF Seen, k
    <3>2. own[k] = <<jw.srv, i>>
      BY <1>k, <2>3, <2>5 DEF Knows, k
    <3>3. \A l \in DOMAIN entry : l = k => Is(entry[l], jw.srv, i)
      BY <1>k, <3>2 DEF Is
    <3> QED
      BY <2>4, <3>1, <3>3
  <2>7. Blocks' = {b \in Blocks : ~Live!Same(b, jw.srv, i)} \cup
                  {[srv |-> jw.srv, ident |-> i, at |-> at, ttl |-> p.ttl]}
    BY <2>3, <2>4, <2>6, BlocksPut
  <2>8. r = Asks(jw) /\ r # Nothing
    BY <1>n, <2>0, HandFree DEF r
  <2>9. /\ r = [op |-> "replace", srv |-> jw.srv, store |-> r.store, named |-> jw.named, since |-> jw.t0]
        /\ r.store = [x \in DOMAIN jw.report |-> jw.report[x]]
    BY <2>0, <2>8 DEF Asks
  <2>10. q \in {Nothing, [r EXCEPT !.store = [x \in DOMAIN r.store \ {i} |-> r.store[x]]]}
    <3>1. q \in {Asks(m), Nothing}
      BY <2>2, <2>3, NextAsks DEF q
    <3>2. DOMAIN m.report = DOMAIN jw.report \ {i} /\ \A x \in DOMAIN m.report : m.report[x] = jw.report[x]
      BY <2>2
    <3>3. [x \in DOMAIN m.report |-> m.report[x]] = [x \in DOMAIN jw.report \ {i} |-> jw.report[x]]
      BY <3>2
    <3>4. Asks(m) = [op |-> "replace", srv |-> jw.srv, store |-> [x \in DOMAIN jw.report \ {i} |-> jw.report[x]],
                     named |-> jw.named, since |-> jw.t0]
      BY <2>2, <3>3 DEF Asks
    <3>5. [x \in DOMAIN r.store \ {i} |-> r.store[x]] = [x \in DOMAIN jw.report \ {i} |-> jw.report[x]]
      BY <2>9
    <3>6. Asks(m) = [r EXCEPT !.store = [x \in DOMAIN r.store \ {i} |-> r.store[x]]]
      BY <2>9, <3>4, <3>5
    <3> QED
      BY <3>1, <3>6
  <2>11. r.store[i] = p /\ i \in DOMAIN r.store /\ r.srv = jw.srv /\ r.since = jw.t0
    BY <2>9
  <2>12. at \in {p.at} \cup (IF Live!Over(p, jw.t0) THEN {jw.t0} ELSE {})
    BY <2>5 DEF Restamp, Active, Dated, Live!Over, Live!Dated
  <2> HIDE DEF at, p
  <2>13. at \in {r.store[i].at} \cup (IF Live!Over(r.store[i], r.since) THEN {r.since} ELSE {})
    BY <2>11, <2>12
  <2> QED
    BY <1>r, <2>5, <2>7, <2>8, <2>10, <2>11, <2>13, LiveStores, ZenonT(60)
<1> QED
  BY <1>1, <1>2, <1>3, <1>4, <1>5

\* An operator's DEL lifts a block.
LEMMA DeleteRefines ==
    ASSUME IInv, SerialInv, NEW k \in Id, DeleteEntry(k)
    PROVE  [Live!Next]_(Live!vars)
<1>1. entry' = Without({k}) /\ k \in DOMAIN entry /\ now' = now /\ job' = job
  BY DEF DeleteEntry
<1>2. Blocks' = Blocks \ {BlockOf(entry[k])} /\ BlockOf(entry[k]) \in Blocks
  BY <1>1, BlocksMinus, BlockIs DEF SerialInv
<1>3. Requests' = Requests
  BY <1>1 DEF Requests
<1> QED
  BY <1>1, <1>2, <1>3, LiveLifts

\* The rows Redis expires are over, or had no date.
LEMMA TickRefines ==
    ASSUME IInv, NeverExpiresEarly, Tick
    PROVE  [Live!Next]_(Live!vars)
<1>1. /\ now' = now + 1 /\ job' = job /\ now \in Nat
      /\ DOMAIN entry' = {k \in DOMAIN entry : entry[k].exp > now + 1}
      /\ \A k \in DOMAIN entry' : entry'[k] = entry[k]
  BY BoundAssumption DEF Tick, Restrict, IInv, TypeInv, TypeOK
<1>2. Requests' = Requests
  BY <1>1 DEF Requests
<1>3. Blocks' = {BlockOf(entry[k]) : k \in DOMAIN entry'}
  <2>1. Blocks' = {BlockOf(entry'[k]) : k \in DOMAIN entry'}
    BY DEF Blocks, BlockOf
  <2> QED
    BY <1>1, <2>1
<1>4. Blocks' \subseteq Blocks
  BY <1>1, <1>3, BlockIs
<1>5. ASSUME NEW b \in Blocks \ Blocks' PROVE b.ttl = 0 \/ ~Live!Dated(b) \/ Live!Over(b, now')
  <2>1. PICK k \in DOMAIN entry : b = BlockOf(entry[k])
    BY BlockIs
  <2>2. k \notin DOMAIN entry'
    BY <1>3, <2>1
  <2>3. entry[k].at \in When /\ entry[k].ttl \in TTL /\ entry[k].exp \in Nat
    BY DEF IInv, TypeInv, TypeOK, Row
  <2>7. ~(entry[k].exp > now + 1)
    BY <1>1, <2>2
  <2>8. now \in Nat
    BY <1>1
  <2>4. entry[k].at \in Int /\ entry[k].ttl \in Nat /\ entry[k].exp <= now + 1
    <3>1. entry[k].at \in Int /\ entry[k].ttl \in Nat
      BY <2>3, TimesAreNat
    <3> QED
      BY <2>3, <2>7, <2>8, <3>1
  <2>5. entry[k].ttl = 0 \/ ~Dated(entry[k].at) \/ entry[k].at + entry[k].ttl <= entry[k].exp
    BY <2>3, <2>4 DEF NeverExpiresEarly
  <2>6. b.ttl = entry[k].ttl /\ b.at = entry[k].at
    BY <2>1, BlockFields
  <2> QED
    BY <1>1, <2>3, <2>4, <2>5, <2>6 DEF Live!Over, Live!Dated, Dated
<1> QED
  BY <1>1, <1>2, <1>4, <1>5, LivePasses

\* Every step of the store is a step of LiveBlocks or a stutter.
LEMMA SerialRefines ==
    ASSUME MaxInFlight = 1, IInv, SerialInv, NeverExpiresEarly, [Next]_vars
    PROVE  [Live!Next]_(Live!vars)
<1>1. ASSUME NEW w \in Worker, Step(w) PROVE [Live!Next]_(Live!vars)
  BY <1>1, LookRefines, RowRefines DEF Step, Looks
<1>2. CASE \E k \in Id : DeleteEntry(k)
  BY <1>2, DeleteRefines
<1>3. CASE Tick
  BY <1>3, TickRefines
<1>4. CASE UNCHANGED vars
  BY <1>4 DEF vars, Live!vars, Blocks
<1> QED
  BY <1>1, <1>2, <1>3, <1>4 DEF Next

\* The empty store has no block and no request.
LEMMA LiveInit == Init => Live!Init
<1> SUFFICES ASSUME Init PROVE Live!Init
  OBVIOUS
<1>1. now = 0 /\ DOMAIN entry = {} /\ \A w \in Worker : job[w] = Idle
  BY DEF Init
<1>2. Blocks = {}
  BY <1>1 DEF Blocks
<1>3. [w \in Worker |-> Requested(job[w])] = [w \in Worker |-> Nothing]
  BY <1>1, IdleAsks
<1> QED
  BY <1>1, <1>2, <1>3 DEF Live!Init, Live!None, Nothing

\* With one handler inside the store at a time, the Redis store implements LiveBlocks for any number
\* of edges, blocks, handlers and durations: its scans and reads are invisible, each SET replaces the
\* one block it is about, and a row disappears only when its block is over, when a report leaves it
\* out and it is past the grace window or has no date, or when an operator lifts or flushes it.
THEOREM SerialImplements == ASSUME MaxInFlight = 1 PROVE Spec => ImplementsLiveBlocks
<1>1. IInv /\ SerialInv /\ NeverExpiresEarly /\ [Next]_vars => [Live!Next]_(Live!vars)
  BY SerialRefines
<1> QED
  BY <1>1, LiveInit, SerialHolds, ExpiryCoversBlock, PTL DEF Spec, ImplementsLiveBlocks, Live!Spec
===============================================================================
