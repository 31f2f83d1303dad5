------------------------------ MODULE LiveBlocks ------------------------------
(***************************************************************************)
(* What the store of temporary blocks promises: one set of blocks, at most    *)
(* one for an edge and an identity, in which a request takes effect block by   *)
(* block.  A block that is stored replaces the one it is about; a report        *)
(* removes only blocks it does not name and that are older than the grace       *)
(* window or have no date; nothing else removes a block but its own end and an  *)
(* operator.                                                                    *)
(***************************************************************************)
EXTENDS Integers

CONSTANTS Server, Ident, Worker, AllServers, TTL, Grace, Undated, Nobody

VARIABLES
    now,          \* the clock
    blocks,       \* the live blocks
    request       \* what each caller has asked for and is still to happen

vars == <<now, blocks, request>>

None == [op |-> Nobody]

Of(b, s) == s = AllServers \/ b.srv = s
Same(b, s, i) == b.srv = s /\ b.ident = i
Dated(b) == b.at # Undated
Over(b, t) == b.ttl # 0 /\ Dated(b) /\ b.at + b.ttl <= t

\* A request: the blocks to store, and for a report all it names and its time.
Asked(r) ==
    /\ r.op \in {"create", "replace", "list", "flush", "flushall"}
    /\ r.srv \in Server \cup {AllServers} /\ r.named \subseteq Ident
    /\ r.store \in [IF r.op \in {"create", "replace"} THEN r.named ELSE {} ->
                        [at : Int, ttl : TTL]]
    /\ r.since = IF r.op = "replace" THEN now ELSE 0

Ask(w) ==
    /\ request[w] = None
    /\ Asked(request'[w])
    /\ request' = [request EXCEPT ![w] = request'[w]]
    /\ UNCHANGED <<now, blocks>>

\* A request ends, done or failed.
End(w) ==
    /\ request[w] # None
    /\ request' = [request EXCEPT ![w] = None]
    /\ UNCHANGED <<now, blocks>>

Goes(w, r) == request' = [request EXCEPT ![w] = r] \/ request' = [request EXCEPT ![w] = None]

\* A block that was over when it was reported, or came without a date, counts from the
\* moment it is handled.
Redate(w, i) ==
    /\ request[w] # None /\ i \in DOMAIN request[w].store
    /\ Over(request[w].store[i], now) \/ ~Dated(request[w].store[i])
    /\ request' = [request EXCEPT ![w].store[i].at = now]
    /\ UNCHANGED <<now, blocks>>

Store(w, i) ==
    LET r == request[w] IN
    /\ r # None /\ i \in DOMAIN r.store
    /\ \E at \in {r.store[i].at} \cup (IF Over(r.store[i], r.since) THEN {r.since} ELSE {}) :
          blocks' = {b \in blocks : ~Same(b, r.srv, i)} \cup
                    {[srv |-> r.srv, ident |-> i, at |-> at, ttl |-> r.store[i].ttl]}
    /\ Goes(w, [r EXCEPT !.store = [j \in DOMAIN r.store \ {i} |-> r.store[j]]])
    /\ UNCHANGED now

\* A report drops a block that it leaves out; its time is that of the request.
Drop(w, b) ==
    /\ request[w] # None /\ request[w].op = "replace"
    /\ b.srv = request[w].srv /\ b.ident \notin request[w].named
    /\ request[w].named # {} /\ request[w].store = [j \in {} |-> 0]
    /\ ~Dated(b) \/ b.at + Grace <= request[w].since
    /\ blocks' = blocks \ {b}
    /\ Goes(w, request[w])
    /\ UNCHANGED now

\* A reader removes a block that is over.
Purge(w, b) ==
    /\ request[w] # None /\ request[w].op \in {"list", "replace"}
    /\ Of(b, request[w].srv) /\ Over(b, now)
    /\ blocks' = blocks \ {b}
    /\ Goes(w, request[w])
    /\ UNCHANGED now

Flush(w) ==
    /\ request[w] # None /\ request[w].op \in {"flush", "flushall"}
    /\ blocks' = {b \in blocks : request[w].op = "flush" /\ ~Of(b, request[w].srv)}
    /\ Goes(w, request[w])
    /\ UNCHANGED now

\* An operator lifts one block.
Lift(b) == blocks' = blocks \ {b} /\ UNCHANGED <<now, request>>

\* Time: a block with a date and a duration goes at its end or a little later, not before;
\* any other after a while.
Pass ==
    /\ now' = now + 1
    /\ blocks' \in SUBSET blocks
    /\ \A b \in blocks \ blocks' : b.ttl = 0 \/ ~Dated(b) \/ Over(b, now')
    /\ UNCHANGED request

Init ==
    /\ now = 0 /\ blocks = {} /\ request = [w \in Worker |-> None]

Next ==
    \/ \E w \in Worker :
          \/ Ask(w) \/ End(w) \/ Flush(w)
          \/ \E i \in Ident : Redate(w, i) \/ Store(w, i)
          \/ \E b \in blocks : Drop(w, b) \/ Purge(w, b)
    \/ \E b \in blocks : Lift(b)
    \/ Pass

Spec == Init /\ [][Next]_vars
===============================================================================
