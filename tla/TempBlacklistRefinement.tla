------------------------ MODULE TempBlacklistRefinement ------------------------
(* With one handler at a time the Redis store implements LiveBlocks: its SCANs, GETs and    *)
(* INCRs are invisible, and each SET and DEL is one step of it.                              *)
EXTENDS TempBlacklist

\* A row is a block without its id and its Redis expiry.
Blocks == {[srv |-> entry[k].srv, ident |-> entry[k].ident, at |-> entry[k].at,
            ttl |-> entry[k].ttl] : k \in DOMAIN entry}

\* The blocks a handler is still to store: those of its report, and the one in hand.
ToStore(j) ==
    LET hand == IF j.pc \in {"match", "set"} THEN {j.block.ident} ELSE {} IN
    [i \in DOMAIN j.report \cup hand |->
        IF i \in hand THEN [at |-> j.block.at, ttl |-> j.block.ttl] ELSE j.report[i]]

Requested(j) ==
    IF j.pc = "idle" THEN [op |-> AllServers]
    ELSE [op |-> j.op, srv |-> j.srv, store |-> ToStore(j),
          named |-> IF j.op = "create" THEN DOMAIN ToStore(j) ELSE j.named, since |-> j.t0]

Live == INSTANCE LiveBlocks WITH
            Nobody <- AllServers, blocks <- Blocks, request <- [w \in Worker |-> Requested(job[w])]

\* The store keeps LiveBlocks' promise: one row per block, whatever sequence of creates,
\* reports, lists, flushes, failures and ticks came before; a row that a report refreshes keeps
\* its block, and rows disappear only at their end, by the report's rule or by an operator.
ImplementsLiveBlocks == Live!Spec
================================================================================
