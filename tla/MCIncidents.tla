------------------------------ MODULE MCIncidents ------------------------------
(* Small instances of Incidents for TLC. *)
EXTENDS Incidents, TLC

CONSTANTS d1, c1

OneDelivery == {d1}
OneConsole == {c1}
OneAttack == {1}

\* No ttl, "1", "2s" and "1m".
Texts == {NoTTL, [n |-> 1, unit |-> ""], [n |-> 2, unit |-> "s"], [n |-> 1, unit |-> "m"]}
=============================================================================
