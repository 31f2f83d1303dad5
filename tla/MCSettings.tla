------------------------------ MODULE MCSettings ------------------------------
(* Small instances for TLC of EdgeSettings and ServerSettings: the settings of a site and  *)
(* of a server that the panel and the edges both write.  The two have no variable in        *)
(* common, so what one does never changes what the other may do: each behaviour is that of  *)
(* one of them, the other standing still.                                                   *)
EXTENDS MCEdgeSettings, ServerSettings

CONSTANTS w1, f1, f2, p1, p2, g1

OneHost == {w1}
TwoFields == {f1, f2}
\* An edge's firewall_config carries the other field only.
ReportedFields == {f1}
TwoPorts == {p1, p2}
OneDesk == {g1}
FiveRows == 1 .. 5

VARIABLE moving

both == <<vars, serverVars, moving>>

SettingsInit ==
    /\ Init /\ ServerInit
    /\ \/ moving = "site" /\ ports = Empty
       \/ moving = "server" /\ mode = CHOOSE m \in Mode : TRUE

ServerMoves(A) == moving = "server" /\ A /\ UNCHANGED <<vars, moving>>

SettingsNext ==
    \/ moving = "site" /\ Next /\ UNCHANGED <<serverVars, moving>>
    \/ moving = "server" /\ ServerNext /\ UNCHANGED <<vars, moving>>

SettingsSpec ==
    /\ SettingsInit /\ [][SettingsNext]_both
    /\ WF_both(ServerMoves(SheetStep)) /\ \A d \in Desk : WF_both(ServerMoves(GoOn(d)))
=============================================================================
