--------------------------- MODULE MCStatsCollector ---------------------------
(* Small instances of StatsCollector for TLC. *)
EXTENDS StatsCollector, TLC

TwoEdges == {1, 2}
\* One list for each kind of statement.
ThreeLists == <<"ip", "site", "reason">>
OneOfEach == 1 :> "list" @@ 2 :> "map"
=============================================================================
