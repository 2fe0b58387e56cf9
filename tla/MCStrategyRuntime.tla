------------------------- MODULE MCStrategyRuntime -------------------------
(* Small instances of StrategyRuntime: two SSUs, each on a timeframe of    *)
(* its own.                                                                *)
EXTENDS StrategyRuntime

OwnTimeframes == [s \in Ssus |-> IF s = 1 THEN "OneMinute" ELSE "FiveMinute"]
OneTimeframe == [s \in Ssus |-> "OneMinute"]
=============================================================================
