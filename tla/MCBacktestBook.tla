--------------------------- MODULE MCBacktestBook ---------------------------
(* A small backtest: one SSU on single minutes, one on pairs of them.      *)
EXTENDS BacktestBook

MCFactorOf == [s \in Ssus |-> s]
MCGap == [s \in Ssus |-> IF s = 1 THEN 0 ELSE 3]
MCOverlap == [s \in Ssus |-> IF s = 1 THEN 2 ELSE 0]
MCPerDay == [s \in Ssus |-> IF s = 1 THEN 2 ELSE 0]

(* All minutes stored, or the second instrument with a hole.               *)
Closes(minutes) == [m \in minutes |-> IF m % 3 = 0 THEN 12 ELSE 10]
MCHistories ==
    {[i \in Instruments |-> Closes(0..(MaxTime - 1))],
     [i \in Instruments |-> Closes(IF i = 1 THEN 1..(MaxTime - 1) ELSE (0..(MaxTime - 1)) \ {3})]}
=============================================================================
