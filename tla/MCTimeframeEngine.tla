------------------------- MODULE MCTimeframeEngine --------------------------
(* Small instances of TimeframeEngine.                                     *)
EXTENDS TimeframeEngine

\* Bars of two minutes, an EMA over two of them.
TwoMinutes == [s \in Ssus |-> 2]
Period == [s \in Ssus |-> 2]
=============================================================================
