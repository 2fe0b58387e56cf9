-------------------------- MODULE MCCandleHistory --------------------------
(* Small instances of CandleHistory.                                       *)
EXTENDS CandleHistory
=============================================================================
