------------------------- MODULE MCIndicatorState --------------------------
(* Small instances of IndicatorState.                                      *)
EXTENDS IndicatorState
=============================================================================
