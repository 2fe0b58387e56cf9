--------------------------- MODULE MCTradeManager ---------------------------
(* Small instances of TradeManager: stop, entry price and the three targets*)
(* one step apart.                                                         *)
EXTENDS TradeManager

OneStep == [tp1 |-> 1, tp2 |-> 2, tp3 |-> 3]
AllMoves == -1..3
=============================================================================
