--------------------------- MODULE MCPositionBook ---------------------------
(* Small instances of PositionBook: limits that bind within MaxTime.       *)
EXTENDS PositionBook, TLC

Off == [s \in Ssus |-> 0]
One == [s \in Ssus |-> 1]
Two == [s \in Ssus |-> 2]

InstrumentSymmetry == Permutations(Instruments)
=============================================================================
