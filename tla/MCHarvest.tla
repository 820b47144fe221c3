------------------------------ MODULE MCHarvest ------------------------------
(* Harvest with one caller, no fault and a position that may be marked below
   its cost when profit is taken. *)
EXTENDS Harvest

CONSTANT PositionService

UnderWater == {-30, 0}
WinOrLose == {-40, 40}

\* Only what stays open is marked: the next tick has followed the last exit.
MarkIsCurrent == deployed = 0 => unrealized = 0

=============================================================================
