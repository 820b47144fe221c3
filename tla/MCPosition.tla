----------------------------- MODULE MCPosition -----------------------------
(* Model-checking instance of the two jobs of the position service that share no
   variable: harvesting profit, and getting out of a position.  An initial state
   chooses the part that runs while the other rests: interleaving parts that
   share nothing would show no more. *)
EXTENDS Harvest, ExitLoop, TLC

CONSTANTS PositionService, Cli

\* The timer and the command line call the same function.
Callers == Permutations({PositionService, Cli})

UnderWater == {-30, 0}
WinOrLose == {-60, 60}

VARIABLE part

positionVars == <<vars, exitVars, part>>

PositionInit ==
    /\ part \in {"harvest", "exit"}
    /\ Init /\ ExitInit
    /\ part = "harvest" => ~Live
    /\ part = "exit" => ~live

PositionNext ==
    /\ part' = part
    /\ IF part = "harvest" THEN Next ELSE UNCHANGED vars
    /\ IF part = "exit" THEN ExitNext ELSE UNCHANGED exitVars

PositionSpec == PositionInit /\ [][PositionNext]_positionVars

=============================================================================
