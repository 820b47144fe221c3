----------------------------- MODULE MCControls -----------------------------
(* Model-checking instance of four parts that share no variable: emergency
   controls, order execution, mode progression and runtime settings.  An initial
   state chooses the part that runs while the others rest: interleaving parts
   that share nothing would show no more.
   k2 is a setting of section "root". *)
EXTENDS SystemControl, OrderExecution, Modes, RuntimeConfig, TLC

CONSTANTS r1, s1, s2, k1, k2, v0, v1

MCSaves == {k1 :> v1 @@ k2 :> "unset", k1 :> "unset" @@ k2 :> v1}

VARIABLE part

controlsVars == <<controlVars, orderVars, modesVars, configVars, part>>

ControlsInit ==
    /\ part \in {"control", "order", "modes", "config"}
    /\ ControlInit /\ OrderInit /\ ModesInit /\ ConfigInit

\* Every order has been answered and its transaction has met its fate.
OrdersAtRest ==
    /\ \A a \in Attempts : pc[a] = "done"
    /\ UNCHANGED orderVars

ControlsNext ==
    /\ part' = part
    /\ IF part = "control" THEN ControlNext ELSE UNCHANGED controlVars
    /\ IF part = "order" THEN OrderNext \/ OrdersAtRest ELSE UNCHANGED orderVars
    /\ IF part = "modes" THEN ModesNext ELSE UNCHANGED modesVars
    /\ IF part = "config" THEN ConfigNext ELSE UNCHANGED configVars

ControlsSpec == ControlsInit /\ [][ControlsNext]_controlsVars

=============================================================================
