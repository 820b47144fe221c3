------------------------------ MODULE MCRoster ------------------------------
(* Model-checking instance of Roster: w1 is a wallet that trades and the more
   promising; w2 is a program, which the RPC knows and the suffix does not. *)
EXTENDS Roster, TLC

CONSTANTS w1, w2

MCPromise == w1 :> 2 @@ w2 :> 1
MCAccount == w1 :> "system" @@ w2 :> "program"
MCFloor == [trades |-> 10, perDay |-> 1, realized |-> 5, winrate |-> 4000,
            minBalance |-> 2, maxBalance |-> 8]
Good == [tagged |-> FALSE, trades |-> 20, total |-> 9, realized |-> 9, winrate |-> 55,
         balance |-> 5, answered |-> TRUE]
MCFacts == {Good, [Good EXCEPT !.balance = -1, !.answered = FALSE],
            [Good EXCEPT !.trades = 31]}
MCScores == {[composite |-> 25, confidence |-> 80], [composite |-> 72, confidence |-> 80]}

=============================================================================
