----------------------------- MODULE MCBacktest -----------------------------
(* Every history of four trades of the copied wallet c and another one, in two *)
(* tokens, at prices that stop a position out, leave it alone or double it.    *)
EXTENDS Backtest, TLC

MCLadder == << <<50, 25>>, <<100, 25>> >>

At(schedule, picks) ==
    [i \in 1 .. Len(picks) |->
        [at |-> schedule[i], wallet |-> picks[i][1], action |-> picks[i][2],
         mint |-> picks[i][3], price |-> picks[i][4]]]

\* c trades m1 at any price, or buys m2; o only shows that m2 trades.
Picks == ({"c"} \X {"buy", "sell", "partial_sell"} \X {"m1"} \X {7000, 10000, 21000})
         \cup { <<"c", "buy", "m2", 10000>>, <<"o", "buy", "m2", 10000>> }

\* The copied wallet buys first; at most two purchases.
MCTapes ==
    {t \in {At(s, <<<<"c", "buy", "m1", 10000>>, a, b, d>>) :
               s \in {<<0, 1, 2, 3>>, <<0, 2, 5, 6>>}, a \in Picks, b \in Picks, d \in Picks} :
       Cardinality({i \in DOMAIN t : t[i].wallet = "c" /\ t[i].action = "buy"}) <= 2}

Active(tolerance) ==
    [status |-> "active", composite |-> 90, confidence |-> 90, copyability |-> 80,
     mult |-> One, tolerance |-> tolerance, edge |-> 0, win_rate |-> 60, trade_count |-> 40,
     avg_usd |-> 1000]
MCTraders == {Active(0)}
=============================================================================
