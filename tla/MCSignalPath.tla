---------------------------- MODULE MCSignalPath ----------------------------
(* Model-checking instance of SignalPath: a followed wallet buys and later sells
   part of it, and two workers share the watchlist and the claims. *)
EXTENDS SignalPath, TLC

CONSTANTS w1, w2, x1

Trade == [wallet |-> x1, tokens |-> "up", money |-> "down", lp |-> FALSE, left |-> TRUE,
          dust |-> FALSE, err |-> FALSE]

\* The source buys, and later sells part of it.
MCBuySell == <<Trade, [Trade EXCEPT !.tokens = "down", !.money = "up"]>>

=============================================================================
