----------------------------- MODULE ExitRules ------------------------------
(***************************************************************************)
(* evaluate_exits and update_marks as pure operators.  A position p is a   *)
(* record with entry, peak, armed, rungs (ladder indices already taken),   *)
(* amount and opened; prices and amounts are integers, thresholds percents.*)
(***************************************************************************)
EXTENDS Integers, Sequences, FiniteSets, FiniteSetsExt

CONSTANTS
    StopLossPct,                      \* of loss: the negated stop_loss_pct
    TrailingArmPct, TrailingStopPct, MaxHold,
    Ladder                            \* sequence of <<threshold, percent taken>>

ASSUME ExitRulesAssumption ==
    /\ {StopLossPct, TrailingArmPct, TrailingStopPct, MaxHold} \subseteq Int
    /\ Ladder \in Seq(Int \X (1 .. 100))

Degraded == {"degraded", "suspended", "blacklisted"}

\* price is at least pct percent above (below, if negative) the entry price.
GainAtLeast(p, price, pct) == p.entry > 0 /\ (price - p.entry) * 100 >= pct * p.entry
GainAtMost(p, price, pct) == p.entry > 0 /\ (price - p.entry) * 100 <= pct * p.entry

DroppedBy(p, price, pct) == (p.peak - price) * 100 >= pct * p.peak

\* Mutant: the peak follows the price down.
UpdateMarksBothWays(p, price) ==
    [p EXCEPT !.peak = price,
              !.armed = @ \/ GainAtLeast(p, price, TrailingArmPct)]

\* update_marks
UpdateMarks(p, price) ==
    LET peak == IF price > p.peak THEN price ELSE p.peak IN
    [p EXCEPT !.peak = peak,
              !.armed = @ \/ GainAtLeast(p, peak, TrailingArmPct)]

Rungs(p, price) ==
    {i \in DOMAIN Ladder : i \notin p.rungs /\ GainAtLeast(p, price, Ladder[i][1])}

\* The rules by priority; the first that applies decides.
Rules == <<"stop_loss", "liquidity_deterioration", "trader_degraded", "trailing_stop",
           "take_profit", "mirror", "time_exit">>

\* in: what the caller hands over, [status, sold (percent, 0 if the source
\* holds), book ("enough", "thin" or "unknown": twice the position's value)].
Applies(rule, p, price, in, now) ==
    CASE rule = "stop_loss"               -> GainAtMost(p, price, -StopLossPct)
      [] rule = "liquidity_deterioration" -> in.book = "thin"
      [] rule = "trader_degraded"         -> in.status \in Degraded
      [] rule = "trailing_stop"           -> /\ p.peak > 0 /\ p.entry > 0
                                             /\ p.armed \/ GainAtLeast(p, p.peak, TrailingArmPct)
                                             /\ DroppedBy(p, price, TrailingStopPct)
      [] rule = "take_profit"             -> Rungs(p, price) # {}
      [] rule = "mirror"                  -> in.sold > 0
      [] rule = "time_exit"               -> now - p.opened > MaxHold

NoIntent == [reason |-> "none", take |-> 0, rung |-> 0]

EvaluateExits(p, price, in, now) ==
    LET applying == {i \in DOMAIN Rules : Applies(Rules[i], p, price, in, now)}
        rule == Rules[Min(applying)]
        rung == Min(Rungs(p, price))
    IN IF p.amount <= 0 \/ price <= 0 \/ applying = {} THEN NoIntent
       ELSE CASE rule = "take_profit" -> [reason |-> rule, take |-> Ladder[rung][2], rung |-> rung]
              [] rule = "mirror" -> [reason |-> rule, take |-> Min({in.sold, 100}), rung |-> 0]
              [] OTHER -> [reason |-> rule, take |-> 100, rung |-> 0]
=============================================================================
