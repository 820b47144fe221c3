------------------------------ MODULE Decision ------------------------------
(***************************************************************************)
(* The entry decision as pure operators: the gates, the position size and  *)
(* the order in which evaluate_entry consults them, up to the reservation  *)
(* (which is an action of the ledger).  Thresholds are the defaults of     *)
(* config.py in its own units; money is whole dollars, rounded down;       *)
(* scores are percents; a multiplier is a ratio <<n, d>>.                  *)
(*                                                                         *)
(* A candidate c is a record of                                            *)
(*   action, trader, source_price, source_usd, age  (of the signal),       *)
(*   stale, price, liquidity, market_cap, token_age  (the market),         *)
(*   risk, insider, sol_price, impact, confirmations.                      *)
(***************************************************************************)
EXTENDS Integers, Sequences, FiniteSets, FiniteSetsExt

CONSTANTS
    MaxDetectionAge,                  \* in the unit of c.age
    MinTokenAge, NewTokenAge          \* in the unit of c.token_age

ASSUME DecisionAssumption ==
    {MaxDetectionAge, MinTokenAge, NewTokenAge} \subseteq Nat

Unknown == -1          \* None
One == <<1, 1>>
Times(m, k) == <<m[1] * k[1], m[2] * k[2]>>
Scaled(size, m) == (size * m[1]) \div m[2]
Smaller(a, b) == IF a <= b THEN a ELSE b
Clamp(v, lo, hi) == IF v <= lo THEN lo ELSE Smaller(v, hi)

\* A gate's verdict: GateResult.ok and GateResult.fail.
Ok(mult) == [passed |-> TRUE, mult |-> mult, reason |-> "none"]
Refuse(reason) == [passed |-> FALSE, mult |-> <<0, 1>>, reason |-> reason]

\* The first of a sequence of <<condition, verdict>> whose condition holds.
FirstOf(cases) == cases[Min({i \in DOMAIN cases : cases[i][1]})][2]

-----------------------------------------------------------------------------
(* The gates *)

Followed(status) == status \in {"probation", "active"}

TraderGate(c) == FirstOf(<<
    <<~Followed(c.trader.status),      Refuse("TRADER_NOT_FOLLOWED")>>,
    <<c.trader.composite < 60,         Refuse("TRADER_SCORE_TOO_LOW")>>,
    <<c.trader.confidence < 50,        Refuse("TRADER_CONFIDENCE_TOO_LOW")>>,
    <<c.trader.copyability < 55,       Refuse("COPYABILITY_TOO_LOW")>>,
    <<TRUE,                            Ok(c.trader.mult)>> >>)

\* The price has risen by at most pct since the source's fill.  A fall of any
\* depth counts as no adverse move.
RisenAtMost(c, pct) == (c.price - c.source_price) * 100 <= pct * c.source_price

PriceChaseGate(c) == FirstOf(<<
    <<c.source_price <= 0 \/ c.price <= 0, Refuse("CRITICAL_DATA_UNAVAILABLE")>>,
    <<RisenAtMost(c, 3),                   Ok(One)>>,
    <<RisenAtMost(c, 5),                   Ok(<<1, 2>>)>>,
    <<RisenAtMost(c, 8),                   Ok(<<1, 4>>)>>,
    <<TRUE,                                Refuse("PRICE_MOVED_TOO_FAR")>> >>)

\* A tolerance of 0 or None is no tolerance.
LatencyGate(c) ==
    LET tol == c.trader.tolerance IN FirstOf(<<
    <<c.age > MaxDetectionAge,         Refuse("SIGNAL_TOO_OLD")>>,
    <<tol > 0 /\ c.age > tol,          Refuse("LATENCY_EXCEEDS_TRADER_TOLERANCE")>>,
    <<tol > 0 /\ 10 * c.age > 6 * tol, Ok(<<3, 5>>)>>,
    <<TRUE,                            Ok(One)>> >>)

MarketCapGate(c) == FirstOf(<<
    <<c.market_cap <= 0,               Ok(One)>>,
    <<c.market_cap < 50000,            Refuse("MARKET_CAP_TOO_LOW")>>,
    <<c.market_cap > 500000000,        Refuse("MARKET_CAP_TOO_HIGH")>>,
    <<TRUE,                            Ok(One)>> >>)

TokenAgeGate(c) ==
    IF c.token_age = Unknown THEN Ok(One)
    ELSE FirstOf(<<
         <<c.token_age < MinTokenAge, Refuse("TOKEN_TOO_NEW")>>,
         <<c.token_age < NewTokenAge, Ok(<<1, 2>>)>>,
         <<TRUE,                      Ok(One)>> >>)

TokenSafetyGate(c) == FirstOf(<<
    <<c.risk.unknown,                  Refuse("CRITICAL_DATA_UNAVAILABLE")>>,
    <<c.risk.honeypot \/ c.risk.score > 40, Refuse("TOKEN_RISK_TOO_HIGH")>>,
    <<c.insider,                       Refuse("INSIDER_PATTERN")>>,
    <<TRUE,                            Ok(One)>> >>)

\* Impact in basis points.  An edge that is missing (or zero) counts as 15%;
\* what the price has already risen is deducted, the costs are impact, 0.35%
\* of fees and 1% of margin.
SlippageGate(c) ==
    LET edge == IF c.trader.edge = 0 THEN 15 ELSE c.trader.edge
        risen == IF c.source_price = 0 THEN 0
                 ELSE Clamp(((c.price - c.source_price) * 10000) \div c.source_price, 0, 1000000)
    IN FirstOf(<<
    <<c.impact > 300,                              Refuse("EXPECTED_SLIPPAGE_TOO_HIGH")>>,
    <<edge * 100 - risen <= c.impact + 35 + 100,   Refuse("ALPHA_BELOW_COST")>>,
    <<TRUE,                                        Ok(One)>> >>)

ConfirmationGate(c) == Ok(IF c.confirmations >= 2 THEN <<5, 4>> ELSE One)

\* One percent of the liquidity.
Allowed(c) == c.liquidity \div 100

\* Shrinks the intended size to the allowed one, unless that is too small.
LiquidityGate(c, intended, min_position) == FirstOf(<<
    <<c.liquidity < 25000,             Refuse("LOW_LIQUIDITY")>>,
    <<intended <= Allowed(c),          Ok(One)>>,
    <<Allowed(c) < min_position,       Refuse("POSITION_TOO_LARGE_FOR_LIQUIDITY")>>,
    <<TRUE,                            Ok(<<Allowed(c), intended>>)>> >>)

\* run_entry_gates: all of them, in order, also after a failure.
RunEntryGates(c, intended, min_position) ==
    << TraderGate(c), PriceChaseGate(c), LatencyGate(c), MarketCapGate(c), TokenAgeGate(c),
       TokenSafetyGate(c), SlippageGate(c), ConfirmationGate(c),
       LiquidityGate(c, intended, min_position) >>

AllPassed(gates) == \A i \in DOMAIN gates : gates[i].passed

\* Mutant: the combined multiplier leaves the last gate out.
CombinedButLast(gates) ==
    LET upTo[i \in 0 .. Len(gates)] ==
            IF i = 0 THEN One
            ELSE IF gates[i].passed /\ i < Len(gates) THEN Times(upTo[i - 1], gates[i].mult)
            ELSE upTo[i - 1]
    IN upTo[Len(gates)]

Combined(gates) ==
    LET upTo[i \in 0 .. Len(gates)] ==
            IF i = 0 THEN One
            ELSE IF gates[i].passed THEN Times(upTo[i - 1], gates[i].mult) ELSE upTo[i - 1]
    IN upTo[Len(gates)]

CollectReasons(gates) == {gates[i].reason : i \in {j \in DOMAIN gates : ~gates[j].passed}}

-----------------------------------------------------------------------------
(* Sizing; a portfolio pf is [equity, cash], rules are [base, cap] in basis
   points of the equity and [min] in dollars *)

BasePct(pf, rules) == (pf.equity * rules.base) \div 10000
Cap(pf, rules) == (pf.equity * rules.cap) \div 10000

\* Quarter Kelly on the default averages, +60% and -35%; in basis points.
Kelly(c, pf, rules) ==
    LET win == c.trader.win_rate
        edge == 100 * win - ((100 - win) * 3500) \div 60
    IN IF win <= 0 \/ c.trader.trade_count < 30 THEN BasePct(pf, rules) \div 2
       ELSE (pf.equity * Clamp(edge \div 4, 0, rules.cap)) \div 10000

Weight(score) == Clamp(score, 20, 100)

BaseSize(c, pf, mode, rules) ==
    IF pf.equity <= 0 THEN 0
    ELSE CASE mode = "fixed" -> rules.min * 5
           [] mode = "portfolio_pct" -> BasePct(pf, rules)
           [] mode = "source_proportional" ->
                IF c.trader.avg_usd > 0
                THEN (BasePct(pf, rules)
                       * Clamp((100 * c.source_usd) \div c.trader.avg_usd, 25, 300)) \div 100
                ELSE BasePct(pf, rules)
           [] mode = "confidence_weighted" ->
                (BasePct(pf, rules) * Weight(c.trader.composite) * Weight(c.trader.confidence)
                    * Weight(c.trader.copyability)) \div 1000000
           [] mode = "kelly" -> Kelly(c, pf, rules)

\* After the gates' multiplier and the hard ceilings.
FinalSize(c, pf, mult, mode, rules) ==
    LET size == Smaller(Scaled(BaseSize(c, pf, mode, rules), mult),
                        Smaller(Cap(pf, rules), pf.cash))
    IN IF size < rules.min THEN 0 ELSE size

-----------------------------------------------------------------------------
(* evaluate_entry up to the reservation *)

Rejected(reasons) == [size |-> 0, reasons |-> reasons]

EvaluateEntry(c, pf, mode, rules) ==
    LET provisional == FinalSize(c, pf, One, mode, rules)
        gates == RunEntryGates(c, provisional, rules.min)
        size == FinalSize(c, pf, Combined(gates), mode, rules)
    IN IF c.action # "buy" THEN Rejected({"NON_COPYABLE_ACTION"})
       ELSE IF ~TraderGate(c).passed THEN Rejected({TraderGate(c).reason})
       ELSE IF c.stale \/ c.price <= 0 THEN Rejected({"STALE_MARKET_DATA"})
       ELSE IF provisional <= 0 THEN Rejected({"POSITION_BELOW_MINIMUM"})
       ELSE IF c.sol_price <= 0 THEN Rejected({"CRITICAL_DATA_UNAVAILABLE"})
       ELSE IF c.impact = Unknown THEN Rejected({"NO_ROUTE"})
       ELSE IF ~AllPassed(gates) THEN Rejected(CollectReasons(gates))
       ELSE IF size <= 0 THEN Rejected({"POSITION_BELOW_MINIMUM"})
       ELSE [size |-> size, reasons |-> {}]
=============================================================================
