------------------------------ MODULE Backtest ------------------------------
(***************************************************************************)
(* The replay of on-chain history through the real decision                *)
(* (Decision), the real exit rules (ExitRules) and the real ledger         *)
(* (RiskLedger, in a namespace of its own).  The price history is made of  *)
(* the trades themselves, so a price is only known when somebody trades.   *)
(* One coroutine: an action per await.  Prices are in cents, money is in   *)
(* whole dollars, times in ticks of the replayed clock.                    *)
(***************************************************************************)
EXTENDS Decision, ExitRules, RiskLedger

CONSTANTS
    Tapes,              \* histories to replay: sequences of Trade records
    Traders,            \* profiles the copied wallet may have
    Depths,             \* liquidity of the tokens
    SizingModes,
    DetectionLatency, MaxStaleness,
    BaseBp, CapBp,      \* base_position_pct and max_position_pct
    Fee,                \* fee_usd of one transaction
    MayFail             \* the simulated failure rate is not zero

Trade == [at : Nat, wallet : Wallets, mint : Mints,
          action : {"buy", "sell", "partial_sell"}, price : Nat \ {0}]

\* edge in basis points, 0 when it is not known; scores and rates in percent.
Profile == [status : STRING, composite : 0..100, confidence : 0..100, copyability : 0..100,
            mult : Nat \X (Nat \ {0}), tolerance : Nat, edge : Nat, win_rate : 0..100,
            trade_count : Nat, avg_usd : Nat]

ASSUME BacktestAssumption ==
    /\ Traders \subseteq Profile /\ Depths \subseteq Nat \ {0}
    /\ SizingModes \subseteq {"fixed", "portfolio_pct", "source_proportional",
                               "confidence_weighted", "kelly"}
    /\ \A t \in Tapes : /\ Len(t) > 0 /\ t \in Seq(Trade)
                        /\ \A i, j \in DOMAIN t : i < j => t[i].at < t[j].at
    /\ ResIds \subseteq Nat /\ MayFail \in BOOLEAN
    /\ {DetectionLatency, MaxStaleness, BaseBp, CapBp, Fee} \subseteq Nat

VARIABLES
    tape, trader, depth, sizing,    \* what is replayed: fixed in a behaviour
    clock,                          \* _clock, also the provider's
    step,                           \* index in the timeline
    pc, todo,                       \* where run() is; positions its loop has yet to visit
    order,                          \* the approved entry being executed
    pos,                            \* positions, by the reservation they came from
    trades,                         \* result.trades
    realized, exit_fees,            \* result.realized_pnl_usd; fees booked by exits
    unsold                          \* ghost: positions whose latest sale failed

replay == <<tape, trader, depth, sizing>>
btVars == <<replay, clock, step, pc, todo, order, pos, trades, realized, exit_fees, unsold>>
vars == <<ledgerVars, sys, kill, btVars>>

rules == [base |-> BaseBp, cap |-> CapBp, min |-> MinPosition]
NoPosition == [amount |-> 0]
NoOrder == [size |-> 0]

Position == [mint : Mints, wallet : Wallets, amount : Nat \ {0}, cost : Nat, entry : Nat,
             peak : Nat, armed : BOOLEAN, rungs : SUBSET DOMAIN Ladder, opened : Nat]
ApprovedOrder == [size : Nat, res : ResIds, price : Nat]
Reasons == {Rules[i] : i \in DOMAIN Rules} \cup {"manual"}
ClosedTrade == [res : ResIds, opened : Nat, closed : Nat, reason : Reasons, rung : Nat]
Open == {r \in ResIds : pos[r].amount > 0}

\* The one wallet that has a profile.
Copied == tape[1].wallet

\* Amounts are in units of which one dollar buys 10000 at a price of one cent.
Amount(usd, price) == (usd * 10000) \div price
Usd(amount, price) == (amount * price) \div 10000

\* The program counter, the open positions and the closed trades.
TypeOK ==
    /\ KeysTypeOK
    /\ {equity, cash, deployed, realized_today, hwm, realized} \subseteq Int
    /\ {open_positions, pending, clock, step, exit_fees} \subseteq Nat
    /\ pc \in {"advance", "trade", "fill", "mirror", "ticks", "mark", "liquidate", "done"}
    /\ todo \subseteq Open /\ order \in ApprovedOrder \cup {NoOrder}
    /\ pos \in [ResIds -> Position \cup {NoPosition}]
    /\ \A r \in Open : pos[r].peak >= pos[r].entry
    /\ trades \subseteq ClosedTrade

Init ==
    /\ LedgerInit /\ sys = "running" /\ kill = FALSE
    /\ tape \in Tapes /\ trader \in Traders /\ depth \in Depths /\ sizing \in SizingModes
    /\ clock = 0 /\ step = 1 /\ pc = "advance" /\ todo = {}
    /\ order = NoOrder /\ pos = [r \in ResIds |-> NoPosition]
    /\ trades = {} /\ realized = 0 /\ exit_fees = 0
    /\ unsold = {}

-----------------------------------------------------------------------------
(* The provider: what was observed at or before the clock *)

Observed(m, when) == {i \in DOMAIN tape : tape[i].mint = m /\ tape[i].at <= when}
FirstSeen(m, when) == tape[Min(Observed(m, when))]
LastSeen(m, when) == tape[Max(Observed(m, when))]
Price(m, when) == LastSeen(m, when).price
Stale(m, when) == when - LastSeen(m, when).at > MaxStaleness

\* ImpactModel, in basis points, with exponent 1 for the code's 1.35.
Impact(usd) == Clamp((12000 * usd) \div depth, 5, 9900)

\* quote: the impact of the route, if there is one.
Quote(m, usd, when) == IF Stale(m, when) THEN {} ELSE {Impact(usd)}

-----------------------------------------------------------------------------
(* The timeline: the price a trade makes, then the trade *)

Event == tape[(step + 1) \div 2]
IsTrade == step % 2 = 0
Ended == step > 2 * Len(tape)

\* Mutant: the clock is set to the event's time, backwards if need be.
AdvanceClockTo(when) == when
AdvanceClock(when) == IF when > clock THEN when ELSE clock

NextEvent ==
    /\ pc = "advance" /\ ~Ended
    /\ clock' = AdvanceClock(Event.at)
    /\ pc' = IF IsTrade THEN "trade" ELSE "ticks"
    /\ todo' = IF IsTrade THEN {} ELSE Open
    /\ UNCHANGED <<ledgerVars, keyVars, replay, step, order, pos, trades, realized, exit_fees,
                   unsold>>

\* Mutant: the replay ends without liquidating.
LastEventOnly ==
    /\ pc = "advance" /\ Ended
    /\ pc' = "mark" /\ todo' = {}
    /\ UNCHANGED <<ledgerVars, keyVars, replay, clock, step, order, pos, trades, realized,
                   exit_fees, unsold>>

LastEvent ==
    /\ pc = "advance" /\ Ended
    /\ pc' = "liquidate" /\ todo' = Open
    /\ UNCHANGED <<ledgerVars, keyVars, replay, clock, step, order, pos, trades, realized,
                   exit_fees, unsold>>

\* _on_source_trade, a sale: mirrored into the positions copied from that wallet.
SourceSells ==
    /\ pc = "trade" /\ Event.action # "buy"
    /\ pc' = "mirror"
    /\ todo' = {r \in Open : pos[r].wallet = Event.wallet /\ pos[r].mint = Event.mint}
    /\ UNCHANGED <<ledgerVars, keyVars, replay, clock, step, order, pos, trades, realized,
                   exit_fees, unsold>>

\* A purchase by a wallet without a profile.
Skip ==
    /\ pc = "trade" /\ Event.action = "buy" /\ Event.wallet # Copied
    /\ pc' = "ticks" /\ todo' = Open
    /\ UNCHANGED <<ledgerVars, keyVars, replay, clock, step, order, pos, trades, realized,
                   exit_fees, unsold>>

Portfolio == [equity |-> equity, cash |-> cash]

\* What the decision engine sees at time `when`; the quote is for the
\* provisional size.  A token young enough for the insider flag is refused as
\* too new in any case.
Candidate(when) ==
    LET bare == [action |-> "buy", trader |-> trader, source_price |-> Event.price,
                 source_usd |-> depth \div 40, age |-> when - Event.at,
                 stale |-> Stale(Event.mint, when), price |-> Price(Event.mint, when),
                 liquidity |-> depth,
                 market_cap |-> 0,
                 token_age |-> when - FirstSeen(Event.mint, when).at,
                 risk |-> [unknown |-> FALSE, honeypot |-> FALSE, score |-> 15],
                 insider |-> FALSE, sol_price |-> 150, impact |-> 0, confirmations |-> 0]
    IN [bare EXCEPT !.impact = Impact(FinalSize(bare, Portfolio, One, sizing, rules))]

\* What RESERVE checks.
Grantable(m, w, size) ==
    /\ EntriesOpen /\ size >= MinPosition
    /\ BreakersClosed /\ WithinCaps(m, w, size) /\ SlotsFree

\* Reservations are made in the order of their ids.
NextRes(r) == \A x \in ResIds : reservation[x] = Unborn => r <= x

\* A purchase by the copied wallet: detected late, decided, reserved.
SourceBuys ==
    /\ pc = "trade" /\ Event.action = "buy" /\ Event.wallet = Copied
    /\ clock' = AdvanceClock(Event.at + DetectionLatency)
    /\ LET c == Candidate(clock')
           size == EvaluateEntry(c, Portfolio, sizing, rules).size
       IN IF size > 0 /\ Grantable(Event.mint, Copied, size)
          THEN /\ \E r \in ResIds :
                     /\ NextRes(r) /\ Reserve(r, Event.mint, Copied, size)
                     /\ order' = [size |-> size, res |-> r,
                                  price |-> (c.price * (10000 + c.impact + 14)) \div 10000]
               /\ pc' = "fill" /\ UNCHANGED todo
          ELSE /\ pc' = "ticks" /\ todo' = Open
               /\ UNCHANGED <<ledgerVars, order>>
    /\ UNCHANGED <<keyVars, replay, step, pos, trades, realized, exit_fees, unsold>>

\* The executor fills the entry ...
Fill ==
    /\ pc = "fill"
    /\ Amount(order.size, order.price) > 0
    /\ Commit(order.res, order.size)
    /\ pos' = [pos EXCEPT ![order.res] =
                  [mint |-> Event.mint, wallet |-> Copied,
                   amount |-> Amount(order.size, order.price),
                   cost |-> order.size, entry |-> order.price, peak |-> order.price,
                   armed |-> FALSE, rungs |-> {}, opened |-> clock]]
    /\ order' = NoOrder
    /\ pc' = "ticks" /\ todo' = Open \cup {order.res}
    /\ UNCHANGED <<keyVars, replay, clock, step, trades, realized, exit_fees, unsold>>

\* ... or fails, and the hold is given back.
FillFails ==
    /\ pc = "fill" /\ MayFail
    /\ Release(order.res)
    /\ order' = NoOrder
    /\ pc' = "ticks" /\ todo' = Open
    /\ UNCHANGED <<keyVars, replay, clock, step, pos, trades, realized, exit_fees, unsold>>

-----------------------------------------------------------------------------
(* Closing *)

Quantity(p, take) == IF take >= 100 THEN p.amount ELSE (p.amount * take) \div 100

\* Mutant: the cost is taken for the proceeds minus the booked profit, which
\* has the fee in it.
CostWithFee(p, qty) == (p.cost * qty) \div p.amount + Fee
CostOf(p, qty) == (p.cost * qty) \div p.amount

\* _close with a successful execution: the book, the result and the position.
Sold(r, p, intent) ==
    LET qty == Quantity(p, intent.take)
        mark == Price(p.mint, clock)
        cost == CostOf(p, qty)
        rest == p.amount - qty
    IN /\ qty > 0
       /\ \E impact \in Quote(p.mint, Usd(qty, mark), clock) :
             LET proceeds == Usd(qty, (mark * (10000 - impact)) \div 10000)
                 pnl == proceeds - (p.cost * qty) \div p.amount - Fee
             IN /\ ReleasePosition(p.mint, p.wallet, cost, pnl, proceeds, rest = 0)
                /\ realized' = realized + pnl /\ exit_fees' = exit_fees + Fee
       /\ pos' = [pos EXCEPT ![r] = IF rest = 0 THEN NoPosition
                     ELSE [p EXCEPT !.amount = rest, !.cost = @ - cost,
                                    !.rungs = @ \cup ({intent.rung} \ {0})]]
       /\ trades' = trades \cup {[res |-> r, opened |-> p.opened, closed |-> clock,
                                  reason |-> intent.reason, rung |-> intent.rung]}
       /\ unsold' = unsold \ {r}

\* _close that comes to nothing: nothing to sell, no route in a stale market,
\* or a simulated failure.
NotSold(r, p, intent) ==
    /\ Quantity(p, intent.take) > 0 => Stale(p.mint, clock) \/ MayFail
    /\ pos' = [pos EXCEPT ![r] = p]
    /\ unsold' = IF Quantity(p, intent.take) > 0 THEN unsold \cup {r} ELSE unsold
    /\ UNCHANGED <<ledgerVars, trades, realized, exit_fees>>

Close(r, p, intent) == Sold(r, p, intent) \/ NotSold(r, p, intent)

\* The next position of the loop that is running.
Visit(loop, r) ==
    /\ pc = loop /\ todo # {} /\ r = Min(todo)
    /\ todo' = todo \ {r}
    /\ UNCHANGED <<keyVars, replay, clock, step, pc, order>>

\* _mirror_exit
Mirror(r) ==
    /\ Visit("mirror", r)
    /\ Close(r, pos[r], [reason |-> "mirror", rung |-> 0,
                         take |-> IF Event.action = "sell" THEN 100 ELSE 50])

MarketSide == [status |-> trader.status, sold |-> 0, book |-> "unknown"]

\* Mutant: a position is evaluated only when its source trades.
EvaluateOnTrades(r) ==
    /\ Visit("ticks", r)
    /\ IF Stale(pos[r].mint, clock) \/ ~IsTrade
       THEN UNCHANGED <<ledgerVars, pos, trades, realized, exit_fees, unsold>>
       ELSE LET p == UpdateMarks(pos[r], Price(pos[r].mint, clock))
                intent == EvaluateExits(p, Price(p.mint, clock), MarketSide, clock)
            IN IF intent = NoIntent
               THEN /\ pos' = [pos EXCEPT ![r] = p]
                    /\ UNCHANGED <<ledgerVars, trades, realized, exit_fees, unsold>>
               ELSE Close(r, p, intent)

\* _tick_exits
Evaluate(r) ==
    /\ Visit("ticks", r)
    /\ IF Stale(pos[r].mint, clock)
       THEN UNCHANGED <<ledgerVars, pos, trades, realized, exit_fees, unsold>>
       ELSE LET p == UpdateMarks(pos[r], Price(pos[r].mint, clock))
                intent == EvaluateExits(p, Price(p.mint, clock), MarketSide, clock)
            IN IF intent = NoIntent
               THEN /\ pos' = [pos EXCEPT ![r] = p]
                    /\ UNCHANGED <<ledgerVars, trades, realized, exit_fees, unsold>>
               ELSE Close(r, p, intent)

\* _liquidate_all: one attempt for each position.
Liquidate(r) ==
    /\ Visit("liquidate", r)
    /\ Close(r, pos[r], [reason |-> "manual", rung |-> 0, take |-> 100])

EndOfLoop ==
    /\ pc \in {"mirror", "ticks", "liquidate"} /\ todo = {}
    /\ pc' = IF pc = "mirror" THEN "ticks" ELSE "mark"
    /\ todo' = IF pc = "mirror" THEN Open ELSE {}
    /\ UNCHANGED <<ledgerVars, keyVars, replay, clock, step, order, pos, trades, realized,
                   exit_fees, unsold>>

\* What a position has gained at the last known price, however old.
Gain == [r \in ResIds |-> IF r \in Open
                          THEN Usd(pos[r].amount, Price(pos[r].mint, clock)) - pos[r].cost
                          ELSE 0]

\* _mark
MarkBook ==
    /\ pc = "mark"
    /\ Mark(SumFunction(Gain))
    /\ pc' = IF Ended THEN "done" ELSE "advance"
    /\ step' = IF Ended THEN step ELSE step + 1
    /\ UNCHANGED <<keyVars, replay, clock, todo, order, pos, trades, realized, exit_fees, unsold>>

Next ==
    \/ NextEvent \/ LastEvent
    \/ SourceSells \/ SourceBuys \/ Skip
    \/ Fill \/ FillFails
    \/ \E r \in ResIds : Mirror(r) \/ Evaluate(r) \/ Liquidate(r)
    \/ EndOfLoop \/ MarkBook

Spec == Init /\ [][Next]_vars

-----------------------------------------------------------------------------
(* Properties *)

\* run(): "The clock only ever moves forward ... rewinding would let a position
\* close before it opened": detection pushes the clock past later events, and
\* still no trade is closed before it was opened.
NeverClosesBeforeOpening == \A t \in trades : t.opened <= t.closed

\* The book against the result: whenever no entry is under way, cash and
\* deployed capital are the starting capital plus the realised P&L plus the
\* fees of the exits.  (The result charges the exit fees and the book does
\* not; the entry fees are charged to neither.)
BooksAgree ==
    order = NoOrder => cash + deployed = Capital + realized + exit_fees

\* No rule that caps a loss applies to position r at a fresh price.
Spared(r) ==
    \/ Stale(pos[r].mint, clock)
    \/ LET price == Price(pos[r].mint, clock) IN
       /\ ~GainAtMost(pos[r], price, -StopLossPct)
       /\ pos[r].armed => ~DroppedBy(pos[r], price, TrailingStopPct)

\* "Stops and trailing stops fire between signals": after every event, a
\* position that is still open although a fresh price is at or below its stop,
\* or at least the trailing distance below the peak of an armed one, is one
\* whose sale has just failed.
StopsAreTaken == pc = "mark" /\ ~Ended => \A r \in Open \ unsold : Spared(r)

\* At the end of a replay only positions nobody would buy are open: the sale
\* failed, in a market gone stale or by a simulated failure.
OnlyUnsellableStaysOpen == pc = "done" => Open \subseteq unsold

\* liquidity_gate: "Shrink to fit the book": no position is opened with more
\* than one percent of the liquidity.  The gate shrinks a size already clipped
\* to the ceilings and the cash, and the final size multiplies the size before
\* clipping, so this is said of the sizing modes that stay under the ceilings,
\* while there is cash enough, for entries without confirmations: not of
\* "source_proportional".
FitsTheBook == \A r \in Open : 100 * pos[r].cost <= depth

=============================================================================
