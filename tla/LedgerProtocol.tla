--------------------------- MODULE LedgerProtocol ---------------------------
(***************************************************************************)
(* The risk ledger driven by callers that keep its protocol.  Every call   *)
(* is atomic (one Lua script), any number of entries and exits interleave, *)
(* fills differ from the reserved size, positions are reduced in parts,    *)
(* and a harvest debits cash that it read some time ago.                   *)
(***************************************************************************)
EXTENDS RiskLedger

CONSTANTS
    HarvestAmounts,        \* amounts a harvest may decide on
    MaxHarvested           \* bound: total harvested in a behaviour

ASSUME ProtocolAssumption ==
    /\ 0 \notin Fills
    /\ HarvestAmounts \subseteq Nat \ {0} /\ MaxHarvested \in Nat

VARIABLES
    row,         \* row[r]: the open position entered under reservation r
    harvest_due, \* amount a harvest in progress has decided on, 0 if none
    pnl_total,   \* ghost: realised P&L booked since the bootstrap
    overfill     \* ghost: by how much fills have exceeded their reservations

protocolVars == <<row, harvest_due, pnl_total, overfill>>
vars == <<ledgerVars, sys, kill, protocolVars>>

NoRow == [cost |-> 0]
OpenRow == [mint : Mints, wallet : Wallets, cost : Nat \ {0}]
OpenRows == {r \in ResIds : row[r] # NoRow}

\* Amounts are integers, counters natural numbers, records well formed.
TypeOK ==
    /\ KeysTypeOK
    /\ {equity, cash, deployed, unrealized, realized_today, hwm, pnl_total} \subseteq Int
    /\ {open_positions, pending, harvested_total, harvest_due, overfill} \subseteq Nat
    /\ token_exp \in [Mints -> Int] /\ trader_exp \in [Wallets -> Int]
    /\ reservation \in [ResIds -> {Unborn, Gone} \cup Live]
    /\ row \in [ResIds -> {NoRow} \cup OpenRow]

Init ==
    /\ LedgerInit
    /\ KeysInit
    /\ row = [r \in ResIds |-> NoRow]
    /\ harvest_due = 0 /\ pnl_total = 0 /\ overfill = 0

-----------------------------------------------------------------------------
StartOrStop ==
    /\ \E state \in {"running", "stopped"} : SetState(state)
    /\ UNCHANGED <<ledgerVars, protocolVars>>

Enter(r) ==
    /\ \E m \in Mints, w \in Wallets, size \in Sizes : Reserve(r, m, w, size)
    /\ UNCHANGED <<keyVars, protocolVars>>

\* The order failed: the hold is given back.
GiveUp(r) ==
    /\ Release(r)
    /\ UNCHANGED <<keyVars, protocolVars>>

\* The order filled: the reservation becomes a position at the filled value.
Fill(r) ==
    /\ \E actual \in Fills :
          /\ Commit(r, actual)
          /\ row' = [row EXCEPT ![r] = [mint |-> reservation[r].mint,
                                        wallet |-> reservation[r].wallet, cost |-> actual]]
          /\ overfill' = overfill +
                (IF actual > reservation[r].usd THEN actual - reservation[r].usd ELSE 0)
    /\ UNCHANGED <<keyVars, harvest_due, pnl_total>>

Forget(r) ==
    /\ Expire(r)
    /\ UNCHANGED <<keyVars, protocolVars>>

\* A position is reduced, or closed when all its cost is released.
Exit(r) ==
    /\ row[r] # NoRow
    /\ \E cost \in 1 .. row[r].cost, proceeds \in Proceeds :
          /\ ReleasePosition(row[r].mint, row[r].wallet, cost, proceeds - cost, proceeds,
                             cost = row[r].cost)
          /\ row' = IF cost = row[r].cost THEN [row EXCEPT ![r] = NoRow]
                    ELSE [row EXCEPT ![r].cost = @ - cost]
          /\ pnl_total' = pnl_total + proceeds - cost
    /\ UNCHANGED <<keyVars, harvest_due, overfill>>

Tick ==
    /\ \E unreal \in Unrealized : Mark(unreal)
    /\ UNCHANGED <<keyVars, protocolVars>>

NewDay ==
    /\ ResetDaily
    /\ UNCHANGED <<keyVars, protocolVars>>

\* maybe_harvest decides on an amount that the cash it reads covers ...
HarvestDecide ==
    /\ harvest_due = 0
    /\ \E amount \in HarvestAmounts :
          /\ amount <= cash
          /\ harvested_total + amount <= MaxHarvested
          /\ harvest_due' = amount
    /\ UNCHANGED <<ledgerVars, keyVars, row, pnl_total, overfill>>

\* ... and debits it once the transfer is done, whatever happened to cash.
HarvestDebit ==
    /\ harvest_due # 0
    /\ AddHarvest(harvest_due)
    /\ harvest_due' = 0
    /\ UNCHANGED <<keyVars, row, pnl_total, overfill>>

\* The reset command, used only on a flat book with no harvest under way.
Reset ==
    /\ Held = {} /\ OpenRows = {} /\ harvest_due = 0
    /\ ForceBootstrap
    /\ pnl_total' = 0 /\ overfill' = 0
    /\ UNCHANGED <<keyVars, row, harvest_due>>

Next ==
    \/ StartOrStop \/ Tick \/ NewDay \/ HarvestDecide \/ HarvestDebit \/ Reset
    \/ \E r \in ResIds : Enter(r) \/ GiveUp(r) \/ Fill(r) \/ Forget(r) \/ Exit(r)

Spec == Init /\ [][Next]_vars

-----------------------------------------------------------------------------
(* Properties *)

\* What each reservation still commits of the portfolio: its hold, or the cost
\* of the position it became.
Committed == [r \in ResIds |-> IF r \in Held THEN reservation[r].usd ELSE row[r].cost]

Holder(r) == IF r \in Held THEN reservation[r] ELSE row[r]

Active == Held \cup OpenRows

OfMint(m) == {r \in Active : Holder(r).mint = m}
OfWallet(w) == {r \in Active : Holder(r).wallet = w}

\* No money appears or disappears: cash, capital at work and what was
\* harvested add up to the starting capital and the booked P&L, whatever
\* order holds, fills, releases, partial exits and dust clamps come in.
Conservation == cash + deployed + harvested_total = Capital + pnl_total

\* Every unit of exposure is backed: the deployed total and each token's and
\* trader's exposure equal what holds and open positions commit.
ExposureBacked ==
    /\ deployed = SumFunctionOnSet(Committed, Active)
    /\ \A m \in Mints : token_exp[m] = SumFunctionOnSet(Committed, OfMint(m))
    /\ \A w \in Wallets : trader_exp[w] = SumFunctionOnSet(Committed, OfWallet(w))

\* The counters RESERVE decides on count the holds and the open positions.
CountsBacked ==
    /\ pending = Cardinality(Held)
    /\ open_positions = Cardinality(OpenRows)

\* Concurrent entries never overbook: holds and positions together stay
\* within the position limit, holds within the pending limit.
NeverOverbooked ==
    /\ Cardinality(Held) + Cardinality(OpenRows) <= MaxOpenPositions
    /\ Cardinality(Held) <= MaxPending

\* The concentration ceilings hold against the best equity ever marked,
\* except for what fills cost beyond their reservations: between a grant and
\* its commit no interleaving of other entries breaches them.
CapsHonoured ==
    /\ deployed * 100 <= MaxDeployedPct * hwm + 100 * overfill
    /\ \A m \in Mints : token_exp[m] * 100 <= MaxTokenPct * hwm + 100 * overfill
    /\ \A w \in Wallets : trader_exp[w] * 100 <= MaxTraderPct * hwm + 100 * overfill

\* What the book has under each reservation, read off the reservation and the row.
Entries == [r \in ResIds |->
    IF reservation[r].state = "held" THEN [reservation[r] EXCEPT !.state = "hold"]
    ELSE IF row[r] # NoRow
    THEN [state |-> "position", mint |-> row[r].mint, wallet |-> row[r].wallet,
          usd |-> row[r].cost]
    ELSE [state |-> IF reservation[r] = Unborn THEN "free" ELSE "settled", usd |-> 0]]

BookOf == INSTANCE Book WITH
    entry <- Entries, earned <- pnl_total, today <- realized_today, taken <- harvested_total,
    marked <- equity, peak <- hwm, gate <- EntriesOpen,
    shown <- [cash |-> cash, deployed |-> deployed, token |-> token_exp, trader |-> trader_exp,
              positions |-> open_positions, pending |-> pending]

\* The running totals of the scripts stand for the book: every grant, fill,
\* reduction, harvest and mark is one the book allows, decided on sums taken
\* over its entries at that moment, in any interleaving; and so no total that
\* drifted from the entries, no clamp and no counter ever decides anything.
ImplementsBook == BookOf!Spec

=============================================================================
