----------------------------- MODULE RiskLedger -----------------------------
(***************************************************************************)
(* The portfolio risk ledger: Redis hashes changed only by Lua scripts, so *)
(* every operation is atomic.  Amounts are integers in a unit of which     *)
(* Dollar make one USD (the scripts use floats; rounding is not modelled). *)
(* Each script is an action on the ledger's variables; LedgerProtocol and  *)
(* TradeLifecycle drive them.                                              *)
(***************************************************************************)
EXTENDS Integers, FiniteSets, FiniteSetsExt, SystemKeys

CONSTANTS
    Mints, Wallets,
    ResIds,                \* reservation ids; a uuid is never drawn twice
    Capital,               \* starting_capital_usd
    Sizes,                 \* sizes the decision engine asks for
    Fills,                 \* values at which entries may fill
    Proceeds,              \* proceeds an exit may bring
    Unrealized,            \* unrealised P&L a tick may compute
    MaxDailyLossPct, MaxDrawdownPct, MaxDeployedPct, MaxTokenPct, MaxTraderPct,
    MaxOpenPositions, MaxPending, MinPosition,
    Dollar                 \* units in one USD

ASSUME LedgerAssumption ==
    /\ IsFiniteSet(ResIds)
    /\ Capital \in Nat \ {0} /\ Dollar \in Nat \ {0} /\ MinPosition \in Nat \ {0}
    /\ Sizes \subseteq Nat /\ Fills \subseteq Nat /\ Proceeds \subseteq Nat
    /\ Unrealized \subseteq Int
    /\ MaxDailyLossPct \in Nat /\ MaxDrawdownPct \in Nat /\ MaxDeployedPct \in Nat
    /\ MaxTokenPct \in Nat /\ MaxTraderPct \in Nat
    /\ MaxOpenPositions \in Nat /\ MaxPending \in Nat

VARIABLES
    equity, cash, deployed, unrealized, realized_today, hwm,   \* keys.risk_state
    open_positions, pending, harvested_total,                  \*   (same hash)
    token_exp, trader_exp,                                     \* keys.exposure_*
    reservation                                                \* keys.reservation

counters == <<open_positions, pending>>
money == <<cash, deployed>>
marks == <<equity, unrealized, hwm>>
exposure == <<token_exp, trader_exp>>
ledgerVars == <<equity, cash, deployed, unrealized, realized_today, hwm,
                open_positions, pending, harvested_total, token_exp, trader_exp, reservation>>

\* "unborn": the uuid has not been drawn; "gone": the hash was deleted or has
\* expired.  Redis tells neither from a missing key.
Unborn == [state |-> "unborn"]
Gone == [state |-> "gone"]
Live == [state : {"held", "committed"}, mint : Mints, wallet : Wallets, usd : Nat]

Held == {r \in ResIds : reservation[r].state = "held"}

-----------------------------------------------------------------------------
(* The scripts *)

\* The hash a bootstrap writes.
Fresh ==
    /\ equity = Capital /\ cash = Capital /\ hwm = Capital
    /\ deployed = 0 /\ unrealized = 0 /\ realized_today = 0
    /\ open_positions = 0 /\ pending = 0 /\ harvested_total = 0

LedgerInit ==
    /\ Fresh
    /\ token_exp = [m \in Mints |-> 0]
    /\ trader_exp = [w \in Wallets |-> 0]
    /\ reservation = [r \in ResIds |-> Unborn]

\* bootstrap(force=True): the state hash is rewritten; exposures and
\* reservations are left alone.
ForceBootstrap ==
    /\ equity' = Capital /\ cash' = Capital /\ hwm' = Capital
    /\ deployed' = 0 /\ unrealized' = 0 /\ realized_today' = 0
    /\ open_positions' = 0 /\ pending' = 0 /\ harvested_total' = 0
    /\ UNCHANGED <<exposure, reservation>>

\* The circuit breakers of RESERVE, on the last marked equity.
BreakersClosed ==
    /\ equity > 0
    /\ -realized_today * 100 < MaxDailyLossPct * equity
    /\ hwm > 0 => (hwm - equity) * 100 < MaxDrawdownPct * hwm

\* Mutant: only committed positions count towards the position limit.
SlotsFreeIgnoringPending ==
    /\ open_positions < MaxOpenPositions
    /\ pending < MaxPending

\* Position count and pending concurrency.
SlotsFree ==
    /\ open_positions + pending < MaxOpenPositions
    /\ pending < MaxPending

\* Mutant: the size asked for is not added before the comparison.
WithinCapsBeforeAdding(m, w, size) ==
    /\ deployed * 100 <= MaxDeployedPct * equity
    /\ size <= cash
    /\ token_exp[m] * 100 <= MaxTokenPct * equity
    /\ trader_exp[w] * 100 <= MaxTraderPct * equity

\* Portfolio, cash, per-token and per-trader ceilings.
WithinCaps(m, w, size) ==
    /\ (deployed + size) * 100 <= MaxDeployedPct * equity
    /\ size <= cash
    /\ (token_exp[m] + size) * 100 <= MaxTokenPct * equity
    /\ (trader_exp[w] + size) * 100 <= MaxTraderPct * equity

\* RESERVE, granting: check and hold in one step.  A rejection changes nothing.
Reserve(r, m, w, size) ==
    /\ reservation[r] = Unborn
    /\ EntriesOpen
    /\ size >= MinPosition
    /\ BreakersClosed
    /\ WithinCaps(m, w, size)
    /\ SlotsFree
    /\ deployed' = deployed + size
    /\ cash' = cash - size
    /\ pending' = pending + 1
    /\ token_exp' = [token_exp EXCEPT ![m] = @ + size]
    /\ trader_exp' = [trader_exp EXCEPT ![w] = @ + size]
    /\ reservation' = [reservation EXCEPT
                          ![r] = [state |-> "held", mint |-> m, wallet |-> w, usd |-> size]]
    /\ UNCHANGED <<marks, realized_today, open_positions, harvested_total>>

\* Mutant: a release of whatever the hash still holds, settled or not.
ReleaseUnchecked(r) ==
    /\ reservation[r].state \in {"held", "committed"}
    /\ deployed' = deployed - reservation[r].usd
    /\ cash' = cash + reservation[r].usd
    /\ pending' = pending - 1
    /\ token_exp' = [token_exp EXCEPT ![reservation[r].mint] = @ - reservation[r].usd]
    /\ trader_exp' = [trader_exp EXCEPT ![reservation[r].wallet] = @ - reservation[r].usd]
    /\ reservation' = [reservation EXCEPT ![r] = Gone]
    /\ UNCHANGED <<marks, realized_today, open_positions, harvested_total>>

\* RELEASE; NOT_FOUND and NOT_HELD change nothing.
Release(r) ==
    /\ reservation[r].state = "held"
    /\ deployed' = deployed - reservation[r].usd
    /\ cash' = cash + reservation[r].usd
    /\ pending' = pending - 1
    /\ token_exp' = [token_exp EXCEPT ![reservation[r].mint] = @ - reservation[r].usd]
    /\ trader_exp' = [trader_exp EXCEPT ![reservation[r].wallet] = @ - reservation[r].usd]
    /\ reservation' = [reservation EXCEPT ![r] = Gone]
    /\ UNCHANGED <<marks, realized_today, open_positions, harvested_total>>

\* Mutant: the token and trader exposures keep the estimate.
CommitTotalsOnly(r, actual) ==
    /\ reservation[r].state = "held"
    /\ deployed' = deployed + actual - reservation[r].usd
    /\ cash' = cash - (actual - reservation[r].usd)
    /\ pending' = pending - 1
    /\ open_positions' = open_positions + 1
    /\ reservation' = [reservation EXCEPT ![r].state = "committed", ![r].usd = actual]
    /\ UNCHANGED <<marks, realized_today, harvested_total, exposure>>

\* COMMIT: the filled value replaces the estimate; only a held reservation.
Commit(r, actual) ==
    /\ reservation[r].state = "held"
    /\ LET delta == actual - reservation[r].usd IN
       /\ deployed' = deployed + delta
       /\ cash' = cash - delta
       /\ token_exp' = [token_exp EXCEPT ![reservation[r].mint] = @ + delta]
       /\ trader_exp' = [trader_exp EXCEPT ![reservation[r].wallet] = @ + delta]
    /\ pending' = pending - 1
    /\ open_positions' = open_positions + 1
    /\ reservation' = [reservation EXCEPT ![r].state = "committed", ![r].usd = actual]
    /\ UNCHANGED <<marks, realized_today, harvested_total>>

\* A committed reservation's hash expires after a day.
Expire(r) ==
    /\ reservation[r].state = "committed"
    /\ reservation' = [reservation EXCEPT ![r] = Gone]
    /\ UNCHANGED <<marks, money, realized_today, counters, harvested_total, exposure>>

\* Mutant: everything below one dollar is dust.
ClampedBelowDollar(v) == IF v < Dollar THEN 0 ELSE v

\* Dust clamp of RELEASE_POSITION on the deployed total ...
Clamped(v) == IF v <= 0 /\ v > -Dollar THEN 0 ELSE v

\* ... and on an exposure field, which is deleted (reads 0) when not positive.
Dropped(v) == IF v <= 0 THEN 0 ELSE v

\* Mutant: a full close does not give its slot back.
ReleasePositionKeepsSlot(m, w, cost, pnl, proceeds, fully) ==
    /\ deployed' = Clamped(deployed - cost)
    /\ cash' = cash + proceeds
    /\ realized_today' = realized_today + pnl
    /\ token_exp' = [token_exp EXCEPT ![m] = Dropped(@ - cost)]
    /\ trader_exp' = [trader_exp EXCEPT ![w] = Dropped(@ - cost)]
    /\ UNCHANGED <<marks, counters, harvested_total, reservation>>

\* RELEASE_POSITION: no state of its own tells whether it was done before.
ReleasePosition(m, w, cost, pnl, proceeds, fully) ==
    /\ deployed' = Clamped(deployed - cost)
    /\ cash' = cash + proceeds
    /\ realized_today' = realized_today + pnl
    /\ token_exp' = [token_exp EXCEPT ![m] = Dropped(@ - cost)]
    /\ trader_exp' = [trader_exp EXCEPT ![w] = Dropped(@ - cost)]
    /\ open_positions' = IF fully THEN open_positions - 1 ELSE open_positions
    /\ UNCHANGED <<marks, pending, harvested_total, reservation>>

\* MARK: equity from the ledger's own cash and deployed, the caller's unrealised.
Mark(unreal) ==
    /\ unrealized' = unreal
    /\ equity' = cash + deployed + unreal
    /\ hwm' = IF cash + deployed + unreal > hwm THEN cash + deployed + unreal ELSE hwm
    /\ UNCHANGED <<money, realized_today, counters, harvested_total, exposure, reservation>>

ResetDaily ==
    /\ realized_today' = 0
    /\ UNCHANGED <<marks, money, counters, harvested_total, exposure, reservation>>

AddHarvest(amount) ==
    /\ cash' = cash - amount
    /\ harvested_total' = harvested_total + amount
    /\ UNCHANGED <<marks, deployed, realized_today, counters, exposure, reservation>>

=============================================================================
