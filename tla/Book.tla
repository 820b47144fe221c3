-------------------------------- MODULE Book --------------------------------
(***************************************************************************)
(* What the risk ledger promises, without saying how: a book of entries,   *)
(* each free, a hold, a position or settled, and the money that has come   *)
(* in and gone out.  Nothing is counted as it goes: the cash, the capital  *)
(* at work, the exposure to a token or a trader and the number of entries  *)
(* are whatever the entries say at that moment; a grant is decided on them *)
(* and a reader is shown them.  The scripts of RiskLedger keep running     *)
(* totals instead: LedgerProtocol implements this book, and TradeLifecycle *)
(* does until an exit fails between the two stores.                        *)
(***************************************************************************)
EXTENDS Integers, FiniteSets, FiniteSetsExt

CONSTANTS
    Mints, Wallets, ResIds,
    Capital, Sizes, Fills, Proceeds, Unrealized, HarvestAmounts,
    MaxDailyLossPct, MaxDrawdownPct, MaxDeployedPct, MaxTokenPct, MaxTraderPct,
    MaxOpenPositions, MaxPending, MinPosition

VARIABLES
    entry,      \* entry[r]: what r commits of the capital, and to whom
    earned,     \* realised P&L
    today,      \* the same since the last midnight
    taken,      \* profit harvested
    marked,     \* the portfolio's value when it was last marked
    peak,       \* the highest value marked
    gate,       \* whether the system allows entries
    shown       \* what the ledger shows to whoever reads it

account == <<earned, today, taken>>
marks == <<marked, peak>>
vars == <<entry, account, marks, gate, shown>>

Free == [state |-> "free", usd |-> 0]
Settled == [state |-> "settled", usd |-> 0]
Entry(state, m, w, usd) == [state |-> state, mint |-> m, wallet |-> w, usd |-> usd]

Holds == {r \in ResIds : entry[r].state = "hold"}
Positions == {r \in ResIds : entry[r].state = "position"}
Committed == {r \in ResIds : entry[r].state \in {"hold", "position"}}

\* What a set of entries commits.
Usd == [r \in ResIds |-> entry[r].usd]
Total(S) == SumFunctionOnSet(Usd, S)

AtWork == Total(Committed)
InToken(m) == Total({r \in Committed : entry[r].mint = m})
WithTrader(w) == Total({r \in Committed : entry[r].wallet = w})
Worth == Capital + earned - taken
Cash == Worth - AtWork

\* The totals are those of the entries, and nothing else.
Statement == [cash |-> Cash, deployed |-> AtWork,
              token |-> [m \in Mints |-> InToken(m)],
              trader |-> [w \in Wallets |-> WithTrader(w)],
              positions |-> Cardinality(Positions), pending |-> Cardinality(Holds)]

Init ==
    /\ entry = [r \in ResIds |-> Free]
    /\ earned = 0 /\ today = 0 /\ taken = 0
    /\ marked = Capital /\ peak = Capital
    /\ gate \in BOOLEAN
    /\ shown = Statement

-----------------------------------------------------------------------------
\* No circuit breaker has tripped.
Calm ==
    /\ marked > 0
    /\ -today * 100 < MaxDailyLossPct * marked
    /\ peak > 0 => (peak - marked) * 100 < MaxDrawdownPct * peak

\* There is room for one more entry of this size.
Admits(m, w, size) ==
    /\ size >= MinPosition /\ size <= Cash
    /\ (AtWork + size) * 100 <= MaxDeployedPct * marked
    /\ (InToken(m) + size) * 100 <= MaxTokenPct * marked
    /\ (WithTrader(w) + size) * 100 <= MaxTraderPct * marked
    /\ Cardinality(Committed) < MaxOpenPositions
    /\ Cardinality(Holds) < MaxPending

Grant(r) ==
    /\ UNCHANGED <<account, marks, gate>>
    /\ gate /\ Calm
    /\ entry[r] = Free
    /\ \E m \in Mints, w \in Wallets, size \in Sizes :
          /\ entry' = [entry EXCEPT ![r] = Entry("hold", m, w, size)]
          /\ Admits(m, w, size)

\* A hold is given back ...
Withdraw(r) ==
    /\ UNCHANGED <<account, marks, gate>>
    /\ r \in Holds
    /\ entry' = [entry EXCEPT ![r] = Settled]

\* ... or becomes a position at the value it filled at.
Fill(r) ==
    /\ UNCHANGED <<account, marks, gate>>
    /\ r \in Holds
    /\ \E actual \in Fills :
          entry' = [entry EXCEPT ![r] = Entry("position", @.mint, @.wallet, actual)]

\* A position gives up part of its cost, or all of it and is settled.
Reduce(r) ==
    /\ UNCHANGED <<taken, marks, gate>>
    /\ r \in Positions
    /\ \E cost \in 1 .. entry[r].usd, proceeds \in Proceeds :
          /\ earned' = earned + proceeds - cost
          /\ today' = today + proceeds - cost
          /\ entry' = [entry EXCEPT ![r] =
                          IF cost = @.usd THEN Settled
                          ELSE Entry("position", @.mint, @.wallet, @.usd - cost)]

\* The portfolio is worth what was paid in, earned and not taken out, and
\* what the positions have gained.
Mark ==
    /\ UNCHANGED <<account, gate, entry>>
    /\ \E unreal \in Unrealized :
          /\ marked' = Worth + unreal
          /\ peak' = IF Worth + unreal > peak THEN Worth + unreal ELSE peak

Midnight ==
    /\ today' = 0
    /\ UNCHANGED <<earned, taken, marks, gate, entry>>

Harvest ==
    /\ UNCHANGED <<earned, today, marks, gate, entry>>
    /\ \E amount \in HarvestAmounts : taken' = taken + amount

\* Everything but the entries starts again, when there are none.
Restart ==
    /\ Committed = {}
    /\ earned' = 0 /\ today' = 0 /\ taken' = 0
    /\ marked' = Capital /\ peak' = Capital
    /\ UNCHANGED <<entry, gate>>

\* The system allows entries, or no longer does.
Switch ==
    /\ gate' \in BOOLEAN
    /\ UNCHANGED <<entry, account, marks>>

Next ==
    /\ \/ Mark \/ Midnight \/ Harvest \/ Restart \/ Switch
       \/ \E r \in ResIds : Grant(r) \/ Withdraw(r) \/ Fill(r) \/ Reduce(r)
    /\ shown' = Statement'

Spec == Init /\ [][Next]_vars

=============================================================================
