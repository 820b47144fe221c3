------------------------------- MODULE Harvest -------------------------------
(***************************************************************************)
(* Profit harvesting: maybe_harvest reads the ledger, decides what profit  *)
(* to take, sends it to the treasury wallet, debits the ledger, moves the  *)
(* baseline and ratchets the profit lock.  Every one of these is a Redis   *)
(* command, a SQL commit or a chain call of its own.  It is called by the  *)
(* position service's timer and by the command line, in separate           *)
(* processes, while entries and exits change the same ledger.              *)
(* Amounts are whole units; the configured percentages divide them.        *)
(***************************************************************************)
EXTENDS Integers

CONSTANTS
    Harvesters,               \* processes that may call maybe_harvest
    Modes,                    \* what settings.is_live may be
    Capital,                  \* starting_capital_usd
    Stakes,                   \* sizes of the entries made meanwhile
    Results,                  \* realised P&L an exit may bring
    Unrealized,               \* unrealised P&L a tick may mark
    ThresholdPct, TakePct,    \* harvest_threshold_pct, harvest_take_pct
    MinActive,                \* min_active_capital_usd
    MaxDeployedPct,           \* max_portfolio_deployed_pct
    Gross,                    \* bound: where exits leave realised equity, what
                              \*   was harvested added back
    MaxCalls,                 \* bound: calls of maybe_harvest
    MaxFaults                 \* bound: crashes and lost confirmations

ASSUME HarvestAssumption ==
    /\ Modes \subseteq BOOLEAN
    /\ Capital \in Nat \ {0}
    /\ Stakes \subseteq Nat \ {0} /\ Results \subseteq Int /\ Unrealized \subseteq Int
    /\ ThresholdPct \in Nat /\ TakePct \in 0 .. 100 /\ MinActive \in Nat
    /\ MaxDeployedPct \in Nat
    /\ Gross \subseteq Int /\ MaxCalls \in Nat /\ MaxFaults \in Nat

VARIABLES
    live,                                   \* settings.is_live, read at start
    cash, deployed, unrealized, harvested,  \* fields of keys.risk_state
    equity,                                 \*   (same hash) as last marked
    baseline,                               \* asm:{mode}:harvest:baseline
    lock,                                   \* asm:{mode}:profit_lock
    h,                                      \* h[x]: harvester x's local state
    unbooked,                               \* ghost: what x's transfers moved, less
                                            \*   what x debited
    sends,                                  \* ghost: transfers since the baseline moved
    peakEquity, peakGross,                  \* ghosts: highest values reached
    raced,                                  \* ghost: what overlapped a harvest: another
                                            \*   "harvest", or an "entry"
    swallowed,                              \* ghost: unrealised losses by which a
                                            \*   harvest lowered the baseline
    calls,                                  \* calls so far
    faults                                  \* crashes and lost confirmations so far

book == <<cash, deployed, unrealized, harvested, equity>>
payments == <<unbooked, sends>>
peaks == <<peakEquity, peakGross>>
ghosts == <<payments, peaks, raced, swallowed>>
bounds == <<calls, faults>>
vars == <<live, book, baseline, lock, h, ghosts, bounds>>

NoBaseline == -1
Idle == [pc |-> "idle", cash |-> 0, total |-> 0, open |-> 0, amount |-> 0, floor |-> 0]

\* PortfolioState.total_equity_usd, and the equity a harvest is decided on.
TotalEquity == cash + deployed + unrealized
Realised == cash + deployed

\* A call in progress: where it stands, the snapshot it took (cash, total
\* equity, unrealised P&L), what it decided to send, the lock it will write.
Local == [pc : {"idle", "snapped", "nobase", "chosen", "submitted", "paid", "debited",
                "rebased", "weighed", "raising", "raise"},
          cash : Int, total : Int, open : Int, amount : Nat, floor : Int]

\* The book, the keys, the calls in progress and the ghosts are well typed;
\* capital in positions is never negative.
TypeOK ==
    /\ cash \in Int /\ deployed \in Nat /\ unrealized \in Int /\ harvested \in Nat
    /\ equity \in Int
    /\ baseline \in Int /\ lock \in Int
    /\ h \in [Harvesters -> Local]
    /\ unbooked \in [Harvesters -> Int] /\ sends \in Nat
    /\ peakEquity \in Int /\ peakGross \in Int
    /\ raced \subseteq {"harvest", "entry"} /\ swallowed \in Nat
    /\ calls \in Nat /\ faults \in Nat

Init ==
    /\ live \in Modes
    /\ cash = Capital /\ deployed = 0 /\ unrealized = 0 /\ harvested = 0
    /\ equity = Capital
    /\ baseline = NoBaseline /\ lock = 0
    /\ h = [x \in Harvesters |-> Idle]
    /\ unbooked = [x \in Harvesters |-> 0] /\ sends = 0
    /\ peakEquity = Capital /\ peakGross = Capital
    /\ raced = {} /\ swallowed = 0 /\ calls = 0 /\ faults = 0

\* The ghosts follow the book: the highest total equity, and the highest
\* realised equity with what was already harvested added back.
TrackPeaks ==
    /\ peakEquity' = IF TotalEquity' > peakEquity THEN TotalEquity' ELSE peakEquity
    /\ peakGross' = IF Realised' + harvested' > peakGross
                    THEN Realised' + harvested' ELSE peakGross

-----------------------------------------------------------------------------
(* Trading goes on meanwhile: the effect of RESERVE, RELEASE_POSITION and  *)
(* MARK on the fields a harvest reads.                                     *)

\* A call that has read the cash and not yet debited it.
Undebited == {"snapped", "nobase", "chosen", "submitted", "paid"}

Enter(size) ==
    /\ size <= cash
    /\ (deployed + size) * 100 <= MaxDeployedPct * equity
    /\ cash' = cash - size
    /\ deployed' = deployed + size
    /\ raced' = IF \E x \in Harvesters : h[x].pc \in Undebited THEN raced \cup {"entry"} ELSE raced
    /\ UNCHANGED <<unrealized, harvested, equity, baseline, lock, h, payments, swallowed,
                   bounds>>
    /\ TrackPeaks

Close(size, result) ==
    /\ size <= deployed
    /\ size + result >= 0
    /\ Realised + harvested + result \in Gross
    /\ deployed' = deployed - size
    /\ cash' = cash + size + result
    /\ UNCHANGED <<unrealized, harvested, equity, baseline, lock, h, payments, raced,
                   swallowed, bounds>>
    /\ TrackPeaks

Mark(u) ==
    /\ deployed = 0 => u = 0
    /\ unrealized' = u
    /\ equity' = Realised + u
    /\ UNCHANGED <<cash, deployed, harvested, baseline, lock, h, payments, raced, swallowed,
                   bounds>>
    /\ TrackPeaks

-----------------------------------------------------------------------------
(* Deciding *)

Larger(a, b) == IF a > b THEN a ELSE b

\* Mutant: the percentage is taken of the whole equity above zero.
AmountOfEquity(eq, free, base) ==
    LET wanted == (eq * TakePct) \div 100
    IN  IF base > 0 /\ (eq - base) * 100 >= ThresholdPct * base /\ wanted > 0
        THEN IF wanted <= free THEN wanted ELSE free
        ELSE 0

\* evaluate_harvest: what to send, 0 for nothing.  A share of the profit once
\* it has crossed the threshold, never below the active-capital floor, never
\* more than the free cash.
Amount(eq, free, base) ==
    LET share   == ((eq - base) * TakePct) \div 100
        floored == IF eq - share < MinActive THEN Larger(0, eq - MinActive) ELSE share
        capped  == IF floored <= free THEN floored ELSE free
    IN  IF base > 0 /\ (eq - base) * 100 >= ThresholdPct * base /\ capped > 0
        THEN capped
        ELSE 0

Goto(x, pc) == h' = [h EXCEPT ![x].pc = pc]
Return(x) == h' = [h EXCEPT ![x] = Idle]

\* ledger.snapshot().
Snapshot(x) ==
    /\ h[x].pc = "idle" /\ calls < MaxCalls
    /\ calls' = calls + 1
    /\ h' = [h EXCEPT ![x] = [pc |-> "snapped", cash |-> cash, total |-> TotalEquity,
                             open |-> unrealized, amount |-> 0, floor |-> 0]]
    /\ raced' = IF \E y \in Harvesters : h[y].pc # "idle" THEN raced \cup {"harvest"} ELSE raced
    /\ UNCHANGED <<book, baseline, lock, payments, peaks, swallowed, faults>>

\* The pure decision on the snapshot taken; nothing to send ends the call.
Decide(x, base) ==
    LET amount == Amount(h[x].total - h[x].open, h[x].cash, base)
    IN  IF amount = 0
        THEN Return(x)
        ELSE h' = [h EXCEPT ![x] = [pc |-> "chosen", cash |-> 0, total |-> h[x].total,
                                     open |-> h[x].open, amount |-> amount, floor |-> 0]]

\* _baseline: a missing key is initialised, in a second command, to the
\* starting capital.
ReadBaseline(x) ==
    /\ h[x].pc = "snapped"
    /\ IF baseline = NoBaseline THEN Goto(x, "nobase") ELSE Decide(x, baseline)
    /\ UNCHANGED <<book, baseline, lock, ghosts, bounds>>

InitBaseline(x) ==
    /\ h[x].pc = "nobase"
    /\ baseline' = Capital
    /\ Decide(x, Capital)
    /\ UNCHANGED <<book, lock, ghosts, bounds>>

-----------------------------------------------------------------------------
(* Treasury.transfer *)

Landed(x) ==
    /\ unbooked' = [unbooked EXCEPT ![x] = @ + h[x].amount]
    /\ sends' = sends + 1

\* Paper and shadow: the transfer is recorded, not sent.
SimulateTransfer(x) ==
    /\ ~live /\ h[x].pc = "chosen"
    /\ Landed(x) /\ Goto(x, "paid")
    /\ UNCHANGED <<book, baseline, lock, peaks, raced, swallowed, bounds>>

\* No destination, no SOL price, the gas reserve, the signer or the send
\* refuses: TreasuryTransferError, and the call ends with the baseline kept.
RefuseTransfer(x) ==
    /\ h[x].pc = "chosen"
    /\ Return(x)
    /\ UNCHANGED <<book, baseline, lock, ghosts, bounds>>

\* Live: send_transaction has broadcast the transfer.
SendSol(x) ==
    /\ live /\ h[x].pc = "chosen"
    /\ Goto(x, "submitted")
    /\ UNCHANGED <<book, baseline, lock, ghosts, bounds>>

ConfirmTransfer(x) ==
    /\ h[x].pc = "submitted"
    /\ Landed(x) /\ Goto(x, "paid")
    /\ UNCHANGED <<book, baseline, lock, peaks, raced, swallowed, bounds>>

\* The chain executed the transfer and it failed: nothing was moved.
OnChainError(x) ==
    /\ h[x].pc = "submitted"
    /\ Return(x)
    /\ UNCHANGED <<book, baseline, lock, ghosts, bounds>>

\* Mutant: a timed-out transfer is taken for a confirmed one.
TimeoutAsPaid(x) ==
    /\ h[x].pc = "submitted" /\ faults < MaxFaults
    /\ faults' = faults + 1
    /\ Landed(x) \/ UNCHANGED payments
    /\ Goto(x, "paid")
    /\ UNCHANGED <<book, baseline, lock, peaks, raced, swallowed, calls>>

\* confirm() gave up waiting: a TreasuryTransferError like any other, whether
\* or not the broadcast transfer lands.
ConfirmationTimeout(x) ==
    /\ h[x].pc = "submitted" /\ faults < MaxFaults
    /\ faults' = faults + 1
    /\ Landed(x) \/ UNCHANGED payments
    /\ Return(x)
    /\ UNCHANGED <<book, baseline, lock, peaks, raced, swallowed, calls>>

-----------------------------------------------------------------------------
(* Booking *)

\* ledger.add_harvest: one transaction, with no look at the cash there is now.
Debit(x) ==
    /\ h[x].pc = "paid"
    /\ cash' = cash - h[x].amount
    /\ harvested' = harvested + h[x].amount
    /\ unbooked' = [unbooked EXCEPT ![x] = @ - h[x].amount]
    /\ Goto(x, "debited")
    /\ UNCHANGED <<deployed, unrealized, equity, baseline, lock, sends, raced, swallowed,
                   bounds>>
    /\ TrackPeaks

\* Mutant: the baseline keeps its value after a harvest.
KeepBaseline(x) ==
    /\ h[x].pc = "debited"
    /\ Goto(x, "rebased")
    /\ UNCHANGED <<book, baseline, lock, ghosts, bounds>>

\* _set_baseline: the snapshot's total equity, unrealised P&L included, less
\* what was sent.
SetBaseline(x) ==
    /\ h[x].pc = "debited"
    /\ baseline' = h[x].total - h[x].amount
    /\ sends' = 0
    /\ swallowed' = swallowed + Larger(0, -h[x].open)
    /\ Goto(x, "rebased")
    /\ UNCHANGED <<book, lock, unbooked, peaks, raced, bounds>>

-----------------------------------------------------------------------------
(* ProfitLock.ratchet *)

Weigh(x) ==
    /\ h[x].pc = "rebased"
    /\ h' = [h EXCEPT ![x] = [pc |-> "weighed", cash |-> 0, total |-> TotalEquity,
                             open |-> 0, amount |-> 0, floor |-> 0]]
    /\ UNCHANGED <<book, baseline, lock, ghosts, bounds>>

\* The lock plus half of the equity above it.
RaisedLock(current, total) == current + (total - current) \div 2

ReadLock(x) ==
    /\ h[x].pc = "weighed"
    /\ IF h[x].total > lock
       THEN h' = [h EXCEPT ![x] = [pc |-> "raising", cash |-> 0, total |-> 0, open |-> 0,
                                    amount |-> 0, floor |-> RaisedLock(lock, h[x].total)]]
       ELSE Return(x)
    /\ UNCHANGED <<book, baseline, lock, ghosts, bounds>>

\* ProfitLock.set reads the lock again ...
CheckLock(x) ==
    /\ h[x].pc = "raising"
    /\ IF h[x].floor <= lock THEN Return(x) ELSE Goto(x, "raise")
    /\ UNCHANGED <<book, baseline, lock, ghosts, bounds>>

\* ... and writes it in another command.
WriteLock(x) ==
    /\ h[x].pc = "raise"
    /\ lock' = h[x].floor
    /\ Return(x)
    /\ UNCHANGED <<book, baseline, ghosts, bounds>>

\* The process dies or a command raises: the timer suppresses it and starts
\* over from the snapshot.
Crash(x) ==
    /\ h[x].pc # "idle" /\ faults < MaxFaults
    /\ faults' = faults + 1
    /\ Return(x)
    /\ UNCHANGED <<book, baseline, lock, ghosts, calls>>

Trade ==
    \/ \E size \in Stakes : Enter(size)
    \/ \E size \in Stakes, result \in Results : Close(size, result)
    \/ \E u \in Unrealized : Mark(u)

Harvesting(x) ==
    \/ Snapshot(x) \/ ReadBaseline(x) \/ InitBaseline(x)
    \/ SimulateTransfer(x) \/ RefuseTransfer(x)
    \/ SendSol(x) \/ ConfirmTransfer(x) \/ OnChainError(x) \/ ConfirmationTimeout(x)
    \/ Debit(x) \/ SetBaseline(x)
    \/ Weigh(x) \/ ReadLock(x) \/ CheckLock(x) \/ WriteLock(x)
    \/ Crash(x)

Next ==
    /\ Trade \/ \E x \in Harvesters : Harvesting(x)
    /\ UNCHANGED live

Spec == Init /\ [][Next]_vars

-----------------------------------------------------------------------------
(* Properties *)

\* No process books a harvest the treasury did not receive: what harvester x
\* has debited from the ledger never exceeds what its transfers moved, through
\* refusals, on-chain errors, lost confirmations and crashes (harvest.py: "The
\* transfer is the protection").
CountedOnlyIfSent == \A x \in Harvesters : unbooked[x] >= 0

\* The profit lock never stands above the highest equity the portfolio has
\* had, whoever ratchets it and however stale the equity was when weighed: a
\* floor above every level reached would lock capital that never existed.
LockBelowPeak == lock <= peakEquity

\* harvest.py: "Idempotent per baseline".  With one caller at a time, at most
\* one transfer is made before the baseline moves, and one more for each crash
\* or lost confirmation that came between a transfer and its baseline: the
\* next call starts over from a baseline that has not moved.
OncePerBaseline == "harvest" \notin raced => sends <= 1 + faults

\* harvest.py: "a round trip up and back down does not harvest twice on the
\* same dollars".  What has been taken in all would be at most the configured
\* share of the highest profit ever realised.  It does not hold: the baseline is
\* set to the total equity, unrealised P&L included, so a position under water
\* lowers it below profit that has been harvested already.
SameDollarsOnce ==
    "harvest" \notin raced /\ faults = 0 =>
        harvested * 100 <= TakePct * (peakGross - Capital)

\* What the code does keep, wherever positions are marked: one caller at a time
\* and nothing failing, what has been taken in all is at most the configured
\* share of the highest profit realised and of the unrealised losses by which
\* harvests lowered the baseline.
HarvestWithinShare ==
    "harvest" \notin raced /\ faults = 0 =>
        harvested * 100 <= TakePct * (peakGross - Capital + swallowed)

=============================================================================
