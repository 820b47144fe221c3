--------------------------- MODULE TradeLifecycle ---------------------------
(***************************************************************************)
(* A copied trade from reservation to exit, across the three processes     *)
(* that own a part of it: a decision-service worker enters, the position   *)
(* service exits, an emergency job liquidates.  They share the risk ledger *)
(* (Redis) and the positions table (SQL), which no transaction spans: each *)
(* Redis script and each SQL commit is a step, and a process may fail or   *)
(* crash between any two.  Orders are executed by an abstract executor:    *)
(* filled, failed, or (live only) submitted with an unknown outcome.       *)
(***************************************************************************)
EXTENDS RiskLedger

CONSTANTS
    Jobs,        \* emergency_exit_all jobs, queued by the API after a kill
    Units,       \* raw token amount an entry buys
    MaxFaults    \* bound: exceptions and crashes in a behaviour

ASSUME LifecycleAssumption ==
    /\ Units \in Nat \ {0}
    /\ \A fill \in Fills : fill > 0 /\ fill % Units = 0
    /\ MaxFaults \in Nat

VARIABLES
    worker,      \* worker[r]: the decision worker that entered under r
    row,         \* row[r]: the SQL position opened under r
    recon,       \* recon[r]: EXECUTION_RECONCILIATION_REQUIRED was recorded
    queued,      \* emergency jobs waiting for a worker
    exit,        \* exit[x][r]: exiter x's handling of position r
    released,    \* ghost: cost released from the ledger for position r
    raced,       \* ghost: positions two exiters have handled at the same time
    faults       \* exceptions and crashes so far

entryVars == <<worker, recon>>
ghosts == <<released, raced>>
exitVars == <<exit, queued, ghosts>>
vars == <<ledgerVars, sys, kill, worker, row, recon, exit, queued, released, raced, faults>>

PositionService == "position_service"
Exiters == {PositionService} \cup Jobs

NoWorker == [pc |-> "none", filled |-> 0]
NoRow == [status |-> "none", mint |-> "none", wallet |-> "none", amount |-> 0, cost |-> 0]
NoExit == [pc |-> "idle", amount |-> 0, cost |-> 0, sell |-> 0, proceeds |-> 0]

OpenRows == {r \in ResIds : row[r].status = "open"}

\* Every process's local state, the rows and the ledger are well typed.
TypeOK ==
    /\ KeysTypeOK
    /\ cash \in Int /\ deployed \in Int /\ open_positions \in Int /\ pending \in Nat
    /\ reservation \in [ResIds -> {Unborn, Gone} \cup Live]
    /\ worker \in [ResIds -> [pc : {"none", "reserved", "executing", "filled", "failed",
                                    "unknown", "booking", "done", "raised", "crashed"},
                              filled : Nat]]
    /\ \A r \in ResIds : row[r].status \in {"none", "open", "closed"} /\ row[r].amount \in Int
    /\ recon \in [ResIds -> BOOLEAN]
    /\ \A x \in Exiters, r \in ResIds :
          /\ exit[x][r].pc \in {"idle", "snapshot", "cleared", "sold", "reduced"}
          /\ exit[x][r].sell = 0 \/ exit[x][r].sell \in 1 .. exit[x][r].amount
    /\ queued \subseteq Jobs /\ raced \subseteq ResIds
    /\ faults \in 0 .. MaxFaults

Init ==
    /\ LedgerInit
    /\ KeysInit
    /\ worker = [r \in ResIds |-> NoWorker]
    /\ row = [r \in ResIds |-> NoRow]
    /\ recon = [r \in ResIds |-> FALSE]
    /\ exit = [x \in Exiters |-> [r \in ResIds |-> NoExit]]
    /\ queued = {}
    /\ released = [r \in ResIds |-> 0] /\ raced = {}
    /\ faults = 0

Fault == faults < MaxFaults /\ faults' = faults + 1

-----------------------------------------------------------------------------
(* Operator commands, as atomic steps; SystemControl has them in full. *)

StartTrading ==
    /\ SetState("running")
    /\ UNCHANGED <<ledgerVars, row, entryVars, exitVars, faults>>

\* POST /system/emergency-stop: kill, then queue the liquidation.
EmergencyStop ==
    /\ \E j \in Jobs : queued' = queued \cup {j}
    /\ kill' = TRUE /\ sys' = "killed"
    /\ UNCHANGED <<ledgerVars, row, entryVars, exit, ghosts, faults>>

ClearKill ==
    /\ kill
    /\ ClearLatch
    /\ UNCHANGED <<ledgerVars, row, entryVars, exitVars, faults>>

-----------------------------------------------------------------------------
(* Decision service: _handle_entry and _execute_entry *)

\* evaluate_entry ends with the atomic reservation.
Enter(r) ==
    /\ \E m \in Mints, w \in Wallets, size \in Sizes : Reserve(r, m, w, size)
    /\ worker' = [worker EXCEPT ![r].pc = "reserved"]
    /\ UNCHANGED <<keyVars, row, recon, exitVars, faults>>

\* save_decision and save_order commit.
SaveOrder(r) ==
    /\ worker[r].pc = "reserved"
    /\ worker' = [worker EXCEPT ![r].pc = "executing"]
    /\ UNCHANGED <<ledgerVars, keyVars, row, recon, exitVars, faults>>

\* executor.execute returns.
Execute(r) ==
    /\ worker[r].pc = "executing"
    /\ \/ \E fill \in Fills : worker' = [worker EXCEPT ![r] = [pc |-> "filled", filled |-> fill]]
       \/ \E outcome \in {"failed", "unknown"} : worker' = [worker EXCEPT ![r].pc = outcome]
    /\ UNCHANGED <<ledgerVars, keyVars, row, recon, exitVars, faults>>

\* Filled: the ledger is committed inside the still open SQL transaction ...
CommitFill(r) ==
    /\ worker[r].pc = "filled"
    /\ Commit(r, worker[r].filled)
    /\ worker' = [worker EXCEPT ![r].pc = "booking"]
    /\ UNCHANGED <<keyVars, row, recon, exitVars, faults>>

\* ... which then commits the position row.
BookPosition(r) ==
    /\ worker[r].pc = "booking"
    /\ row' = [row EXCEPT ![r] = [status |-> "open", mint |-> reservation[r].mint,
                                  wallet |-> reservation[r].wallet, amount |-> Units,
                                  cost |-> worker[r].filled]]
    /\ worker' = [worker EXCEPT ![r].pc = "done"]
    /\ UNCHANGED <<ledgerVars, keyVars, recon, exitVars, faults>>

\* Failed: the hold is released.
ReleaseHold(r) ==
    /\ worker[r].pc = "failed"
    /\ Release(r)
    /\ worker' = [worker EXCEPT ![r].pc = "done"]
    /\ UNCHANGED <<keyVars, row, recon, exitVars, faults>>

\* Submitted, outcome unknown: the hold stays and a risk event is recorded.
KeepHold(r) ==
    /\ worker[r].pc = "unknown"
    /\ recon' = [recon EXCEPT ![r] = TRUE]
    /\ worker' = [worker EXCEPT ![r].pc = "done"]
    /\ UNCHANGED <<ledgerVars, keyVars, row, exitVars, faults>>

\* A SQL commit or a provider raises; _worker logs it and takes the next
\* signal.  Nothing undoes the ledger.
EntryRaises(r) ==
    /\ worker[r].pc \in {"reserved", "executing", "filled", "failed", "unknown", "booking"}
    /\ worker' = [worker EXCEPT ![r].pc = "raised"]
    /\ Fault
    /\ UNCHANGED <<ledgerVars, keyVars, row, recon, exitVars>>

\* The decision service dies with every entry it was handling.
DecisionCrash ==
    /\ worker' = [r \in ResIds |-> IF worker[r].pc \in {"none", "done", "raised", "crashed"}
                                   THEN worker[r] ELSE [worker[r] EXCEPT !.pc = "crashed"]]
    /\ worker' # worker
    /\ Fault
    /\ UNCHANGED <<ledgerVars, keyVars, row, recon, exitVars>>

-----------------------------------------------------------------------------
(* Exits: PositionService._execute_exit and emergency _force_close *)

Snapshot(r) == [NoExit EXCEPT !.pc = "snapshot", !.amount = row[r].amount, !.cost = row[r].cost]

\* Exiter x reads every open position.
ReadOpen(x) ==
    /\ \A r \in ResIds : exit[x][r].pc = "idle"
    /\ exit' = [exit EXCEPT ![x] = [r \in ResIds |-> IF r \in OpenRows THEN Snapshot(r) ELSE NoExit]]
    /\ raced' = raced \cup {r \in OpenRows : \E y \in Exiters : exit[y][r].pc # "idle"}
    /\ UNCHANGED <<ledgerVars, keyVars, row, entryVars, released, faults>>

\* A tick begins by reading the positions; ticks do not overlap.
ReadTick ==
    /\ ReadOpen(PositionService)
    /\ UNCHANGED queued

\* So does a job, when a worker takes it, however late.
ReadJob(j) ==
    /\ j \in queued
    /\ ReadOpen(j)
    /\ queued' = queued \ {j}

\* The position service asks the controls before it exits; a job does not,
\* and closes one position after the other.
Authorise(x, r) ==
    /\ exit[x][r].pc = "snapshot"
    /\ x = PositionService => AllowsExits(EffectiveState(kill, sys))
    /\ x \in Jobs => \A s \in ResIds : exit[x][s].pc \in {"idle", "snapshot"}
    /\ exit' = [exit EXCEPT ![x][r].pc = "cleared"]
    /\ UNCHANGED <<ledgerVars, keyVars, row, entryVars, queued, ghosts, faults>>

\* What may be sold of a snapshot: a job sells everything, the position
\* service a part or everything.
SellAmounts(x, e) == IF x \in Jobs THEN {e.amount} ELSE 1 .. e.amount

\* The executor sells on behalf of the snapshot.
Sell(x, r) ==
    /\ exit[x][r].pc = "cleared"
    /\ \E sell \in SellAmounts(x, exit[x][r]), proceeds \in Proceeds :
          /\ sell > 0
          /\ exit' = [exit EXCEPT ![x][r].pc = "sold", ![x][r].sell = sell,
                                  ![x][r].proceeds = proceeds]
    /\ UNCHANGED <<ledgerVars, keyVars, row, entryVars, queued, ghosts, faults>>

\* No exit is due, exits are not allowed, or the sale failed.
NoSale(x, r) ==
    /\ exit[x][r].pc \in {"snapshot", "cleared"}
    /\ exit' = [exit EXCEPT ![x][r] = NoExit]
    /\ UNCHANGED <<ledgerVars, keyVars, row, entryVars, queued, ghosts, faults>>

Fully(e) == e.sell >= e.amount

\* realized_pnl: the share of the snapshot's cost basis that was sold.
CostReleased(e) == (e.cost * e.sell) \div e.amount

\* Mutant: a partial exit leaves the cost basis as it is.
ReducedKeepsCost(p, e) ==
    IF Fully(e) THEN [p EXCEPT !.status = "closed", !.amount = 0]
    ELSE [p EXCEPT !.status = "open", !.amount = @ - e.sell]

\* What is left of a position p after the sale of a snapshot.
Reduced(p, e) ==
    IF Fully(e) THEN [p EXCEPT !.status = "closed", !.amount = 0]
    ELSE [p EXCEPT !.status = "open", !.amount = @ - e.sell, !.cost = @ - CostReleased(e)]

\* repo.reduce_position commits: the row as it is NOW, by the snapshot's sale.
Reduce(x, r) ==
    LET e == exit[x][r] IN
    /\ e.pc = "sold"
    /\ row' = [row EXCEPT ![r] = Reduced(@, e)]
    /\ exit' = [exit EXCEPT ![x][r].pc = "reduced"]
    /\ UNCHANGED <<ledgerVars, keyVars, entryVars, queued, ghosts, faults>>

\* Mutant: the ledger is released whether or not the SQL commit came first.
SettleEarly(x, r) ==
    LET e == exit[x][r] IN
    /\ e.pc \in {"sold", "reduced"}
    /\ ReleasePosition(row[r].mint, row[r].wallet, CostReleased(e),
                       e.proceeds - CostReleased(e), e.proceeds, Fully(e))
    /\ released' = [released EXCEPT ![r] = @ + CostReleased(e)]
    /\ exit' = [exit EXCEPT ![x][r] = NoExit]
    /\ UNCHANGED <<keyVars, row, entryVars, queued, raced, faults>>

\* ledger.release_position, after the SQL commit.
Settle(x, r) ==
    LET e == exit[x][r] IN
    /\ e.pc = "reduced"
    /\ ReleasePosition(row[r].mint, row[r].wallet, CostReleased(e),
                       e.proceeds - CostReleased(e), e.proceeds, Fully(e))
    /\ released' = [released EXCEPT ![r] = @ + CostReleased(e)]
    /\ exit' = [exit EXCEPT ![x][r] = NoExit]
    /\ UNCHANGED <<keyVars, row, entryVars, queued, raced, faults>>

\* Handling one position raises; the tick or the job goes on without it.
ExitRaises(x, r) ==
    /\ exit[x][r].pc # "idle"
    /\ exit' = [exit EXCEPT ![x][r] = NoExit]
    /\ Fault
    /\ UNCHANGED <<ledgerVars, keyVars, row, entryVars, queued, ghosts>>

\* The exiting process dies: the service restarts, the job is run again.
ExiterCrash(x) ==
    /\ \E r \in ResIds : exit[x][r].pc # "idle"
    /\ exit' = [exit EXCEPT ![x] = [r \in ResIds |-> NoExit]]
    /\ queued' = queued \cup (Jobs \cap {x})
    /\ Fault
    /\ UNCHANGED <<ledgerVars, keyVars, row, entryVars, ghosts>>

\* The tick ends by marking the portfolio.
MarkTick ==
    /\ \A r \in ResIds : exit[PositionService][r].pc = "idle"
    /\ \E unreal \in Unrealized : Mark(unreal)
    /\ UNCHANGED <<keyVars, row, entryVars, exitVars, faults>>

-----------------------------------------------------------------------------
Next ==
    \/ StartTrading \/ EmergencyStop \/ ClearKill \/ DecisionCrash \/ ReadTick \/ MarkTick
    \/ \E r \in ResIds :
          \/ Enter(r) \/ SaveOrder(r) \/ Execute(r) \/ CommitFill(r) \/ BookPosition(r)
          \/ ReleaseHold(r) \/ KeepHold(r) \/ EntryRaises(r)
    \/ \E j \in Jobs : ReadJob(j)
    \/ \E x \in Exiters :
          \/ ExiterCrash(x)
          \/ \E r \in ResIds :
                \/ Authorise(x, r) \/ Sell(x, r) \/ NoSale(x, r) \/ Reduce(x, r) \/ Settle(x, r)
                \/ ExitRaises(x, r)

Spec == Init /\ [][Next]_vars

-----------------------------------------------------------------------------
(* Properties *)

\* The capital each entry still commits.
AtRisk == [r \in ResIds |-> IF r \in Held THEN reservation[r].usd
                            ELSE IF r \in OpenRows THEN row[r].cost ELSE 0]

\* The ledger never understates the risk on: whatever step a failure or a
\* crash hits, RESERVE decides on at least the capital that held reservations
\* and open positions commit, and on at least that many slots; as long as no
\* two exiters have handled one position at the same time.
LedgerNeverUnderstates ==
    raced = {} =>
        /\ deployed >= SumFunction(AtRisk)
        /\ open_positions >= Cardinality(OpenRows)

Quiescent ==
    /\ \A r \in ResIds : worker[r].pc \in {"none", "done"}
    /\ \A x \in Exiters, r \in ResIds : exit[x][r].pc \in {"idle", "snapshot"}

\* With nothing in flight, no failure and no overlap of two exiters, the two
\* stores agree exactly, emergency liquidations included.
StoresAgree ==
    Quiescent /\ faults = 0 /\ raced = {} =>
        /\ deployed = SumFunction(AtRisk)
        /\ open_positions = Cardinality(OpenRows)

\* ... and only an overlap of two exiters breaks that: exits that follow one
\* another, a job re-run after a crash at any step included, release at most
\* the cost of the position and never sell more than it holds.
SerialExitsAreSafe ==
    \A r \in ResIds \ raced : released[r] <= worker[r].filled /\ row[r].amount >= 0

\* Cost the row has given up and the ledger still shows, by the exits E.
Reducing(E, r) == {x \in Exiters : E[x][r].pc = "reduced"}
Due(E, r) == IF Reducing(E, r) = {} THEN 0
             ELSE CostReleased(E[CHOOSE x \in Reducing(E, r) : TRUE][r])

\* No two exiters overlapped, and no exit died between its SQL commit and its
\* release: the row's cost, what an exit has yet to release and what was
\* released are what the position cost.
NothingLost ==
    /\ raced = {}
    /\ \A r \in ResIds : row[r].status # "none" =>
          released[r] + (IF r \in OpenRows THEN row[r].cost ELSE 0) + Due(exit, r)
            = worker[r].filled

\* What the book has under each reservation: the ledger's view, where a filled
\* entry is a position until all its cost has been released.
Entries == [r \in ResIds |->
    IF reservation[r].state = "held" THEN [reservation[r] EXCEPT !.state = "hold"]
    ELSE IF reservation[r].state = "committed" /\ released[r] < reservation[r].usd
    THEN [reservation[r] EXCEPT !.state = "position", !.usd = @ - released[r]]
    ELSE [state |-> IF reservation[r] = Unborn THEN "free" ELSE "settled", usd |-> 0]]

BookOf == INSTANCE Book WITH
    HarvestAmounts <- {}, entry <- Entries, earned <- cash + deployed - Capital,
    today <- realized_today, taken <- 0, marked <- equity, peak <- hwm, gate <- EntriesOpen,
    shown <- [cash |-> cash, deployed |-> deployed, token |-> token_exp, trader |-> trader_exp,
              positions |-> open_positions, pending |-> pending]

\* The services use the ledger as its protocol has it, whatever fails: an entry
\* that raises or dies at any step leaves the book an entry it may keep, and
\* until an exit loses part of a cost between the two stores, every step is one
\* the book allows.
FollowsTheBook ==
    /\ BookOf!Init
    /\ [][NothingLost' => [BookOf!Next]_(BookOf!vars)]_vars

=============================================================================
