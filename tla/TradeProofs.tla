----------------------------- MODULE TradeProofs ----------------------------
(**************************************************************************)
(* A trade between the stores, and the order it sends to the network.     *)
(**************************************************************************)
EXTENDS TradeLifecycle, OrderExecution, FiniteSums

-----------------------------------------------------------------------------
(**************************************************************************)
(* The two stores of a trade, for any number of entries and emergency     *)
(* jobs, any amounts, and a failure or crash between any two commits:     *)
(* what the ledger shows of an entry covers its hold, its fill, and then  *)
(* the row's cost with what an exit has taken off the row and not yet     *)
(* released.                                                              *)
(**************************************************************************)

Row == [status : {"none", "open", "closed"}, mint : Mints \cup {"none"},
        wallet : Wallets \cup {"none"}, amount : Int, cost : Int]
ExitRecord == [pc : {"idle", "snapshot", "cleared", "sold", "reduced"},
               amount : Int, cost : Int, sell : Nat, proceeds : Nat]

\* What has been sold is more than nothing and at most the snapshot's amount.
SaleTyped(e) ==
    /\ e.sell = 0 \/ e.sell \in 1 .. e.amount
    /\ e.pc \in {"sold", "reduced"} => e.sell \in 1 .. e.amount

ExitsTyped ==
    /\ exit \in [Exiters -> [ResIds -> ExitRecord]]
    /\ \A x \in Exiters, r \in ResIds : SaleTyped(exit[x][r])

\* The records whole.
Typed ==
    /\ TypeOK
    /\ row \in [ResIds -> Row]
    /\ ExitsTyped
    /\ released \in [ResIds -> Int]

CommittedTo(r) == reservation[r].state = "committed"

\* Where an entry stands tells what its reservation and its row are.  A hold
\* outlives a worker that raised, and only a worker that never failed is sure
\* to have booked what it committed.
Stages ==
    \A r \in ResIds :
        /\ reservation[r].state = "unborn" <=> worker[r].pc = "none"
        /\ worker[r].pc \in {"reserved", "executing", "filled", "failed", "unknown"} =>
               r \in Held
        /\ worker[r].pc = "booking" => CommittedTo(r)
        /\ CommittedTo(r) => /\ worker[r].pc \in {"booking", "done", "raised", "crashed"}
                             /\ worker[r].filled = reservation[r].usd
        /\ row[r].status # "none" <=> CommittedTo(r) /\ worker[r].pc = "done"
        /\ worker[r].pc \in {"raised", "crashed"} => faults > 0
        /\ \A x \in Exiters : exit[x][r].pc # "idle" => row[r].status # "none"

\* RESERVE's pending counter counts the holds.
HoldsCounted == pending = Cardinality(Held)

\* What an exit knows of its position while nobody else handles it.
SeesRow(e, p) ==
    /\ e.pc \in {"snapshot", "cleared", "sold"} =>
           p.status = "open" /\ p.amount = e.amount /\ p.cost = e.cost
    /\ e.pc \in {"sold", "reduced"} => e.cost \in Nat
    /\ e.pc = "reduced" => p.status = IF Fully(e) THEN "closed" ELSE "open"

\* A position that two exiters never handled at once is handled by one at most,
\* on an exact snapshot.
Serial ==
    \A r \in ResIds \ raced :
        /\ row[r].amount \in Nat /\ row[r].cost \in Nat
        /\ \A x \in Exiters : SeesRow(exit[x][r], row[r])
        /\ \A x, y \in Exiters : exit[x][r].pc # "idle" /\ exit[y][r].pc # "idle" => x = y

\* What the ledger has to show for an entry: its hold, its fill until the row
\* shows it, then the row's cost and what is due.
RiskOf(v, p, due) ==
    IF v.state = "held" THEN v.usd
    ELSE IF v.state # "committed" THEN 0
    ELSE IF p.status = "none" THEN v.usd
    ELSE IF p.status = "open" THEN p.cost + due ELSE due

Risk == [r \in ResIds |-> RiskOf(reservation[r], row[r], Due(exit, r))]

\* A slot is taken from the commit until a full exit is settled.
TakesSlot(v, p, E, r) ==
    v.state = "committed" /\ (p.status = "closed" => \E x \in Reducing(E, r) : Fully(E[x][r]))

Slotted == {r \in ResIds : TakesSlot(reservation[r], row[r], exit, r)}

\* Releases never exceed what was filled.
Spent == \A r \in ResIds \ raced :
             released[r] \in Nat /\ (CommittedTo(r) => released[r] + Risk[r] <= worker[r].filled)
                                 /\ (~CommittedTo(r) => released[r] = 0)

\* The ledger covers the risk on and the slots taken; it exceeds them only by
\* what a failure left behind.
Covered ==
    raced = {} =>
        /\ deployed >= SumFunction(Risk) /\ open_positions >= Cardinality(Slotted)
        /\ faults = 0 => deployed = SumFunction(Risk) /\ open_positions = Cardinality(Slotted)

IInv == Typed /\ HoldsCounted /\ Stages /\ Serial /\ Spent /\ Covered

-----------------------------------------------------------------------------
(* Types and stages *)

WorkerRecord ==
    [pc : {"none", "reserved", "executing", "filled", "failed",
           "unknown", "booking", "done", "raised", "crashed"}, filled : Nat]

\* Holds are finitely many.
LEMMA HoldsFinite ==
    /\ IsFiniteSet(Held) /\ Cardinality(Held) \in Nat
    /\ \A r \in Held : Cardinality(Held) \in Nat \ {0}
<1>1. IsFiniteSet(Held)
  BY LedgerAssumption, FS_Subset DEF Held
<1>2. Cardinality(Held) \in Nat
  BY <1>1, FS_CardinalityType
<1>3. ASSUME NEW r \in Held PROVE Cardinality(Held) # 0
  BY <1>1, <1>3, FS_EmptySet
<1> QED
  BY <1>1, <1>2, <1>3

\* A reservation that is held or committed is a record of the four fields.
LEMMA LiveWhenSettled ==
    ASSUME Typed, NEW r \in ResIds, reservation[r].state \in {"held", "committed"}
    PROVE  /\ reservation[r] \in Live
           /\ reservation[r].mint \in Mints /\ reservation[r].wallet \in Wallets
           /\ reservation[r].usd \in Nat
  BY DEF Typed, TypeOK, Unborn, Gone, Live

\* Entry steps that leave the ledger alone.
LEMMA WorkerTyped ==
    ASSUME Typed, NEW r \in ResIds,
           \/ SaveOrder(r) \/ Execute(r) \/ KeepHold(r) \/ EntryRaises(r) \/ DecisionCrash
    PROVE  Typed'
<1>1. worker \in [ResIds -> WorkerRecord]
  BY DEF Typed, TypeOK, WorkerRecord
<1>2. worker' \in [ResIds -> WorkerRecord]
  <2>1. CASE SaveOrder(r) \/ KeepHold(r) \/ EntryRaises(r)
    BY <1>1, <2>1 DEF SaveOrder, KeepHold, EntryRaises, WorkerRecord
  <2>2. CASE Execute(r)
    BY <1>1, <2>2, LedgerAssumption DEF Execute, WorkerRecord
  <2>3. CASE DecisionCrash
    BY <1>1, <2>3 DEF DecisionCrash, WorkerRecord
  <2> QED
    BY <2>1, <2>2, <2>3
<1>3. faults' \in 0 .. MaxFaults
  <2>1. MaxFaults \in Nat /\ faults \in 0 .. MaxFaults
    BY LifecycleAssumption DEF Typed, TypeOK
  <2> QED
    BY <2>1 DEF SaveOrder, Execute, KeepHold, EntryRaises, DecisionCrash, Fault
<1>4. recon' \in [ResIds -> BOOLEAN]
  BY DEF Typed, TypeOK, SaveOrder, Execute, KeepHold, EntryRaises, DecisionCrash
<1>5. UNCHANGED <<ledgerVars, keyVars, row, exitVars>>
  BY DEF SaveOrder, Execute, KeepHold, EntryRaises, DecisionCrash
<1> QED
  BY <1>2, <1>3, <1>4, <1>5
     DEF Typed, TypeOK, ExitsTyped, WorkerRecord, keyVars, exitVars, ghosts, KeysTypeOK, ledgerVars

\* Entry steps that move the ledger or book the row.
LEMMA StoreTyped ==
    ASSUME Typed, Stages, HoldsCounted, NEW r \in ResIds,
           \/ Enter(r) \/ CommitFill(r) \/ BookPosition(r) \/ ReleaseHold(r)
    PROVE  Typed'
<1>1. worker \in [ResIds -> WorkerRecord]
  BY DEF Typed, TypeOK, WorkerRecord
<1>2. worker' \in [ResIds -> WorkerRecord]
  BY <1>1 DEF Enter, CommitFill, BookPosition, ReleaseHold, WorkerRecord
<1> USE DEF Typed, TypeOK, ExitsTyped, keyVars, exitVars, ghosts, KeysTypeOK
<1>3. CASE Enter(r)
  <2> PICK m \in Mints, w \in Wallets, size \in Sizes : Reserve(r, m, w, size)
    BY <1>3 DEF Enter
  <2>1. size \in Nat
    BY LedgerAssumption
  <2>2. deployed' \in Int /\ cash' \in Int /\ open_positions' \in Int /\ pending' \in Nat
    BY <2>1 DEF Reserve
  <2>3. reservation' \in [ResIds -> {Unborn, Gone} \cup Live]
    BY <2>1 DEF Reserve, Live
  <2>4. UNCHANGED <<keyVars, row, recon, exitVars, faults>>
    BY <1>3 DEF Enter
  <2> QED
    BY <1>2, <2>2, <2>3, <2>4 DEF WorkerRecord
<1>4. CASE CommitFill(r)
  <2>1. Commit(r, worker[r].filled) /\ worker[r].filled \in Nat
    BY <1>4 DEF CommitFill
  <2>2. reservation[r] \in Live /\ reservation[r].usd \in Nat
    BY <2>1, LiveWhenSettled DEF Commit
  <2>3. reservation' \in [ResIds -> {Unborn, Gone} \cup Live]
    BY <2>1, <2>2 DEF Commit, Live
  <2>4. pending \in Nat \ {0}
    BY <2>1, HoldsFinite DEF HoldsCounted, Commit, Held
  <2>5. deployed' \in Int /\ cash' \in Int /\ open_positions' \in Int /\ pending' \in Nat
    <3> DEFINE d == worker[r].filled - reservation[r].usd
    <3>1. d \in Int
      BY <2>1, <2>2
    <3>2. /\ deployed' = deployed + d /\ cash' = cash - d
          /\ open_positions' = open_positions + 1 /\ pending' = pending - 1
      BY <2>1 DEF Commit
    <3> HIDE DEF d
    <3> QED
      BY <2>4, <3>1, <3>2
  <2>6. UNCHANGED <<keyVars, row, recon, exitVars, faults>>
    BY <1>4 DEF CommitFill
  <2> QED
    BY <1>2, <2>3, <2>5, <2>6 DEF WorkerRecord
<1>5. CASE ReleaseHold(r)
  <2>1. Release(r)
    BY <1>5 DEF ReleaseHold
  <2>2. reservation[r].usd \in Nat
    BY <2>1, LiveWhenSettled DEF Release
  <2>3. reservation' \in [ResIds -> {Unborn, Gone} \cup Live]
    BY <2>1 DEF Release
  <2>4. pending \in Nat \ {0}
    BY <2>1, HoldsFinite DEF HoldsCounted, Release, Held
  <2>5. deployed' \in Int /\ cash' \in Int /\ open_positions' \in Int /\ pending' \in Nat
    BY <2>1, <2>2, <2>4 DEF Release
  <2>6. UNCHANGED <<keyVars, row, recon, exitVars, faults>>
    BY <1>5 DEF ReleaseHold
  <2> QED
    BY <1>2, <2>3, <2>5, <2>6 DEF WorkerRecord
<1>6. CASE BookPosition(r)
  <2>1. reservation[r].mint \in Mints /\ reservation[r].wallet \in Wallets
    BY <1>6, LiveWhenSettled DEF BookPosition, Stages, CommittedTo
  <2>2. worker[r].filled \in Nat /\ Units \in Nat
    BY LifecycleAssumption
  <2>3. row' \in [ResIds -> Row]
    BY <1>6, <2>1, <2>2 DEF BookPosition, Row
  <2>4. UNCHANGED <<ledgerVars, keyVars, recon, exitVars, faults>>
    BY <1>6 DEF BookPosition
  <2>5. \A x \in ResIds : row'[x].status \in {"none", "open", "closed"} /\ row'[x].amount \in Int
    BY <2>3 DEF Row
  <2> QED
    BY <1>2, <2>3, <2>4, <2>5 DEF WorkerRecord, ledgerVars
<1> QED
  BY <1>3, <1>4, <1>5, <1>6

\* The cost released is a share of the cost basis; all of it for a full exit.
LEMMA CostShare ==
    ASSUME NEW e \in ExitRecord, e.sell \in 1 .. e.amount
    PROVE  /\ CostReleased(e) \in Int
           /\ e.cost \in Nat => CostReleased(e) \in 0 .. e.cost
           /\ e.cost \in Nat /\ Fully(e) => CostReleased(e) = e.cost
<1> DEFINE c == e.cost  s == e.sell  a == e.amount
<1>1. c \in Int /\ a \in Nat \ {0} /\ s \in 1 .. a
  BY DEF ExitRecord
<1>2. CostReleased(e) = (c * s) \div a /\ (Fully(e) <=> s >= a)
  BY DEF CostReleased, Fully
<1> HIDE DEF c, s, a
<1>3. c * s \in Int
  BY <1>1
<1>4. ASSUME NEW n \in Int PROVE n \div a \in Int
  BY <1>1
<1>5. ASSUME c \in Nat PROVE (c * s) \div a \in 0 .. c
  <2>1. c * s <= c * a /\ 0 <= c * s
    BY <1>1, <1>5
  <2>2. ASSUME NEW n \in Int, 0 <= n, n <= c * a PROVE n \div a \in 0 .. c
    BY <1>1, <1>5, <2>2
  <2> QED
    BY <1>3, <2>1, <2>2
<1>6. ASSUME c \in Nat PROVE (c * a) \div a = c
  BY <1>1, <1>6
<1>7. s >= a => s = a
  BY <1>1
<1> QED
  BY <1>2, <1>3, <1>4, <1>5, <1>6, <1>7 DEF c

LEMMA NoExitTyped == NoExit \in ExitRecord /\ NoExit.pc = "idle" /\ SaleTyped(NoExit)
  BY DEF NoExit, ExitRecord, SaleTyped

\* A well typed exit in place of another.
LEMMA OneExitTyped ==
    ASSUME ExitsTyped, NEW x \in Exiters, NEW r \in ResIds,
           NEW e \in ExitRecord, SaleTyped(e), exit' = [exit EXCEPT ![x][r] = e]
    PROVE  ExitsTyped'
  BY DEF ExitsTyped

\* The three steps of an exit before anything is booked.
LEMMA SaleStepTyped ==
    ASSUME ExitsTyped, NEW x \in Exiters, NEW r \in ResIds,
           Authorise(x, r) \/ Sell(x, r) \/ NoSale(x, r)
    PROVE  \E e \in ExitRecord : /\ SaleTyped(e) /\ exit' = [exit EXCEPT ![x][r] = e]
                                 /\ e.pc = "idle" \/
                                      /\ e.pc \in {"cleared", "sold"}
                                      /\ exit[x][r].pc \in {"snapshot", "cleared"}
                                      /\ e.amount = exit[x][r].amount /\ e.cost = exit[x][r].cost
<1> DEFINE old == exit[x][r]
<1>0. old \in ExitRecord /\ SaleTyped(old)
  BY DEF ExitsTyped
<1>1. CASE Authorise(x, r)
  <2> DEFINE e == [old EXCEPT !.pc = "cleared"]
  <2>1. exit' = [exit EXCEPT ![x][r] = e]
    BY <1>1 DEF Authorise, ExitsTyped
  <2>2. e \in ExitRecord /\ e.sell = old.sell /\ e.amount = old.amount /\ e.pc = "cleared" /\ e.cost = old.cost
    BY <1>0 DEF ExitRecord
  <2>3. SaleTyped(e)
    BY <1>0, <2>2 DEF SaleTyped
  <2>4. old.pc = "snapshot"
    BY <1>1 DEF Authorise
  <2> HIDE DEF e
  <2> QED
    BY <2>1, <2>2, <2>3, <2>4
<1>2. CASE Sell(x, r)
  <2>1. PICK sell \in SellAmounts(x, old), proceeds \in Proceeds :
           /\ sell > 0
           /\ exit' = [exit EXCEPT ![x][r].pc = "sold", ![x][r].sell = sell,
                                   ![x][r].proceeds = proceeds]
    BY <1>2 DEF Sell
  <2> DEFINE e == [old EXCEPT !.pc = "sold", !.sell = sell, !.proceeds = proceeds]
  <2>2. old.amount \in Int /\ old.cost \in Int
    BY <1>0 DEF ExitRecord
  <2>4. exit' = [exit EXCEPT ![x][r] = e]
    BY <2>1 DEF ExitsTyped
  <2>5. sell \in 1 .. old.amount /\ sell \in Nat /\ proceeds \in Nat
    BY <2>1, <2>2, LedgerAssumption DEF SellAmounts
  <2>6. e.pc = "sold" /\ e.sell = sell /\ e.amount = old.amount /\ e.cost = old.cost
    BY <1>0 DEF ExitRecord
  <2>7. e \in ExitRecord
    BY <1>0, <2>5 DEF ExitRecord
  <2>8. SaleTyped(e)
    BY <2>5, <2>6 DEF SaleTyped
  <2>9. old.pc = "cleared"
    BY <1>2 DEF Sell
  <2> HIDE DEF e
  <2> QED
    BY <2>4, <2>6, <2>7, <2>8, <2>9
<1>3. CASE NoSale(x, r)
  BY <1>3, NoExitTyped DEF NoSale
<1> QED
  BY <1>1, <1>2, <1>3

\* Exit steps that only move the exiters' own state.
LEMMA ExiterTyped ==
    ASSUME Typed, NEW x \in Exiters,
           \/ ReadOpen(x) \/ ExiterCrash(x)
           \/ \E r \in ResIds :
                 Authorise(x, r) \/ Sell(x, r) \/ NoSale(x, r) \/ ExitRaises(x, r),
           queued' \subseteq Jobs
    PROVE  Typed'
<1>1. ExitsTyped'
  <2> USE DEF Typed
  <2>1. CASE ReadOpen(x)
    <3>1. ASSUME NEW s \in ResIds PROVE Snapshot(s) \in ExitRecord /\ SaleTyped(Snapshot(s))
      BY DEF Snapshot, NoExit, ExitRecord, SaleTyped, Row
    <3> DEFINE f == [s \in ResIds |-> IF s \in OpenRows THEN Snapshot(s) ELSE NoExit]
    <3>2. f \in [ResIds -> ExitRecord] /\ \A s \in ResIds : SaleTyped(f[s])
      BY <3>1, NoExitTyped
    <3>3. exit' = [exit EXCEPT ![x] = f]
      BY <2>1 DEF ReadOpen
    <3> HIDE DEF f
    <3> QED
      BY <3>2, <3>3 DEF ExitsTyped
  <2>2. CASE ExiterCrash(x)
    <3> DEFINE f == [s \in ResIds |-> NoExit]
    <3>1. f \in [ResIds -> ExitRecord] /\ \A s \in ResIds : SaleTyped(f[s])
      BY NoExitTyped
    <3>2. exit' = [exit EXCEPT ![x] = f]
      BY <2>2 DEF ExiterCrash
    <3> HIDE DEF f
    <3> QED
      BY <3>1, <3>2 DEF ExitsTyped
  <2>3. ASSUME NEW r \in ResIds, ExitRaises(x, r) PROVE ExitsTyped'
    <3>1. exit' = [exit EXCEPT ![x][r] = NoExit]
      BY <2>3 DEF ExitRaises
    <3> QED
      BY <3>1, OneExitTyped, NoExitTyped
  <2> QED
    BY <2>1, <2>2, <2>3, SaleStepTyped, OneExitTyped
<1>2. raced' \subseteq ResIds /\ released' = released
  BY DEF Typed, TypeOK, ReadOpen, OpenRows, Authorise, Sell, NoSale, ExitRaises, ExiterCrash, ghosts
<1>3. faults' \in 0 .. MaxFaults
  <2>1. MaxFaults \in Nat /\ faults \in 0 .. MaxFaults
    BY LifecycleAssumption DEF Typed, TypeOK
  <2>2. faults' = faults \/ Fault
    BY DEF ReadOpen, Authorise, Sell, NoSale, ExitRaises, ExiterCrash
  <2> QED
    BY <2>1, <2>2 DEF Fault
<1>4. ASSUME NEW y \in Exiters, NEW s \in ResIds
      PROVE  /\ exit'[y][s].pc \in {"idle", "snapshot", "cleared", "sold", "reduced"}
             /\ exit'[y][s].sell = 0 \/ exit'[y][s].sell \in 1 .. exit'[y][s].amount
  BY <1>1 DEF ExitsTyped, SaleTyped, ExitRecord
<1>5. UNCHANGED <<ledgerVars, keyVars, row, entryVars>>
  BY DEF ReadOpen, Authorise, Sell, NoSale, ExitRaises, ExiterCrash
<1>6. /\ KeysTypeOK' /\ reservation' \in [ResIds -> {Unborn, Gone} \cup Live]
      /\ cash' \in Int /\ deployed' \in Int /\ open_positions' \in Int /\ pending' \in Nat
      /\ worker' = worker /\ recon' = recon /\ row' = row
  BY <1>5 DEF Typed, TypeOK, KeysTypeOK, keyVars, ledgerVars, entryVars
<1> QED
  BY <1>1, <1>2, <1>3, <1>4, <1>6 DEF Typed, TypeOK

\* What a sale leaves of a row.
LEMMA ReducedTyped ==
    ASSUME NEW p \in Row, NEW e, e.sell \in Nat, CostReleased(e) \in Int
    PROVE  /\ Reduced(p, e) \in Row
           /\ Reduced(p, e).status = IF Fully(e) THEN "closed" ELSE "open"
           /\ Reduced(p, e).amount = IF Fully(e) THEN 0 ELSE p.amount - e.sell
           /\ Reduced(p, e).cost = IF Fully(e) THEN p.cost ELSE p.cost - CostReleased(e)
<1>1. p.amount \in Int /\ p.cost \in Int
  BY DEF Row
<1>2. p.amount - e.sell \in Int /\ p.cost - CostReleased(e) \in Int
  BY <1>1
<1>3. CASE Fully(e)
  <2> DEFINE z == 0  q == [p EXCEPT !.status = "closed", !.amount = z]
  <2>1. Reduced(p, e) = q
    BY <1>3, Zenon DEF Reduced
  <2>2. z \in Int
    OBVIOUS
  <2> HIDE DEF z
  <2>3. q \in Row /\ q.status = "closed" /\ q.amount = z /\ q.cost = p.cost
    BY <2>2 DEF Row
  <2> HIDE DEF q
  <2> QED
    BY <1>3, <2>1, <2>3 DEF z
<1>4. CASE ~Fully(e)
  <2> DEFINE a == p.amount - e.sell  c == p.cost - CostReleased(e)
             q == [p EXCEPT !.status = "open", !.amount = a, !.cost = c]
  <2>1. Reduced(p, e) = q
    BY <1>4, Zenon DEF Reduced
  <2>2. a \in Int /\ c \in Int
    BY <1>2
  <2> HIDE DEF a, c
  <2>3. q \in Row /\ q.status = "open" /\ q.amount = a /\ q.cost = c
    BY <2>2 DEF Row
  <2> HIDE DEF q
  <2> QED
    BY <1>4, <2>1, <2>3 DEF a, c
<1> QED
  BY <1>3, <1>4

\* Booking a sale, in the row and then in the ledger.
LEMMA BookingTyped ==
    ASSUME Typed, NEW x \in Exiters, NEW r \in ResIds, Reduce(x, r) \/ Settle(x, r)
    PROVE  Typed'
<1> DEFINE e == exit[x][r]
<1>1. /\ e \in ExitRecord /\ SaleTyped(e) /\ e.pc \in {"sold", "reduced"}
      /\ e.sell \in 1 .. e.amount /\ e.sell \in Nat /\ e.proceeds \in Nat
  BY DEF Typed, ExitsTyped, ExitRecord, SaleTyped, Reduce, Settle
<1>2. CostReleased(e) \in Int
  BY <1>1, CostShare
<1>3. CASE Reduce(x, r)
  <2>1. row \in [ResIds -> Row] /\ row' = [row EXCEPT ![r] = Reduced(row[r], e)]
    BY <1>3 DEF Reduce, Typed
  <2>2. Reduced(row[r], e) \in Row
    BY <1>1, <1>2, <2>1, ReducedTyped
  <2>3. row' \in [ResIds -> Row]
    BY <2>1, <2>2
  <2>4. \A y \in ResIds : row'[y].status \in {"none", "open", "closed"} /\ row'[y].amount \in Int
    BY <2>3 DEF Row
  <2> DEFINE new == [e EXCEPT !.pc = "reduced"]
  <2>5. new \in ExitRecord /\ SaleTyped(new) /\ exit' = [exit EXCEPT ![x][r] = new]
    <3>1. new \in ExitRecord /\ new.pc = "reduced" /\ new.sell = e.sell /\ new.amount = e.amount
      BY <1>1 DEF ExitRecord
    <3>2. exit' = [exit EXCEPT ![x][r] = new]
      BY <1>3 DEF Reduce, Typed, ExitsTyped
    <3> HIDE DEF new
    <3> QED
      BY <1>1, <3>1, <3>2 DEF SaleTyped
  <2> HIDE DEF new
  <2>6. ExitsTyped'
    BY <2>5, OneExitTyped DEF Typed
  <2>7. \A y \in Exiters, q \in ResIds :
          /\ exit'[y][q].pc \in {"idle", "snapshot", "cleared", "sold", "reduced"}
          /\ exit'[y][q].sell = 0 \/ exit'[y][q].sell \in 1 .. exit'[y][q].amount
    BY <2>6 DEF ExitsTyped, SaleTyped, ExitRecord
  <2>8. UNCHANGED <<ledgerVars, keyVars, entryVars, queued, ghosts, faults>>
    BY <1>3 DEF Reduce
  <2> QED
    BY <2>3, <2>4, <2>6, <2>7, <2>8
       DEF Typed, TypeOK, KeysTypeOK, keyVars, ledgerVars, entryVars, ghosts
<1>4. CASE Settle(x, r)
  <2>1. ReleasePosition(row[r].mint, row[r].wallet, CostReleased(e),
                       e.proceeds - CostReleased(e), e.proceeds, Fully(e))
    BY <1>4 DEF Settle
  <2>2. /\ exit' = [exit EXCEPT ![x][r] = NoExit]
        /\ released' = [released EXCEPT ![r] = @ + CostReleased(e)]
        /\ UNCHANGED <<keyVars, row, entryVars, queued, raced, faults>>
    BY <1>4 DEF Settle
  <2>3. ExitsTyped'
    BY <2>2, NoExitTyped, OneExitTyped DEF Typed
  <2>4. \A y \in Exiters, q \in ResIds :
          /\ exit'[y][q].pc \in {"idle", "snapshot", "cleared", "sold", "reduced"}
          /\ exit'[y][q].sell = 0 \/ exit'[y][q].sell \in 1 .. exit'[y][q].amount
    BY <2>3 DEF ExitsTyped, SaleTyped, ExitRecord
  <2> DEFINE c == CostReleased(e)
  <2>5. /\ deployed' = Clamped(deployed - c) /\ cash' = cash + e.proceeds
        /\ open_positions' = open_positions \/ open_positions' = open_positions - 1
        /\ UNCHANGED <<pending, reservation>>
    BY <2>1 DEF ReleasePosition
  <2>6. deployed \in Int /\ cash \in Int /\ open_positions \in Int /\ released \in [ResIds -> Int]
    BY DEF Typed, TypeOK
  <2>7. released' \in [ResIds -> Int]
    BY <1>2, <2>2, <2>6
  <2> HIDE DEF c, e
  <2>8. deployed' \in Int /\ cash' \in Int /\ open_positions' \in Int
    BY <1>1, <1>2, <2>5, <2>6 DEF Clamped, c
  <2> QED
    BY <2>2, <2>3, <2>4, <2>5, <2>7, <2>8
       DEF Typed, TypeOK, KeysTypeOK, keyVars, entryVars
<1> QED
  BY <1>3, <1>4

\* Operator commands and marks.
LEMMA ControlTyped ==
    ASSUME Typed, StartTrading \/ EmergencyStop \/ ClearKill \/ MarkTick \/ UNCHANGED vars
    PROVE  /\ Typed'
           /\ UNCHANGED <<reservation, deployed, open_positions, pending, row, worker, exit,
                          released, raced, faults>>
<1>1. UNCHANGED <<reservation, cash, deployed, open_positions, pending, row, worker, recon, exit,
                  released, raced, faults>>
  BY DEF StartTrading, EmergencyStop, ClearKill, MarkTick, Mark, vars, ledgerVars, entryVars,
         exitVars, ghosts, money, counters
<1>2. KeysTypeOK'
  BY DEF Typed, TypeOK, KeysTypeOK, SystemState, StartTrading, SetState, EmergencyStop, ClearKill,
         ClearLatch, MarkTick, keyVars, vars
<1>3. queued' \subseteq Jobs
  BY DEF Typed, TypeOK, StartTrading, EmergencyStop, ClearKill, MarkTick, vars, exitVars
<1> QED
  BY <1>1, <1>2, <1>3 DEF Typed, TypeOK, ExitsTyped

-----------------------------------------------------------------------------
(* Stages of an entry *)

\* An entry step moves one worker, and reservation and row with it.
LEMMA EntryStages ==
    ASSUME Typed, Typed', Stages, HoldsCounted, NEW r \in ResIds,
           \/ Enter(r) \/ SaveOrder(r) \/ Execute(r) \/ CommitFill(r) \/ BookPosition(r)
           \/ ReleaseHold(r) \/ KeepHold(r) \/ EntryRaises(r)
    PROVE  Stages' /\ HoldsCounted'
<1> DEFINE at == worker[r].pc  to == worker'[r].pc  state == reservation[r].state
           now == reservation'[r].state
<1>1. /\ worker \in [ResIds -> WorkerRecord] /\ worker' \in [ResIds -> WorkerRecord]
      /\ reservation \in [ResIds -> {Unborn, Gone} \cup Live] /\ row \in [ResIds -> Row]
      /\ pending \in Nat /\ faults \in Nat
  BY LifecycleAssumption DEF Typed, TypeOK, WorkerRecord
<1>2. \A s \in ResIds \ {r} : /\ worker'[s] = worker[s] /\ reservation'[s] = reservation[s]
                              /\ row'[s] = row[s]
  BY <1>1 DEF Enter, SaveOrder, Execute, CommitFill, BookPosition, ReleaseHold, KeepHold,
              EntryRaises, Reserve, Commit, Release, ledgerVars
<1>3. faults' \in Nat /\ (faults > 0 => faults' > 0) /\ UNCHANGED exit
  BY <1>1 DEF Enter, SaveOrder, Execute, CommitFill, BookPosition, ReleaseHold, KeepHold,
              EntryRaises, Fault, exitVars
<1>4. CASE Enter(r)
  <2>1. /\ reservation[r] = Unborn /\ reservation'[r].state = "held"
        /\ pending' = pending + 1 /\ row' = row
    BY <1>1, <1>4 DEF Enter, Reserve
  <2>2. worker'[r].pc = "reserved"
    BY <1>1, <1>4 DEF Enter, WorkerRecord
  <2>3. Stages'
    BY <1>2, <1>3, <2>1, <2>2 DEF Stages, CommittedTo, Held, Unborn
  <2>4. Held' = Held \cup {r} /\ r \notin Held
    BY <1>2, <2>1 DEF Held, Unborn
  <2> QED
    BY <2>1, <2>3, <2>4, HoldsFinite, FS_AddElement DEF HoldsCounted
<1>5. CASE SaveOrder(r) \/ Execute(r) \/ KeepHold(r) \/ EntryRaises(r)
  <2>1. reservation' = reservation /\ pending' = pending /\ row' = row
    BY <1>5 DEF SaveOrder, Execute, KeepHold, EntryRaises, ledgerVars
  <2>2. \/ at = "reserved" /\ to = "executing"
        \/ at = "executing" /\ to \in {"filled", "failed", "unknown"}
        \/ at = "unknown" /\ to = "done"
        \/ /\ at \in {"reserved", "executing", "filled", "failed", "unknown", "booking"}
           /\ to = "raised" /\ worker'[r].filled = worker[r].filled /\ faults' > 0
    BY <1>1, <1>5 DEF SaveOrder, Execute, KeepHold, EntryRaises, Fault, WorkerRecord
  <2>3. Stages'
    BY <1>2, <1>3, <2>1, <2>2 DEF Stages, CommittedTo, Held
  <2>4. Held' = Held
    BY <2>1 DEF Held
  <2> QED
    BY <2>1, <2>3, <2>4 DEF HoldsCounted
<1>6. CASE CommitFill(r)
  <2>1. /\ state = "held" /\ now = "committed" /\ reservation'[r].usd = worker[r].filled
        /\ pending' = pending - 1 /\ row' = row
    BY <1>1, <1>6, LiveWhenSettled DEF CommitFill, Commit, Live
  <2>2. to = "booking" /\ worker'[r].filled = worker[r].filled
    BY <1>1, <1>6 DEF CommitFill, WorkerRecord
  <2>3. Stages'
    BY <1>2, <1>3, <2>1, <2>2 DEF Stages, CommittedTo, Held
  <2>4. Held' = Held \ {r} /\ r \in Held
    BY <1>2, <2>1 DEF Held
  <2> QED
    BY <1>1, <2>1, <2>3, <2>4, HoldsFinite, FS_RemoveElement DEF HoldsCounted
<1>7. CASE ReleaseHold(r)
  <2>1. state = "held" /\ now = "gone" /\ pending' = pending - 1 /\ row' = row
    BY <1>1, <1>7 DEF ReleaseHold, Release, Gone
  <2>2. at = "failed" /\ to = "done"
    BY <1>1, <1>7 DEF ReleaseHold, WorkerRecord
  <2>3. Stages'
    BY <1>2, <1>3, <2>1, <2>2 DEF Stages, CommittedTo, Held
  <2>4. Held' = Held \ {r} /\ r \in Held
    BY <1>2, <2>1 DEF Held
  <2> QED
    BY <1>1, <2>1, <2>3, <2>4, HoldsFinite, FS_RemoveElement DEF HoldsCounted
<1>8. CASE BookPosition(r)
  <2>1. at = "booking" /\ to = "done" /\ worker'[r].filled = worker[r].filled
    BY <1>1, <1>8 DEF BookPosition, WorkerRecord
  <2>2. row'[r].status = "open" /\ UNCHANGED <<reservation, pending>>
    BY <1>1, <1>8 DEF BookPosition, ledgerVars
  <2>3. Stages'
    BY <1>2, <1>3, <2>1, <2>2 DEF Stages, CommittedTo, Held
  <2>4. Held' = Held
    BY <2>2 DEF Held
  <2> QED
    BY <2>2, <2>3, <2>4 DEF HoldsCounted
<1> QED
  BY <1>4, <1>5, <1>6, <1>7, <1>8

\* Other steps leave workers and reservations alone, or only let workers die;
\* an exit begins on a row, and no row goes away.
LEMMA OtherStages ==
    ASSUME Typed, Stages, HoldsCounted, UNCHANGED <<reservation, pending>>,
           worker' = worker \/ DecisionCrash, faults' = faults \/ Fault,
           \A r \in ResIds : row'[r].status = "none" <=> row[r].status = "none",
           \A r \in ResIds, x \in Exiters :
               exit'[x][r].pc # "idle" => exit[x][r].pc # "idle" \/ row[r].status # "none"
    PROVE  Stages' /\ HoldsCounted'
<1>1. HoldsCounted'
  BY DEF HoldsCounted, Held
<1>2. faults \in Nat
  BY LifecycleAssumption DEF Typed, TypeOK
<1>3. faults' \in Nat /\ (faults > 0 => faults' > 0) /\ (DecisionCrash => faults' > 0)
  BY <1>2 DEF Fault, DecisionCrash
<1>4. ASSUME NEW r \in ResIds
      PROVE  \/ worker'[r] = worker[r]
             \/ /\ worker[r].pc \notin {"none", "done", "raised", "crashed"}
                /\ worker'[r].pc = "crashed" /\ worker'[r].filled = worker[r].filled
                /\ faults' > 0
  BY <1>3 DEF DecisionCrash, Typed, TypeOK
<1>5. Stages'
  BY <1>3, <1>4 DEF Stages, CommittedTo, Held
<1> QED
  BY <1>1, <1>5

-----------------------------------------------------------------------------
(* One exiter at a time *)

\* An exit that is not under way sees nothing wrong.
LEMMA IdleSees == ASSUME NEW p PROVE SeesRow(NoExit, p)
  BY DEF SeesRow, NoExit

\* Booking opens a row that no exiter has met.
LEMMA EntrySerial ==
    ASSUME Typed, Stages, Serial, NEW r \in ResIds,
           \/ Enter(r) \/ SaveOrder(r) \/ Execute(r) \/ CommitFill(r) \/ BookPosition(r)
           \/ ReleaseHold(r) \/ KeepHold(r) \/ EntryRaises(r)
    PROVE  Serial'
<1>1. UNCHANGED <<exit, raced>>
  BY DEF Enter, SaveOrder, Execute, CommitFill, BookPosition, ReleaseHold, KeepHold,
         EntryRaises, exitVars, ghosts
<1>2. CASE ~BookPosition(r)
  <2>1. row' = row
    BY <1>2 DEF Enter, SaveOrder, Execute, CommitFill, ReleaseHold, KeepHold, EntryRaises
  <2> QED
    BY <1>1, <2>1 DEF Serial
<1>3. CASE BookPosition(r)
  <2>1. row[r].status = "none"
    BY <1>3 DEF Stages, BookPosition
  <2>2. \A x \in Exiters : exit[x][r].pc = "idle"
    BY <2>1 DEF Stages
  <2>3. row'[r].amount = Units /\ row'[r].cost = worker[r].filled
        /\ \A s \in ResIds \ {r} : row'[s] = row[s]
    BY <1>3 DEF BookPosition, Typed
  <2>4. Units \in Nat /\ worker[r].filled \in Nat
    BY LifecycleAssumption DEF Typed, TypeOK
  <2>5. \A x \in Exiters : SeesRow(exit[x][r], row'[r])
    BY <2>2 DEF SeesRow
  <2> QED
    BY <1>1, <2>3, <2>4, <2>5 DEF Serial
<1> QED
  BY <1>2, <1>3

\* A read marks the positions it overlaps; what it takes is exact.
LEMMA ReadSerial ==
    ASSUME Typed, Serial, NEW x \in Exiters, ReadOpen(x)
    PROVE  Serial'
<1>1. /\ \A s \in ResIds : exit'[x][s] = IF s \in OpenRows THEN Snapshot(s) ELSE NoExit
      /\ \A y \in Exiters \ {x}, s \in ResIds : exit'[y][s] = exit[y][s]
      /\ row' = row
  BY DEF ReadOpen, Typed, ExitsTyped
<1>2. ASSUME NEW s \in ResIds PROVE SeesRow(Snapshot(s), row[s]) \/ s \notin OpenRows
  BY DEF SeesRow, Snapshot, NoExit, OpenRows
<1>3. ASSUME NEW s \in ResIds, s \notin raced' PROVE s \notin raced
  BY <1>3 DEF ReadOpen
<1>4. ASSUME NEW s \in ResIds, s \notin raced', s \in OpenRows, NEW y \in Exiters
      PROVE  exit[y][s].pc = "idle"
  BY <1>4 DEF ReadOpen
<1>5. NoExit.pc = "idle"
  BY NoExitTyped
<1>6. ASSUME NEW s \in ResIds, s \notin raced', NEW y \in Exiters
      PROVE  SeesRow(exit'[y][s], row'[s])
  BY <1>1, <1>2, <1>3, <1>6, IdleSees DEF Serial
<1>7. ASSUME NEW s \in ResIds, s \notin raced', NEW y \in Exiters, NEW z \in Exiters,
             exit'[y][s].pc # "idle", exit'[z][s].pc # "idle"
      PROVE  y = z
  BY <1>1, <1>3, <1>4, <1>5, <1>7 DEF Serial
<1> QED
  BY <1>1, <1>3, <1>6, <1>7 DEF Serial

\* Steps of an exiter that leave the rows alone.
LEMMA SaleSerial ==
    ASSUME Typed, Serial, NEW x \in Exiters, NEW r \in ResIds,
           Authorise(x, r) \/ Sell(x, r) \/ NoSale(x, r)
    PROVE  Serial'
<1>1. PICK e \in ExitRecord : /\ SaleTyped(e) /\ exit' = [exit EXCEPT ![x][r] = e]
                              /\ e.pc = "idle" \/
                                   /\ e.pc \in {"cleared", "sold"}
                                   /\ exit[x][r].pc \in {"snapshot", "cleared"}
                                   /\ e.amount = exit[x][r].amount /\ e.cost = exit[x][r].cost
  BY SaleStepTyped DEF Typed
<1>2. row' = row /\ raced' = raced
  BY DEF Authorise, Sell, NoSale, ghosts
<1>3. /\ exit'[x][r] = e
      /\ \A y \in Exiters, s \in ResIds : y # x \/ s # r => exit'[y][s] = exit[y][s]
  BY <1>1 DEF Typed, ExitsTyped
<1>4. r \notin raced => SeesRow(e, row[r])
  BY <1>1 DEF Serial, SeesRow
<1>5. e.pc # "idle" => exit[x][r].pc # "idle"
  BY <1>1
<1>6. ASSUME NEW s \in ResIds, s \notin raced, NEW y \in Exiters
      PROVE  /\ SeesRow(exit'[y][s], row[s])
             /\ exit'[y][s].pc # "idle" => exit[y][s].pc # "idle"
  BY <1>3, <1>4, <1>5, <1>6 DEF Serial
<1> QED
  BY <1>2, <1>6 DEF Serial

\* An exit that ends, by its last step, an exception or a crash.
LEMMA EndSerial ==
    ASSUME Typed, Serial, UNCHANGED <<row, raced>>,
           \A y \in Exiters, s \in ResIds : exit'[y][s] \in {exit[y][s], NoExit}
    PROVE  Serial'
<1>1. ASSUME NEW s \in ResIds, s \notin raced, NEW y \in Exiters
      PROVE  /\ SeesRow(exit'[y][s], row[s])
             /\ exit'[y][s].pc # "idle" => exit[y][s].pc # "idle"
  BY <1>1, IdleSees, NoExitTyped DEF Serial
<1> QED
  BY <1>1 DEF Serial

\* A sale is booked in the row it was a snapshot of.
LEMMA ReduceSerial ==
    ASSUME Typed, Stages, Serial, NEW x \in Exiters, NEW r \in ResIds, Reduce(x, r)
    PROVE  /\ Serial'
           /\ exit[x][r].pc = "sold" /\ exit'[x][r] = [exit[x][r] EXCEPT !.pc = "reduced"]
           /\ \A y \in Exiters, s \in ResIds : y # x \/ s # r => exit'[y][s] = exit[y][s]
           /\ row'[r] = Reduced(row[r], exit[x][r])
           /\ \A s \in ResIds \ {r} : row'[s] = row[s]
<1> DEFINE e == exit[x][r]  new == exit'[x][r]
<1>1. /\ e.pc = "sold" /\ new = [e EXCEPT !.pc = "reduced"]
      /\ \A y \in Exiters, s \in ResIds : y # x \/ s # r => exit'[y][s] = exit[y][s]
      /\ row'[r] = Reduced(row[r], e) /\ \A s \in ResIds \ {r} : row'[s] = row[s]
      /\ raced' = raced
  BY DEF Reduce, Typed, ExitsTyped, ghosts
<1>2. e \in ExitRecord /\ SaleTyped(e) /\ row[r] \in Row
  BY DEF Typed, ExitsTyped
<1>3. /\ new.pc = "reduced" /\ new.cost = e.cost /\ (Fully(new) <=> Fully(e))
      /\ e.cost \in Int /\ e.sell \in 1 .. e.amount /\ e.sell \in Nat /\ e.amount \in Int
  BY <1>1, <1>2 DEF ExitRecord, SaleTyped, Fully
<1>4. CostReleased(e) \in Int /\ (e.cost \in Nat => CostReleased(e) \in 0 .. e.cost)
  BY <1>2, <1>3, CostShare
<1> DEFINE p == row[r]  q == row'[r]
<1>5. /\ q.status = IF Fully(e) THEN "closed" ELSE "open"
      /\ q.amount = IF Fully(e) THEN 0 ELSE p.amount - e.sell
      /\ q.cost = IF Fully(e) THEN p.cost ELSE p.cost - CostReleased(e)
  BY <1>1, <1>2, <1>3, <1>4, ReducedTyped
<1>6. ASSUME r \notin raced
      PROVE  /\ q.amount \in Nat /\ q.cost \in Nat /\ SeesRow(new, q)
             /\ \A y \in Exiters \ {x} : exit[y][r].pc = "idle"
  <2>1. p.amount = e.amount /\ p.cost = e.cost /\ e.cost \in Nat
    BY <1>1, <1>6 DEF Serial, SeesRow
  <2>2. q.amount \in Nat /\ q.cost \in Nat
    <3> HIDE DEF e, q
    <3>1. ~Fully(e) => e.amount - e.sell \in Nat
      BY <1>3
    <3>2. e.cost - CostReleased(e) \in Nat
      BY <1>4, <2>1
    <3> QED
      BY <1>5, <2>1, <3>1, <3>2
  <2>3. SeesRow(new, q)
    BY <1>3, <1>5, <2>1 DEF SeesRow
  <2>4. \A y \in Exiters \ {x} : exit[y][r].pc = "idle"
    BY <1>1, <1>6 DEF Serial
  <2> QED
    BY <2>2, <2>3, <2>4
<1>7. ASSUME NEW s \in ResIds, s \notin raced, NEW y \in Exiters
      PROVE  /\ SeesRow(exit'[y][s], row'[s])
             /\ exit'[y][s].pc # "idle" => exit[y][s].pc # "idle"
  <2>1. CASE s = r /\ y = x
    BY <1>1, <1>6, <1>7, <2>1
  <2>2. CASE s = r /\ y # x
    <3>1. exit'[y][s].pc = "idle"
      BY <1>1, <1>6, <1>7, <2>2
    <3> QED
      BY <3>1 DEF SeesRow
  <2>3. CASE s # r
    BY <1>1, <1>7, <2>3 DEF Serial
  <2> QED
    BY <2>1, <2>2, <2>3
<1>8. \A s \in ResIds \ raced : row'[s].amount \in Nat /\ row'[s].cost \in Nat
  BY <1>1, <1>6 DEF Serial
<1>9. Serial'
  BY <1>1, <1>7, <1>8 DEF Serial
<1> QED
  BY <1>1, <1>9

-----------------------------------------------------------------------------
(* The ledger covers the book *)

\* The same reservation, row and sales to settle, before and after a step.
KeepsEntry(r) ==
    /\ reservation'[r] = reservation[r] /\ row'[r] = row[r]
    /\ \A x \in Exiters : exit[x][r].pc = "reduced" \/ exit'[x][r].pc = "reduced" =>
                             exit'[x][r] = exit[x][r]

\* An entry that keeps these keeps its risk and its slot.
LEMMA KeptEntry ==
    ASSUME NEW r \in ResIds, KeepsEntry(r)
    PROVE  /\ Risk'[r] = Risk[r] /\ (r \in Slotted' <=> r \in Slotted)
           /\ Due(exit', r) = Due(exit, r)
<1>1. Reducing(exit', r) = Reducing(exit, r)
  BY DEF KeepsEntry, Reducing
<1>2. \A x \in Reducing(exit, r) : exit'[x][r] = exit[x][r]
  BY DEF KeepsEntry, Reducing
<1>3. Due(exit', r) = Due(exit, r)
  <2>1. CASE Reducing(exit, r) = {}
    BY <1>1, <2>1 DEF Due
  <2>2. CASE Reducing(exit, r) # {}
    <3> DEFINE x == CHOOSE y \in Reducing(exit, r) : TRUE
    <3>1. x \in Reducing(exit, r)
      BY <2>2
    <3>2. x = CHOOSE y \in Reducing(exit', r) : TRUE
      BY <1>1
    <3> HIDE DEF x
    <3> QED
      BY <1>1, <1>2, <2>2, <3>1, <3>2 DEF Due, x
  <2> QED
    BY <2>1, <2>2
<1>4. TakesSlot(reservation'[r], row'[r], exit', r) <=> TakesSlot(reservation[r], row[r], exit, r)
  BY <1>1, <1>2 DEF KeepsEntry, TakesSlot
<1>5. Risk'[r] = Risk[r]
  BY <1>3 DEF Risk, KeepsEntry
<1> QED
  BY <1>3, <1>4, <1>5 DEF Slotted

\* The one exit that is to be settled determines what is due.
LEMMA DueOfOne ==
    ASSUME NEW E, NEW r, NEW x \in Exiters, \A y \in Exiters \ {x} : E[y][r].pc # "reduced"
    PROVE  /\ E[x][r].pc = "reduced" =>
                  Reducing(E, r) = {x} /\ Due(E, r) = CostReleased(E[x][r])
           /\ E[x][r].pc # "reduced" => Reducing(E, r) = {} /\ Due(E, r) = 0
<1>1. CASE E[x][r].pc = "reduced"
  <2>1. Reducing(E, r) = {x}
    BY <1>1 DEF Reducing
  <2>2. (CHOOSE y \in {x} : TRUE) = x
    OBVIOUS
  <2> QED
    BY <1>1, <2>1, <2>2 DEF Due
<1>2. CASE E[x][r].pc # "reduced"
  BY <1>2 DEF Reducing, Due
<1> QED
  BY <1>1, <1>2

\* Of a position handled by one exiter at most, something is due or nothing.
LEMMA DueNat ==
    ASSUME Typed, Serial, NEW r \in ResIds, r \notin raced
    PROVE  Due(exit, r) \in Nat
<1>1. CASE Reducing(exit, r) = {}
  BY <1>1 DEF Due
<1>2. CASE Reducing(exit, r) # {}
  <2>1. PICK x \in Exiters : exit[x][r].pc = "reduced"
    BY <1>2 DEF Reducing
  <2>2. Due(exit, r) = CostReleased(exit[x][r])
    BY <2>1, DueOfOne DEF Serial
  <2>3. exit[x][r] \in ExitRecord /\ SaleTyped(exit[x][r]) /\ exit[x][r].cost \in Nat
    BY <2>1 DEF Typed, ExitsTyped, Serial, SeesRow
  <2>4. CostReleased(exit[x][r]) \in 0 .. exit[x][r].cost
    BY <2>1, <2>3, CostShare DEF SaleTyped
  <2> QED
    BY <2>2, <2>3, <2>4
<1> QED
  BY <1>1, <1>2

\* Risks are natural numbers, now and after a step.
RiskTyped == \A r \in ResIds \ raced : Risk[r] \in Nat

LEMMA RiskNat == Typed /\ Serial => RiskTyped
<1> SUFFICES ASSUME Typed, Serial, NEW r \in ResIds \ raced PROVE Risk[r] \in Nat
  BY DEF RiskTyped
<1>1. Due(exit, r) \in Nat /\ row[r].cost \in Nat
  BY DueNat DEF Serial
<1>2. reservation[r].state \in {"held", "committed"} => reservation[r].usd \in Nat
  BY LiveWhenSettled
<1> QED
  BY <1>1, <1>2 DEF Risk, RiskOf

LEMMA RiskNatNext == Typed' /\ Serial' => RiskTyped'
  BY RiskNat, PTL

\* Slots taken are finitely many.
LEMMA SlotsFinite == IsFiniteSet(Slotted) /\ Cardinality(Slotted) \in Nat
  <1>1. IsFiniteSet(Slotted)
    BY LedgerAssumption, FS_Subset DEF Slotted
  <1> QED
    BY <1>1, FS_CardinalityType

\* A step that changes the risk of one entry by d changes the total by d.
LEMMA OneRiskMoves ==
    ASSUME Typed, Typed', Serial, Serial', raced = {}, raced' = {},
           NEW r \in ResIds, \A s \in ResIds \ {r} : Risk'[s] = Risk[s],
           NEW d \in Int, Risk'[r] = Risk[r] + d
    PROVE  /\ SumFunction(Risk)' = SumFunction(Risk) + d
           /\ SumFunction(Risk) \in Nat /\ Risk[r] \in Nat /\ Risk[r] <= SumFunction(Risk)
<1>1. Risk \in [ResIds -> Nat] /\ Risk' \in [ResIds -> Nat]
  <2>1. \A s \in ResIds : Risk[s] \in Nat /\ Risk'[s] \in Nat
    BY RiskNat, RiskNatNext DEF RiskTyped
  <2> QED
    BY <2>1 DEF Risk
<1>2. Risk[r] = IF r \in ResIds THEN Risk[r] ELSE 0
  OBVIOUS
<1>3. Risk'[r] = IF r \in ResIds THEN Risk'[r] ELSE 0
  OBVIOUS
<1>4. /\ SumFunctionOnSet(Risk, ResIds) \in Nat /\ Risk[r] <= SumFunctionOnSet(Risk, ResIds)
      /\ SumFunctionOnSet(Risk', ResIds) = SumFunctionOnSet(Risk, ResIds) - Risk[r] + Risk'[r]
  <2>1. IsFiniteSet(ResIds)
    BY LedgerAssumption
  <2> DEFINE f == Risk  g == Risk'
  <2> HIDE DEF f, g
  <2>2. /\ SumFunctionOnSet(f, ResIds) \in Nat /\ f[r] <= SumFunctionOnSet(f, ResIds)
        /\ SumFunctionOnSet(g, ResIds) = SumFunctionOnSet(f, ResIds) - f[r] + g[r]
    BY <1>1, <1>2, <1>3, <2>1, SumMoves DEF f, g
  <2> QED
    BY <2>2 DEF f, g
<1>5. /\ SumFunction(Risk) = SumFunctionOnSet(Risk, ResIds)
      /\ SumFunction(Risk)' = SumFunctionOnSet(Risk', ResIds)
  BY DEF SumFunction, Risk
<1>6. Risk[r] \in Nat
  BY <1>1
<1> QED
  BY <1>4, <1>5, <1>6

\* A step that moves one entry's risk and slot, and the ledger by as much.
LEMMA MoveCovered ==
    ASSUME Typed, Typed', Serial, Serial', Covered, UNCHANGED <<raced, faults>>,
           NEW r \in ResIds, \A s \in ResIds \ {r} : KeepsEntry(s),
           NEW d \in Int, NEW k \in Int,
           raced = {} => /\ Risk'[r] = Risk[r] + d /\ deployed' = deployed + d
                         /\ open_positions' = open_positions + k
                         /\ \/ k = 0 /\ (r \in Slotted' <=> r \in Slotted)
                            \/ k = 1 /\ r \in Slotted' /\ r \notin Slotted
                            \/ k = -1 /\ r \notin Slotted' /\ r \in Slotted
    PROVE  Covered'
<1> SUFFICES ASSUME raced = {} PROVE Covered'
  BY DEF Covered
<1>1. \A s \in ResIds \ {r} : Risk'[s] = Risk[s] /\ (s \in Slotted' <=> s \in Slotted)
  BY KeptEntry
<1>2. SumFunction(Risk)' = SumFunction(Risk) + d /\ SumFunction(Risk) \in Nat
  BY <1>1, OneRiskMoves
<1>3. Cardinality(Slotted') = Cardinality(Slotted) + k
  <2>1. Slotted \in SUBSET ResIds /\ Slotted' \in SUBSET ResIds
    BY DEF Slotted
  <2>2. \/ k = 0 /\ Slotted' = Slotted
        \/ k = 1 /\ Slotted' = Slotted \cup {r} /\ r \notin Slotted
        \/ k = -1 /\ Slotted' = Slotted \ {r} /\ r \in Slotted
    <3>1. CASE k = 0 /\ (r \in Slotted' <=> r \in Slotted)
      BY <1>1, <2>1, <3>1
    <3>2. CASE k = 1 /\ r \in Slotted' /\ r \notin Slotted
      BY <1>1, <2>1, <3>2
    <3>3. CASE k = -1 /\ r \notin Slotted' /\ r \in Slotted
      BY <1>1, <2>1, <3>3
    <3> QED
      BY <3>1, <3>2, <3>3
  <2>3. IsFiniteSet(Slotted) /\ Cardinality(Slotted) \in Nat
    BY SlotsFinite
  <2>4. CASE k = 0 /\ Slotted' = Slotted
    BY <2>3, <2>4
  <2>5. CASE k = 1 /\ Slotted' = Slotted \cup {r} /\ r \notin Slotted
    <3>1. Cardinality(Slotted \cup {r}) = Cardinality(Slotted) + 1
      BY <2>3, <2>5, FS_AddElement
    <3> QED
      BY <2>5, <3>1
  <2>6. CASE k = -1 /\ Slotted' = Slotted \ {r} /\ r \in Slotted
    <3>1. Cardinality(Slotted \ {r}) = Cardinality(Slotted) - 1
      BY <2>3, <2>6, FS_RemoveElement
    <3> QED
      BY <2>3, <2>6, <3>1
  <2> QED
    BY <2>2, <2>4, <2>5, <2>6
<1>4. deployed \in Int /\ open_positions \in Int
  BY DEF Typed, TypeOK
<1> QED
  BY <1>2, <1>3, <1>4, SlotsFinite DEF Covered

\* A step that keeps every entry and the ledger.
LEMMA QuietCovered ==
    ASSUME Spent, Covered, \A s \in ResIds : KeepsEntry(s),
           UNCHANGED <<deployed, open_positions, released>>,
           raced \subseteq raced', faults' = 0 => faults = 0,
           \A s \in ResIds : CommittedTo(s) => worker'[s].filled = worker[s].filled
    PROVE  Spent' /\ Covered'
<1>1. \A s \in ResIds : Risk'[s] = Risk[s] /\ (s \in Slotted' <=> s \in Slotted)
  BY KeptEntry
<1>2. Risk' = Risk
  BY <1>1 DEF Risk
<1>3. Slotted' = Slotted
  BY <1>1 DEF Slotted
<1>4. \A s \in ResIds : CommittedTo(s)' <=> CommittedTo(s)
  BY DEF KeepsEntry, CommittedTo
<1>5. Spent'
  BY <1>1, <1>4 DEF Spent
<1>6. SumFunction(Risk)' = SumFunction(Risk)
  BY <1>2
<1>7. Covered'
  BY <1>3, <1>6 DEF Covered
<1> QED
  BY <1>5, <1>7

\* An exit that is given up may leave something unsettled: the book shrinks and
\* the ledger does not.
LEMMA LossCovered ==
    ASSUME Typed, Typed', Serial, Serial', Spent, Covered,
           \A y \in Exiters, s \in ResIds : exit'[y][s] \in {exit[y][s], NoExit},
           UNCHANGED <<reservation, row, worker, deployed, open_positions, released, raced>>,
           faults' # 0
    PROVE  Spent' /\ Covered'
<1>1. ASSUME NEW s \in ResIds, s \notin raced
      PROVE  Risk[s] \in Nat /\ Risk'[s] \in Nat /\ Risk'[s] <= Risk[s]
  <2>1. Risk[s] \in Nat /\ Risk'[s] \in Nat
    BY <1>1, RiskNat, RiskNatNext DEF RiskTyped
  <2>2. Due(exit, s) \in Nat /\ row[s].cost \in Nat
    BY <1>1, DueNat DEF Serial
  <2>3. Due(exit', s) = Due(exit, s) \/ Due(exit', s) = 0
    <3>1. CASE Reducing(exit', s) = {}
      BY <3>1 DEF Due
    <3>2. CASE Reducing(exit', s) # {}
      <4>1. PICK x \in Exiters : exit'[x][s].pc = "reduced"
        BY <3>2 DEF Reducing
      <4>2. exit'[x][s] = exit[x][s]
        BY <4>1, NoExitTyped
      <4>3. \A y \in Exiters \ {x} : exit[y][s].pc # "reduced" /\ exit'[y][s].pc # "reduced"
        BY <1>1, <4>1, <4>2 DEF Serial
      <4>4. Due(exit, s) = CostReleased(exit[x][s])
        BY <4>1, <4>2, <4>3, DueOfOne
      <4>5. Due(exit', s) = CostReleased(exit'[x][s])
        BY <4>1, <4>3, DueOfOne
      <4> QED
        BY <4>2, <4>4, <4>5
    <3> QED
      BY <3>1, <3>2
  <2>4. /\ Risk[s] = RiskOf(reservation[s], row[s], Due(exit, s))
        /\ Risk'[s] = RiskOf(reservation[s], row[s], Due(exit', s))
    BY DEF Risk
  <2> QED
    BY <2>1, <2>2, <2>3, <2>4 DEF RiskOf
<1>2. Spent'
  <2>1. ASSUME NEW s \in ResIds, s \notin raced, CommittedTo(s)
        PROVE  released[s] + Risk'[s] <= worker[s].filled
    <3>1. released[s] \in Nat /\ released[s] + Risk[s] <= worker[s].filled
      BY <2>1 DEF Spent
    <3>2. worker[s].filled \in Nat
      BY DEF Typed, TypeOK
    <3> QED
      BY <1>1, <2>1, <3>1, <3>2
  <2> QED
    BY <2>1 DEF Spent, CommittedTo
<1>3. Covered'
  <2> SUFFICES ASSUME raced = {} PROVE Covered'
    BY DEF Covered
  <2>1. SumFunction(Risk)' <= SumFunction(Risk)
        /\ SumFunction(Risk)' \in Int /\ SumFunction(Risk) \in Int
    <3> DEFINE f == Risk  g == Risk'
    <3>1. IsFiniteSet(ResIds) /\ DOMAIN f = ResIds /\ DOMAIN g = ResIds
      BY LedgerAssumption DEF Risk
    <3>2. \A s \in ResIds : g[s] \in Int /\ f[s] \in Int /\ g[s] <= f[s]
      BY <1>1
    <3>3. SumFunction(f) = SumFunctionOnSet(f, ResIds) /\ SumFunction(g) = SumFunctionOnSet(g, ResIds)
      BY <3>1 DEF SumFunction
    <3> HIDE DEF f, g
    <3>4. SumFunction(g) <= SumFunction(f) /\ SumFunction(g) \in Int /\ SumFunction(f) \in Int
      BY <3>1, <3>2, <3>3, SumOrdered, SumInt
    <3>5. SumFunction(Risk)' = SumFunction(g)
      BY DEF g
    <3> QED
      BY <3>4, <3>5 DEF f
  <2>2. Cardinality(Slotted') <= Cardinality(Slotted) /\ Cardinality(Slotted') \in Int
    <3>1. Slotted' \subseteq Slotted
      <4>1. \A s \in ResIds : \A x \in Reducing(exit', s) :
                x \in Reducing(exit, s) /\ exit'[x][s] = exit[x][s]
        BY NoExitTyped DEF Reducing
      <4> QED
        BY <4>1 DEF Slotted, TakesSlot
    <3>2. Cardinality(Slotted') \in Nat
      BY <3>1, SlotsFinite, FS_Subset, FS_CardinalityType
    <3> QED
      BY <3>1, <3>2, SlotsFinite, FS_Subset
  <2>3. deployed \in Int /\ open_positions \in Int
    BY DEF Typed, TypeOK
  <2> QED
    BY <2>1, <2>2, <2>3, SlotsFinite DEF Covered
<1> QED
  BY <1>2, <1>3

\* Grants, fills, releases and bookings move one entry's risk.
LEMMA EntryCovered ==
    ASSUME Typed, Typed', Stages, Stages', Serial, Serial', Spent, Covered, NEW r \in ResIds,
           Enter(r) \/ CommitFill(r) \/ BookPosition(r) \/ ReleaseHold(r)
    PROVE  Spent' /\ Covered'
<1> USE DEF CommittedTo, Held
<1>1. /\ reservation \in [ResIds -> {Unborn, Gone} \cup Live]
      /\ worker \in [ResIds -> WorkerRecord] /\ deployed \in Int /\ open_positions \in Int
  BY DEF Typed, TypeOK, WorkerRecord
<1>2. UNCHANGED <<exit, released, raced, faults>>
  BY DEF Enter, CommitFill, BookPosition, ReleaseHold, exitVars, ghosts
<1>3. ASSUME NEW s \in ResIds \ {r} PROVE KeepsEntry(s) /\ worker'[s] = worker[s]
  <2>1. reservation'[s] = reservation[s] /\ row'[s] = row[s] /\ worker'[s] = worker[s]
    BY <1>1 DEF Typed, Enter, CommitFill, BookPosition, ReleaseHold, Reserve, Commit,
                Release, ledgerVars
  <2> QED
    BY <1>2, <2>1 DEF KeepsEntry
<1>4. row[r].status = "none" /\ Due(exit, r) = 0 /\ Due(exit', r) = 0
  <2>1. reservation[r].state # "committed" \/ worker[r].pc # "done"
    BY DEF Enter, Reserve, Unborn, CommitFill, Commit, BookPosition, ReleaseHold, Release
  <2>2. row[r].status = "none"
    BY <2>1 DEF Stages
  <2>3. \A x \in Exiters : exit[x][r].pc # "reduced"
    BY <2>2 DEF Stages
  <2> QED
    BY <1>2, <2>2, <2>3 DEF Due, Reducing
<1>5. /\ Risk[r] = RiskOf(reservation[r], row[r], 0)
      /\ Risk'[r] = RiskOf(reservation'[r], row'[r], 0)
      /\ r \in Slotted <=> reservation[r].state = "committed"
      /\ (row'[r].status # "closed" => (r \in Slotted' <=> reservation'[r].state = "committed"))
  BY <1>4 DEF Risk, Slotted, TakesSlot
<1>6. ASSUME r \notin raced =>
                /\ reservation'[r].state = "committed" =>
                      released[r] + Risk'[r] <= worker'[r].filled
                /\ reservation'[r].state # "committed" => released[r] = 0
      PROVE  Spent'
  <2>1. \A s \in ResIds \ {r} : Risk'[s] = Risk[s]
    BY <1>3, KeptEntry
  <2> QED
    BY <1>2, <1>3, <1>6, <2>1 DEF Spent, KeepsEntry
<1>7. CASE Enter(r)
  <2> PICK m \in Mints, w \in Wallets, size \in Sizes : Reserve(r, m, w, size)
    BY <1>7 DEF Enter
  <2>1. size \in Nat
    BY LedgerAssumption
  <2>2. reservation[r] = Unborn /\ reservation'[r].state = "held" /\ reservation'[r].usd = size
    BY <1>1 DEF Reserve
  <2>3. row' = row /\ deployed' = deployed + size /\ open_positions' = open_positions + 0
    BY <1>1, <1>7 DEF Enter, Reserve
  <2>4. Risk'[r] = Risk[r] + size /\ r \notin Slotted /\ r \notin Slotted'
    BY <1>4, <1>5, <2>1, <2>2, <2>3 DEF RiskOf, Unborn
  <2>5. Covered'
    BY <1>2, <1>3, <2>1, <2>3, <2>4, MoveCovered
  <2>6. Spent'
    BY <1>6, <2>2 DEF Spent, Unborn
  <2> QED
    BY <2>5, <2>6
<1>8. CASE CommitFill(r)
  <2> DEFINE fill == worker[r].filled  usd == reservation[r].usd
  <2>1. /\ Commit(r, fill) /\ row' = row /\ worker'[r].filled = fill
    BY <1>1, <1>8 DEF CommitFill, WorkerRecord
  <2>2. reservation[r].state = "held" /\ usd \in Nat /\ fill \in Nat
    BY <1>1, <2>1, LiveWhenSettled DEF Commit, WorkerRecord
  <2>3. reservation'[r].state = "committed" /\ reservation'[r].usd = fill
    BY <1>1, <2>1, <2>2 DEF Commit, Live, Unborn, Gone
  <2>4. deployed' = deployed + (fill - usd) /\ open_positions' = open_positions + 1
    BY <2>1 DEF Commit
  <2>5. Risk[r] = usd /\ Risk'[r] = fill /\ r \notin Slotted /\ r \in Slotted'
    BY <1>4, <1>5, <2>1, <2>2, <2>3 DEF RiskOf
  <2> HIDE DEF fill, usd
  <2>6. fill - usd \in Int /\ Risk'[r] = Risk[r] + (fill - usd)
    BY <2>2, <2>5
  <2>7. Covered'
    BY <1>2, <1>3, <2>4, <2>5, <2>6, MoveCovered
  <2>8. Spent'
    <3>1. r \notin raced => released[r] = 0
      BY <2>2 DEF Spent
    <3> QED
      BY <1>6, <2>1, <2>2, <2>3, <2>5, <3>1
  <2> QED
    BY <2>7, <2>8
<1>9. CASE ReleaseHold(r)
  <2> DEFINE usd == reservation[r].usd
  <2>1. Release(r) /\ row' = row
    BY <1>9 DEF ReleaseHold
  <2>2. reservation[r].state = "held" /\ usd \in Nat
    BY <2>1, LiveWhenSettled DEF Release
  <2>3. reservation'[r].state = "gone"
    BY <1>1, <2>1 DEF Release, Gone
  <2>4. deployed' = deployed + (-usd) /\ open_positions' = open_positions + 0
    BY <1>1, <2>1, <2>2 DEF Release
  <2>5. Risk[r] = usd /\ Risk'[r] = 0 /\ r \notin Slotted /\ r \notin Slotted'
    BY <1>4, <1>5, <2>1, <2>2, <2>3 DEF RiskOf
  <2> HIDE DEF usd
  <2>6. -usd \in Int /\ Risk'[r] = Risk[r] + (-usd)
    BY <2>2, <2>5
  <2>7. Covered'
    BY <1>2, <1>3, <2>4, <2>5, <2>6, MoveCovered
  <2>8. Spent'
    BY <1>6, <2>2, <2>3 DEF Spent
  <2> QED
    BY <2>7, <2>8
<1>10. CASE BookPosition(r)
  <2>1. /\ worker[r].pc = "booking" /\ reservation' = reservation
        /\ deployed' = deployed + 0 /\ open_positions' = open_positions + 0
    BY <1>1, <1>10 DEF BookPosition, ledgerVars
  <2>2. reservation[r].state = "committed" /\ worker[r].filled = reservation[r].usd
    BY <2>1 DEF Stages
  <2>3. /\ row'[r].status = "open" /\ row'[r].cost = worker[r].filled
        /\ worker'[r].filled = worker[r].filled
    BY <1>1, <1>10 DEF BookPosition, Typed, WorkerRecord
  <2>4. worker[r].filled \in Nat
    BY <1>1 DEF WorkerRecord
  <2>5. Risk[r] = worker[r].filled /\ Risk'[r] = worker[r].filled /\ r \in Slotted /\ r \in Slotted'
    BY <1>4, <1>5, <2>1, <2>2, <2>3, <2>4 DEF RiskOf
  <2>6. Risk'[r] = Risk[r] + 0
    BY <2>4, <2>5
  <2>7. Covered'
    BY <1>2, <1>3, <2>1, <2>5, <2>6, MoveCovered
  <2>8. Spent'
    BY <1>6, <2>1, <2>2, <2>3, <2>5 DEF Spent
  <2> QED
    BY <2>7, <2>8
<1> QED
  BY <1>7, <1>8, <1>9, <1>10

\* What a sale takes off the row becomes due.
LEMMA ReduceCovered ==
    ASSUME Typed, Typed', Stages, Serial, Serial', Spent, Covered,
           NEW x \in Exiters, NEW r \in ResIds, Reduce(x, r)
    PROVE  Spent' /\ Covered'
<1> DEFINE e == exit[x][r]  new == exit'[x][r]  p == row[r]  q == row'[r]
<1>1. /\ e.pc = "sold" /\ new = [e EXCEPT !.pc = "reduced"]
      /\ \A y \in Exiters, s \in ResIds : y # x \/ s # r => exit'[y][s] = exit[y][s]
      /\ q = Reduced(p, e) /\ \A s \in ResIds \ {r} : row'[s] = row[s]
  BY ReduceSerial
<1>2. /\ UNCHANGED <<reservation, deployed, open_positions, worker, released, raced, faults>>
      /\ deployed \in Int /\ open_positions \in Int
  BY DEF Reduce, ledgerVars, entryVars, ghosts, Typed, TypeOK
<1>3. \A s \in ResIds \ {r} : KeepsEntry(s)
  BY <1>1, <1>2 DEF KeepsEntry
<1>4. ASSUME r \notin raced
      PROVE  /\ Risk'[r] = Risk[r] + 0 /\ Risk'[r] = Risk[r]
             /\ r \in Slotted' /\ r \in Slotted
  <2>1. /\ e \in ExitRecord /\ SaleTyped(e) /\ p \in Row
        /\ p.status = "open" /\ p.cost = e.cost /\ e.cost \in Nat
        /\ \A y \in Exiters \ {x} : exit[y][r].pc # "reduced" /\ exit'[y][r].pc # "reduced"
    BY <1>1, <1>4 DEF Typed, ExitsTyped, Serial, SeesRow
  <2>2. /\ new.pc = "reduced" /\ (Fully(new) <=> Fully(e))
        /\ CostReleased(new) = CostReleased(e)
        /\ e.sell \in 1 .. e.amount /\ e.sell \in Nat
    BY <1>1, <2>1 DEF ExitRecord, SaleTyped, Fully, CostReleased
  <2>3. CostReleased(e) \in Nat /\ (Fully(e) => CostReleased(e) = e.cost)
    BY <2>1, <2>2, CostShare
  <2>4. /\ q.status = IF Fully(e) THEN "closed" ELSE "open"
        /\ q.cost = IF Fully(e) THEN p.cost ELSE p.cost - CostReleased(e)
    <3>1. p \in Row /\ e.sell \in Nat /\ CostReleased(e) \in Int /\ q = Reduced(p, e)
      BY <1>1, <2>1, <2>2, <2>3
    <3> HIDE DEF e, p, q
    <3> QED
      BY <3>1, ReducedTyped
  <2>5. Due(exit, r) = 0 /\ Due(exit', r) = CostReleased(e) /\ Reducing(exit', r) = {x}
    <3>1. Due(exit, r) = 0
      BY <1>1, <2>1, DueOfOne
    <3>2. Reducing(exit', r) = {x} /\ Due(exit', r) = CostReleased(new)
      BY <2>1, <2>2, DueOfOne
    <3> HIDE DEF e, new
    <3> QED
      BY <2>2, <3>1, <3>2
  <2>6. reservation[r].state = "committed"
    BY <2>1 DEF Stages, CommittedTo
  <2>7. /\ Risk[r] = RiskOf(reservation[r], p, 0)
        /\ Risk'[r] = RiskOf(reservation[r], q, CostReleased(e))
    BY <1>2, <2>5 DEF Risk
  <2>8. Risk[r] = e.cost
    BY <2>1, <2>6, <2>7 DEF RiskOf
  <2>9. Risk'[r] = e.cost
    <3>1. CASE Fully(e)
      BY <2>3, <2>4, <2>6, <2>7, <3>1 DEF RiskOf
    <3>2. CASE ~Fully(e)
      <4>1. Risk'[r] = (e.cost - CostReleased(e)) + CostReleased(e)
        BY <2>1, <2>4, <2>6, <2>7, <3>2 DEF RiskOf
      <4> QED
        BY <2>1, <2>3, <4>1
    <3> QED
      BY <3>1, <3>2
  <2>10. r \in Slotted
    BY <2>1, <2>6 DEF Slotted, TakesSlot
  <2>11. r \in Slotted'
    BY <1>2, <2>2, <2>4, <2>5, <2>6 DEF Slotted, TakesSlot
  <2> QED
    BY <2>1, <2>8, <2>9, <2>10, <2>11
<1>5. Spent'
  <2>1. \A s \in ResIds \ {r} : Risk'[s] = Risk[s]
    BY <1>3, KeptEntry
  <2> QED
    BY <1>2, <1>4, <2>1 DEF Spent, CommittedTo
<1>6. deployed' = deployed + 0 /\ open_positions' = open_positions + 0
  BY <1>2
<1> HIDE DEF e, new, p, q
<1>7. Covered'
  BY <1>2, <1>3, <1>4, <1>6, MoveCovered
<1> QED
  BY <1>5, <1>7

\* The ledger gives up what was due, and no more than it shows: the dust clamp
\* has nothing to clamp.
LEMMA SettleCovered ==
    ASSUME Typed, Typed', Stages, Serial, Serial', Spent, Covered,
           NEW x \in Exiters, NEW r \in ResIds, Settle(x, r)
    PROVE  Spent' /\ Covered'
<1> DEFINE e == exit[x][r]  p == row[r]  c == CostReleased(e)
<1>1. /\ e.pc = "reduced" /\ exit'[x][r] = NoExit
      /\ \A y \in Exiters, s \in ResIds : y # x \/ s # r => exit'[y][s] = exit[y][s]
      /\ released' = [released EXCEPT ![r] = @ + c]
      /\ UNCHANGED <<row, worker, raced, faults>>
  BY DEF Settle, Typed, ExitsTyped, entryVars
<1>2. /\ deployed' = Clamped(deployed - c) /\ reservation' = reservation
      /\ open_positions' = IF Fully(e) THEN open_positions - 1 ELSE open_positions
  BY DEF Settle, ReleasePosition
<1>3. \A s \in ResIds \ {r} : KeepsEntry(s)
  BY <1>1, <1>2 DEF KeepsEntry
<1>4. deployed \in Int /\ open_positions \in Int /\ released \in [ResIds -> Int]
  BY DEF Typed, TypeOK
<1>5. ASSUME r \notin raced
      PROVE  /\ c \in Nat /\ Risk'[r] = Risk[r] - c /\ c <= Risk[r] /\ Risk[r] \in Nat
             /\ r \in Slotted /\ (r \in Slotted' <=> ~Fully(e))
             /\ CommittedTo(r)
  <2>1. /\ e \in ExitRecord /\ SaleTyped(e) /\ e.cost \in Nat /\ p.cost \in Nat
        /\ p.status = (IF Fully(e) THEN "closed" ELSE "open") /\ p.status # "none"
        /\ \A y \in Exiters \ {x} : exit[y][r].pc # "reduced" /\ exit'[y][r].pc # "reduced"
    <3>1. e \in ExitRecord /\ SaleTyped(e) /\ p.cost \in Nat /\ SeesRow(e, p)
      BY <1>5 DEF Typed, ExitsTyped, Serial
    <3>2. \A y \in Exiters \ {x} : exit[y][r].pc = "idle"
      BY <1>1, <1>5 DEF Serial
    <3>3. \A y \in Exiters \ {x} : exit'[y][r] = exit[y][r]
      BY <1>1
    <3>4. e.cost \in Nat /\ p.status = IF Fully(e) THEN "closed" ELSE "open"
      BY <1>1, <3>1 DEF SeesRow
    <3> HIDE DEF e, p
    <3> QED
      BY <3>1, <3>2, <3>3, <3>4
  <2>2. e.sell \in 1 .. e.amount
    BY <1>1, <2>1 DEF SaleTyped
  <2>3. c \in Nat
    BY <2>1, <2>2, CostShare
  <2>4. Due(exit, r) = c /\ Reducing(exit, r) = {x}
    BY <1>1, <2>1, DueOfOne
  <2>5. Due(exit', r) = 0 /\ Reducing(exit', r) = {}
    BY <1>1, <2>1, NoExitTyped, DueOfOne
  <2>6. reservation[r].state = "committed"
    BY <2>1 DEF Stages, CommittedTo
  <2>7. Risk[r] = RiskOf(reservation[r], p, c) /\ Risk'[r] = RiskOf(reservation[r], p, 0)
    BY <1>1, <1>2, <2>4, <2>5 DEF Risk
  <2>8. r \in Slotted
    <3>1. p.status = "closed" => Fully(e)
      BY <2>1
    <3>2. x \in Reducing(exit, r)
      BY <2>4
    <3> QED
      BY <2>6, <3>1, <3>2 DEF Slotted, TakesSlot
  <2>9. r \in Slotted' <=> ~Fully(e)
    BY <1>1, <1>2, <2>1, <2>5, <2>6 DEF Slotted, TakesSlot
  <2> HIDE DEF c
  <2>10. CASE Fully(e)
    <3>1. Risk[r] = c /\ Risk'[r] = 0
      BY <2>1, <2>6, <2>7, <2>10 DEF RiskOf
    <3> QED
      BY <2>3, <2>6, <2>8, <2>9, <3>1 DEF CommittedTo
  <2>11. CASE ~Fully(e)
    <3>1. Risk[r] = p.cost + c /\ Risk'[r] = p.cost + 0
      BY <2>1, <2>6, <2>7, <2>11 DEF RiskOf
    <3>2. Risk'[r] = Risk[r] - c /\ c <= Risk[r] /\ Risk[r] \in Nat
      BY <2>1, <2>3, <3>1
    <3> QED
      BY <2>3, <2>6, <2>8, <2>9, <3>2 DEF CommittedTo
  <2> QED
    BY <2>10, <2>11
<1>6. \A s \in ResIds \ {r} : Risk'[s] = Risk[s]
  BY <1>3, KeptEntry
<1> HIDE DEF e, p, c
<1>7. Spent'
  <2>1. ASSUME r \notin raced
        PROVE  released'[r] \in Nat /\ released'[r] + Risk'[r] <= worker[r].filled
    <3>1. released[r] \in Nat /\ released[r] + Risk[r] <= worker[r].filled
      BY <1>5, <2>1 DEF Spent
    <3>2. released'[r] = released[r] + c
      BY <1>1, <1>4
    <3>3. worker[r].filled \in Nat
      BY DEF Typed, TypeOK
    <3> QED
      BY <1>5, <2>1, <3>1, <3>2, <3>3
  <2>2. \A s \in ResIds \ {r} : released'[s] = released[s]
    BY <1>1, <1>4
  <2>3. \A s \in ResIds : CommittedTo(s)' <=> CommittedTo(s)
    BY <1>2 DEF CommittedTo
  <2>4. r \notin raced => CommittedTo(r)
    BY <1>5
  <2> QED
    BY <1>1, <1>6, <2>1, <2>2, <2>3, <2>4 DEF Spent
<1>8. Covered'
  <2> SUFFICES ASSUME raced = {} PROVE Covered'
    BY <1>1 DEF Covered
  <2>1. -c \in Int /\ Risk'[r] = Risk[r] + (-c) /\ c \in Nat /\ c <= Risk[r] /\ Risk[r] \in Nat
    BY <1>5
  <2>2. SumFunction(Risk) \in Nat /\ Risk[r] <= SumFunction(Risk)
    BY <1>1, <1>6, <2>1, OneRiskMoves
  <2>3. SumFunction(Risk) <= deployed
    BY DEF Covered
  <2>4. deployed' = deployed + (-c)
    <3>1. deployed - c >= 0
      BY <1>4, <2>1, <2>2, <2>3
    <3>2. Clamped(deployed - c) = deployed - c
      BY <1>4, <2>1, <3>1 DEF Clamped
    <3> QED
      BY <1>2, <1>4, <2>1, <3>2
  <2>5. CASE Fully(e)
    <3>1. open_positions' = open_positions + (-1)
      BY <1>2, <1>4, <2>5
    <3>2. r \in Slotted /\ r \notin Slotted'
      BY <1>5, <2>5
    <3> QED
      BY <1>1, <1>3, <2>1, <2>4, <3>1, <3>2, MoveCovered
  <2>6. CASE ~Fully(e)
    <3>1. open_positions' = open_positions + 0
      BY <1>2, <1>4, <2>6
    <3>2. r \in Slotted /\ r \in Slotted'
      BY <1>5, <2>6
    <3> QED
      BY <1>1, <1>3, <2>1, <2>4, <3>1, <3>2, MoveCovered
  <2> QED
    BY <2>5, <2>6
<1> QED
  BY <1>7, <1>8

-----------------------------------------------------------------------------
(* The induction *)

LEMMA InitIInv == Init => IInv
<1> SUFFICES ASSUME Init PROVE IInv
  OBVIOUS
<1>1. /\ reservation = [r \in ResIds |-> Unborn] /\ deployed = 0 /\ open_positions = 0
      /\ cash = Capital /\ pending = 0 /\ Capital \in Nat
      /\ worker = [r \in ResIds |-> NoWorker] /\ row = [r \in ResIds |-> NoRow]
      /\ recon = [r \in ResIds |-> FALSE] /\ queued = {} /\ raced = {} /\ faults = 0
      /\ exit = [x \in Exiters |-> [r \in ResIds |-> NoExit]]
      /\ released = [r \in ResIds |-> 0] /\ KeysInit
  BY LedgerAssumption DEF Init, LedgerInit, Fresh
<1>2. NoRow \in Row /\ NoExit \in ExitRecord /\ NoWorker \in WorkerRecord
  BY DEF NoRow, Row, NoExit, ExitRecord, NoWorker, WorkerRecord
<1>3. ExitsTyped
  BY <1>1, NoExitTyped DEF ExitsTyped
<1>4. Typed
  <2>1. worker \in [ResIds -> WorkerRecord] /\ row \in [ResIds -> Row]
    BY <1>1, <1>2
  <2>2. \A r \in ResIds : row[r].status \in {"none", "open", "closed"} /\ row[r].amount \in Int
    BY <2>1 DEF Row
  <2>3. \A x \in Exiters, r \in ResIds :
          /\ exit[x][r].pc \in {"idle", "snapshot", "cleared", "sold", "reduced"}
          /\ exit[x][r].sell = 0 \/ exit[x][r].sell \in 1 .. exit[x][r].amount
    BY <1>3 DEF ExitsTyped, SaleTyped, ExitRecord
  <2>4. faults \in 0 .. MaxFaults /\ released \in [ResIds -> Int]
    BY <1>1, LifecycleAssumption
  <2>5. /\ KeysTypeOK /\ recon \in [ResIds -> BOOLEAN] /\ queued \subseteq Jobs
        /\ raced \subseteq ResIds /\ reservation \in [ResIds -> {Unborn, Gone} \cup Live]
    BY <1>1 DEF KeysInit, KeysTypeOK
  <2>6. cash \in Int /\ deployed \in Int /\ open_positions \in Int /\ pending \in Nat
    BY <1>1
  <2> QED
    BY <1>3, <2>1, <2>2, <2>3, <2>4, <2>5, <2>6 DEF Typed, TypeOK, WorkerRecord
<1>5. HoldsCounted
  <2>1. Held = {}
    BY <1>1 DEF Held, Unborn
  <2> QED
    BY <1>1, <2>1, FS_EmptySet DEF HoldsCounted
<1>6. ASSUME NEW r \in ResIds
      PROVE  /\ reservation[r].state = "unborn" /\ worker[r].pc = "none"
             /\ row[r].status = "none" /\ row[r].amount = 0 /\ row[r].cost = 0
             /\ released[r] = 0 /\ \A x \in Exiters : exit[x][r] = NoExit
  BY <1>1 DEF Unborn, NoWorker, NoRow
<1>7. Stages
  BY <1>1, <1>6, NoExitTyped DEF Stages, CommittedTo, Held
<1>8. Serial
  BY <1>6, IdleSees, NoExitTyped DEF Serial
<1>9. Spent
  BY <1>6 DEF Spent, CommittedTo
<1>10. Covered
  <2>1. \A r \in ResIds : Risk[r] = 0
    BY <1>6 DEF Risk, RiskOf
  <2>2. SumFunction(Risk) = 0
    <3>1. SumFunctionOnSet(Risk, ResIds) = 0
      BY <2>1, LedgerAssumption, SumZero
    <3> QED
      BY <3>1 DEF SumFunction, Risk
  <2>3. Slotted = {}
    BY <1>6 DEF Slotted, TakesSlot
  <2>4. Cardinality(Slotted) = 0
    BY <2>3, FS_EmptySet
  <2> QED
    BY <1>1, <2>2, <2>4 DEF Covered
<1> QED
  BY <1>4, <1>5, <1>7, <1>8, <1>9, <1>10 DEF IInv

\* Steps of an entry.
LEMMA EntryIInv ==
    ASSUME IInv, NEW r \in ResIds,
           \/ Enter(r) \/ SaveOrder(r) \/ Execute(r) \/ CommitFill(r) \/ BookPosition(r)
           \/ ReleaseHold(r) \/ KeepHold(r) \/ EntryRaises(r)
    PROVE  IInv'
<1> USE DEF IInv
<1>1. Typed'
  BY WorkerTyped, StoreTyped
<1>2. Stages' /\ HoldsCounted' /\ Serial'
  BY <1>1, EntryStages, EntrySerial
<1>3. CASE SaveOrder(r) \/ Execute(r) \/ KeepHold(r) \/ EntryRaises(r)
  <2>1. UNCHANGED <<ledgerVars, row, exit, released, raced>>
    BY <1>3 DEF SaveOrder, Execute, KeepHold, EntryRaises, exitVars, ghosts
  <2>2. faults' = 0 => faults = 0
    BY <1>3, LifecycleAssumption DEF SaveOrder, Execute, KeepHold, EntryRaises, Fault, Typed, TypeOK
  <2>3. \A s \in ResIds : CommittedTo(s) => worker'[s].filled = worker[s].filled
    <3>1. worker \in [ResIds -> WorkerRecord]
      BY DEF Typed, TypeOK, WorkerRecord
    <3>2. CASE Execute(r)
      <4>1. ~CommittedTo(r)
        BY <3>2 DEF Execute, Stages, CommittedTo, Held
      <4> QED
        BY <3>1, <3>2, <4>1 DEF Execute, WorkerRecord
    <3>3. CASE SaveOrder(r) \/ KeepHold(r) \/ EntryRaises(r)
      BY <3>1, <3>3 DEF SaveOrder, KeepHold, EntryRaises, WorkerRecord
    <3> QED
      BY <1>3, <3>2, <3>3
  <2>4. /\ \A s \in ResIds : KeepsEntry(s)
        /\ UNCHANGED <<deployed, open_positions, released>> /\ raced \subseteq raced'
    BY <2>1 DEF KeepsEntry, ledgerVars
  <2>5. Spent' /\ Covered'
    BY <2>2, <2>3, <2>4, QuietCovered
  <2> QED
    BY <1>1, <1>2, <2>5
<1>4. CASE Enter(r) \/ CommitFill(r) \/ BookPosition(r) \/ ReleaseHold(r)
  BY <1>1, <1>2, <1>4, EntryCovered
<1> QED
  BY <1>3, <1>4

\* Operator commands, marks and stutters.
LEMMA ControlIInv ==
    ASSUME IInv, StartTrading \/ EmergencyStop \/ ClearKill \/ MarkTick \/ UNCHANGED vars
    PROVE  IInv'
<1> USE DEF IInv
<1>1. /\ Typed'
      /\ UNCHANGED <<reservation, deployed, open_positions, pending, row, worker, exit,
                     released, raced, faults>>
  BY ControlTyped
<1>2. Stages' /\ HoldsCounted' /\ Serial'
  <2>1. Stages' /\ HoldsCounted'
    BY <1>1, OtherStages
  <2> QED
    BY <1>1, <2>1 DEF Serial
<1>3. Spent' /\ Covered'
  BY <1>1, QuietCovered DEF KeepsEntry
<1> QED
  BY <1>1, <1>2, <1>3

\* A crash of the decision service.
LEMMA CrashIInv == ASSUME IInv, DecisionCrash PROVE IInv'
<1> USE DEF IInv
<1>1. /\ UNCHANGED <<ledgerVars, row, exit, released, raced>> /\ Fault
      /\ \A s \in ResIds : worker'[s].filled = worker[s].filled
  BY DEF DecisionCrash, exitVars, ghosts, Typed, TypeOK
<1>2. Typed' /\ Stages' /\ HoldsCounted'
  <2>1. CASE ResIds = {}
    <3>1. worker' = worker
      BY <2>1 DEF DecisionCrash, Typed, TypeOK
    <3> QED
      BY <3>1 DEF DecisionCrash
  <2>2. CASE ResIds # {}
    <3>1. Typed'
      BY <2>2, WorkerTyped
    <3> QED
      BY <1>1, <3>1, OtherStages DEF ledgerVars
  <2> QED
    BY <2>1, <2>2
<1>3. Serial'
  BY <1>1 DEF Serial
<1>4. faults' = 0 => faults = 0
  BY <1>1, LifecycleAssumption DEF Fault, Typed, TypeOK
<1>5. Spent' /\ Covered'
  BY <1>1, <1>4, QuietCovered DEF KeepsEntry, ledgerVars
<1> QED
  BY <1>2, <1>3, <1>5

\* Steps of an exiter before it books anything, and its failures.
LEMMA ExiterIInv ==
    ASSUME IInv, NEW x \in Exiters, queued' \subseteq Jobs,
           \/ ReadOpen(x) \/ ExiterCrash(x)
           \/ \E r \in ResIds :
                 Authorise(x, r) \/ Sell(x, r) \/ NoSale(x, r) \/ ExitRaises(x, r)
    PROVE  IInv'
<1> USE DEF IInv
<1>1. Typed'
  BY ExiterTyped
<1>2. UNCHANGED <<reservation, deployed, open_positions, pending, row, worker, released>>
  BY DEF ReadOpen, ExiterCrash, Authorise, Sell, NoSale, ExitRaises, ledgerVars, entryVars, ghosts
<1>3. CASE ReadOpen(x)
  <2>1. /\ \A s \in ResIds : exit[x][s].pc = "idle"
        /\ \A s \in ResIds : exit'[x][s] = IF s \in OpenRows THEN Snapshot(s) ELSE NoExit
        /\ \A y \in Exiters \ {x}, s \in ResIds : exit'[y][s] = exit[y][s]
        /\ faults' = faults /\ raced \subseteq raced'
    BY <1>3 DEF ReadOpen, Typed, ExitsTyped
  <2>2. \A s \in ResIds : /\ exit'[x][s].pc \in {"idle", "snapshot"}
                          /\ exit'[x][s].pc # "idle" => row[s].status # "none"
    <3>1. \A s \in ResIds : Snapshot(s).pc = "snapshot"
      BY DEF Snapshot, NoExit
    <3>2. \A s \in OpenRows : row[s].status # "none"
      BY DEF OpenRows
    <3> QED
      BY <2>1, <3>1, <3>2, NoExitTyped
  <2>3. Stages' /\ HoldsCounted'
    BY <1>2, <2>1, <2>2, OtherStages
  <2>4. Serial'
    BY <1>3, ReadSerial
  <2>5. \A s \in ResIds : KeepsEntry(s)
    BY <1>2, <2>1, <2>2 DEF KeepsEntry
  <2>6. Spent' /\ Covered'
    BY <1>2, <2>1, <2>5, QuietCovered
  <2> QED
    BY <1>1, <2>3, <2>4, <2>6
<1>4. ASSUME NEW r \in ResIds, Authorise(x, r) \/ Sell(x, r) \/ NoSale(x, r)
      PROVE  IInv'
  <2>1. PICK e \in ExitRecord : /\ exit' = [exit EXCEPT ![x][r] = e]
                                /\ e.pc \in {"idle", "cleared", "sold"}
                                /\ e.pc # "idle" => exit[x][r].pc # "idle"
                                /\ exit[x][r].pc # "reduced"
    <3>1. exit[x][r].pc # "reduced"
      BY <1>4 DEF Authorise, Sell, NoSale
    <3> QED
      BY <1>4, <3>1, SaleStepTyped DEF Typed
  <2>2. /\ exit'[x][r] = e /\ faults' = faults /\ raced' = raced
        /\ \A y \in Exiters, s \in ResIds : y # x \/ s # r => exit'[y][s] = exit[y][s]
    BY <1>4, <2>1 DEF Typed, ExitsTyped, Authorise, Sell, NoSale, ghosts
  <2>3. Stages' /\ HoldsCounted'
    BY <1>2, <2>1, <2>2, OtherStages
  <2>4. Serial'
    BY <1>4, SaleSerial
  <2>5. \A s \in ResIds : KeepsEntry(s)
    BY <1>2, <2>1, <2>2 DEF KeepsEntry
  <2>6. Spent' /\ Covered'
    BY <1>2, <2>2, <2>5, QuietCovered
  <2> QED
    BY <1>1, <2>3, <2>4, <2>6
<1>5. ASSUME ExiterCrash(x) \/ \E r \in ResIds : ExitRaises(x, r)
      PROVE  IInv'
  <2>1. \A y \in Exiters, s \in ResIds : exit'[y][s] \in {exit[y][s], NoExit}
    BY <1>5 DEF ExiterCrash, ExitRaises, Typed, ExitsTyped
  <2>2. Fault /\ raced' = raced
    BY <1>5 DEF ExiterCrash, ExitRaises, ghosts
  <2>3. Stages' /\ HoldsCounted'
    BY <1>2, <2>1, <2>2, OtherStages, NoExitTyped
  <2>4. Serial'
    BY <1>2, <2>1, <2>2, EndSerial
  <2>5. faults' # 0
    BY <2>2 DEF Fault, Typed, TypeOK
  <2>6. Spent' /\ Covered'
    BY <1>1, <1>2, <2>1, <2>2, <2>4, <2>5, LossCovered
  <2> QED
    BY <1>1, <2>3, <2>4, <2>6
<1> QED
  BY <1>3, <1>4, <1>5

\* A sale is booked, in the row and then in the ledger.
LEMMA BookingIInv ==
    ASSUME IInv, NEW x \in Exiters, NEW r \in ResIds, Reduce(x, r) \/ Settle(x, r)
    PROVE  IInv'
<1> USE DEF IInv
<1>1. Typed'
  BY BookingTyped
<1>2. /\ UNCHANGED <<reservation, pending, worker, faults>>
      /\ exit[x][r].pc \in {"sold", "reduced"}
  BY DEF Reduce, Settle, ReleasePosition, ledgerVars, entryVars
<1>3. row[r].status # "none"
  BY <1>2 DEF Stages
<1>4. CASE Reduce(x, r)
  <2>1. /\ \A s \in ResIds : row'[s].status = "none" <=> row[s].status = "none"
        /\ \A s \in ResIds, y \in Exiters : exit'[y][s].pc # "idle" => exit[y][s].pc # "idle"
    <3>1. /\ exit[x][r].pc = "sold"
          /\ \A y \in Exiters, s \in ResIds : y # x \/ s # r => exit'[y][s] = exit[y][s]
          /\ row'[r] = Reduced(row[r], exit[x][r])
          /\ \A s \in ResIds \ {r} : row'[s] = row[s]
      BY <1>4, ReduceSerial
    <3>2. row'[r].status # "none"
      BY <3>1 DEF Reduced, Typed, Row
    <3> QED
      BY <1>2, <1>3, <3>1, <3>2
  <2>2. Stages' /\ HoldsCounted'
    BY <1>2, <2>1, OtherStages
  <2>3. Serial'
    BY <1>4, ReduceSerial
  <2> QED
    BY <1>1, <1>4, <2>2, <2>3, ReduceCovered
<1>5. CASE Settle(x, r)
  <2>1. /\ \A y \in Exiters, s \in ResIds : exit'[y][s] \in {exit[y][s], NoExit}
        /\ UNCHANGED <<row, raced>>
    BY <1>5 DEF Settle, Typed, ExitsTyped
  <2>2. Stages' /\ HoldsCounted'
    BY <1>2, <2>1, OtherStages, NoExitTyped
  <2>3. Serial'
    BY <2>1, EndSerial
  <2> QED
    BY <1>1, <1>5, <2>2, <2>3, SettleCovered
<1> QED
  BY <1>4, <1>5

LEMMA NextIInv == IInv /\ [Next]_vars => IInv'
<1> SUFFICES ASSUME IInv, [Next]_vars PROVE IInv'
  OBVIOUS
<1>1. queued \subseteq Jobs
  BY DEF IInv, Typed, TypeOK
<1>2. CASE StartTrading \/ EmergencyStop \/ ClearKill \/ MarkTick \/ UNCHANGED vars
  BY <1>2, ControlIInv
<1>3. CASE DecisionCrash
  BY <1>3, CrashIInv
<1>4. ASSUME NEW r \in ResIds,
             \/ Enter(r) \/ SaveOrder(r) \/ Execute(r) \/ CommitFill(r) \/ BookPosition(r)
             \/ ReleaseHold(r) \/ KeepHold(r) \/ EntryRaises(r)
      PROVE  IInv'
  BY <1>4, EntryIInv
<1>5. CASE ReadTick
  <2>1. PositionService \in Exiters /\ ReadOpen(PositionService) /\ queued' = queued
    BY <1>5 DEF ReadTick, Exiters
  <2> QED
    BY <1>1, <2>1, ExiterIInv
<1>6. ASSUME NEW j \in Jobs, ReadJob(j) PROVE IInv'
  <2>1. j \in Exiters /\ ReadOpen(j) /\ queued' \subseteq Jobs
    BY <1>1, <1>6 DEF ReadJob, Exiters
  <2> QED
    BY <2>1, ExiterIInv
<1>7. ASSUME NEW x \in Exiters, ExiterCrash(x) PROVE IInv'
  <2>1. queued' \subseteq Jobs
    BY <1>1, <1>7 DEF ExiterCrash
  <2> QED
    BY <1>7, <2>1, ExiterIInv
<1>8. ASSUME NEW x \in Exiters, NEW r \in ResIds,
             Authorise(x, r) \/ Sell(x, r) \/ NoSale(x, r) \/ ExitRaises(x, r)
      PROVE  IInv'
  <2>1. queued' \subseteq Jobs
    BY <1>1, <1>8 DEF Authorise, Sell, NoSale, ExitRaises
  <2> QED
    BY <1>8, <2>1, ExiterIInv
<1>9. ASSUME NEW x \in Exiters, NEW r \in ResIds, Reduce(x, r) \/ Settle(x, r)
      PROVE  IInv'
  BY <1>9, BookingIInv
<1> QED
  BY <1>2, <1>3, <1>4, <1>5, <1>6, <1>7, <1>8, <1>9 DEF Next

-----------------------------------------------------------------------------
(* Results *)

\* The inductive invariant holds of every behaviour: whatever step an exception
\* or a crash hits, the ledger covers what each entry still commits.
THEOREM LifecycleInvariant == Spec => []IInv
  BY InitIInv, NextIInv, PTL DEF Spec

\* Workers, exiters, rows and ledger stay well typed.
THEOREM LifecycleTypeOK == Spec => []TypeOK
<1>1. IInv => TypeOK
  BY DEF IInv, Typed
<1> QED
  BY <1>1, LifecycleInvariant, PTL

\* No exception or crash between the stores' commits makes the ledger show less
\* than holds and open positions commit, or fewer slots.
THEOREM LedgerCoversTheBook == Spec => []LedgerNeverUnderstates
<1>1. IInv => LedgerNeverUnderstates
  <2> SUFFICES ASSUME IInv, raced = {}
               PROVE  /\ deployed >= SumFunction(AtRisk)
                      /\ open_positions >= Cardinality(OpenRows)
    BY DEF LedgerNeverUnderstates
  <2> USE DEF IInv
  <2>1. ASSUME NEW r \in ResIds
        PROVE  AtRisk[r] \in Int /\ Risk[r] \in Int /\ AtRisk[r] <= Risk[r]
    <3>1. /\ Due(exit, r) \in Nat /\ row[r].cost \in Nat /\ Risk[r] \in Nat
          /\ row[r].status = "open" => reservation[r].state = "committed"
      BY DueNat, RiskNat DEF RiskTyped, Serial, Stages, CommittedTo
    <3>2. reservation[r].state = "held" => reservation[r].usd \in Nat
      BY LiveWhenSettled
    <3>3. /\ AtRisk[r] = IF reservation[r].state = "held" THEN reservation[r].usd
                         ELSE IF row[r].status = "open" THEN row[r].cost ELSE 0
          /\ Risk[r] = RiskOf(reservation[r], row[r], Due(exit, r))
      BY DEF AtRisk, Risk, Held, OpenRows
    <3> QED
      BY <3>1, <3>2, <3>3 DEF RiskOf
  <2>2. SumFunction(AtRisk) <= SumFunction(Risk)
        /\ SumFunction(AtRisk) \in Int /\ SumFunction(Risk) \in Int
    <3> DEFINE f == AtRisk  g == Risk
    <3>1. /\ IsFiniteSet(ResIds) /\ SumFunction(f) = SumFunctionOnSet(f, ResIds)
          /\ SumFunction(g) = SumFunctionOnSet(g, ResIds)
      BY LedgerAssumption DEF SumFunction, AtRisk, Risk
    <3>2. \A s \in ResIds : f[s] \in Int /\ g[s] \in Int /\ f[s] <= g[s]
      BY <2>1
    <3> HIDE DEF f, g
    <3>3. SumFunction(f) <= SumFunction(g) /\ SumFunction(f) \in Int /\ SumFunction(g) \in Int
      BY <3>1, <3>2, SumOrdered, SumInt
    <3> QED
      BY <3>3 DEF f, g
  <2>3. Cardinality(OpenRows) <= Cardinality(Slotted) /\ Cardinality(OpenRows) \in Nat
    <3>1. OpenRows \subseteq Slotted
      BY DEF OpenRows, Slotted, TakesSlot, Stages, CommittedTo
    <3> QED
      BY <3>1, SlotsFinite, FS_Subset, FS_CardinalityType
  <2>4. deployed \in Int /\ open_positions \in Int
    BY DEF Typed, TypeOK
  <2> QED
    BY <2>2, <2>3, <2>4, SlotsFinite DEF Covered
<1> QED
  BY <1>1, LifecycleInvariant, PTL

\* With nothing in flight and no failure, ledger and rows agree to the unit.
THEOREM LedgerAndRowsAgree == Spec => []StoresAgree
<1>1. IInv => StoresAgree
  <2> SUFFICES ASSUME IInv, Quiescent, faults = 0, raced = {}
               PROVE  deployed = SumFunction(AtRisk) /\ open_positions = Cardinality(OpenRows)
    BY DEF StoresAgree
  <2> USE DEF IInv
  <2>1. ASSUME NEW r \in ResIds
        PROVE  AtRisk[r] = Risk[r] /\ (r \in OpenRows <=> r \in Slotted)
    <3>1. Reducing(exit, r) = {} /\ Due(exit, r) = 0
      BY DEF Quiescent, Reducing, Due
    <3>2. row[r].status # "none" <=> reservation[r].state = "committed"
      BY DEF Quiescent, Stages, CommittedTo
    <3>3. row[r].status \in {"none", "open", "closed"} /\ row[r].cost \in Nat
      BY DEF Typed, TypeOK, Serial
    <3>4. r \in Slotted <=> r \in OpenRows
      BY <3>1, <3>2, <3>3 DEF Slotted, TakesSlot, OpenRows
    <3>5. Risk[r] = RiskOf(reservation[r], row[r], 0)
      BY <3>1 DEF Risk
    <3>6. AtRisk[r] = IF reservation[r].state = "held" THEN reservation[r].usd
                      ELSE IF row[r].status = "open" THEN row[r].cost ELSE 0
      BY DEF AtRisk, Held, OpenRows
    <3>7. AtRisk[r] = Risk[r]
      BY <3>2, <3>3, <3>5, <3>6 DEF RiskOf
    <3> QED
      BY <3>4, <3>7
  <2>2. AtRisk = Risk
    BY <2>1 DEF AtRisk, Risk
  <2>3. OpenRows = Slotted
    BY <2>1 DEF OpenRows, Slotted
  <2> QED
    BY <2>2, <2>3 DEF Covered
<1> QED
  BY <1>1, LifecycleInvariant, PTL

\* Exits of a position that follow one another never release more than was
\* filled and never sell more than is held, crashes and re-runs included.
THEOREM ExitsInTurnAreSafe == Spec => []SerialExitsAreSafe
<1>1. IInv => SerialExitsAreSafe
  <2> SUFFICES ASSUME IInv, NEW r \in ResIds \ raced
               PROVE  released[r] <= worker[r].filled /\ row[r].amount >= 0
    BY DEF SerialExitsAreSafe
  <2> USE DEF IInv
  <2>1. /\ released[r] \in Nat /\ Risk[r] \in Nat /\ worker[r].filled \in Nat
        /\ row[r].amount \in Nat
    BY RiskNat DEF RiskTyped, Spent, Serial, Typed, TypeOK
  <2>2. CASE CommittedTo(r)
    BY <2>1, <2>2 DEF Spent
  <2>3. CASE ~CommittedTo(r)
    BY <2>1, <2>3 DEF Spent
  <2> QED
    BY <2>2, <2>3
<1> QED
  BY <1>1, LifecycleInvariant, PTL

-----------------------------------------------------------------------------
(**************************************************************************)
(* The book of a trade: until an exit loses part of a cost between the    *)
(* two stores, each step of the services is one the book allows.          *)
(**************************************************************************)

\* What fills and exits bring is what the executor may answer, and a row is of
\* its reservation's token and trader.
FillsKnown ==
    \A r \in ResIds : worker[r].pc \in {"filled", "booking"} => worker[r].filled \in Fills

ProceedsKnown ==
    \A x \in Exiters, r \in ResIds :
        exit[x][r].pc \in {"sold", "reduced"} => exit[x][r].proceeds \in Proceeds

RowsMatch ==
    \A r \in ResIds : row[r].status # "none" =>
        row[r].mint = reservation[r].mint /\ row[r].wallet = reservation[r].wallet

\* A token held costs a unit at least, so that every part sold has a cost.
Priced ==
    \A r \in ResIds \ raced :
        /\ row[r].status = "open" => 0 < row[r].amount /\ row[r].amount <= row[r].cost
        /\ \A x \in Exiters : exit[x][r].pc = "reduced" => CostReleased(exit[x][r]) > 0

Known == realized_today \in Int /\ FillsKnown /\ ProceedsKnown /\ RowsMatch /\ Priced

\* The running totals are those of the entries.
Exact ==
    /\ deployed = BookOf!AtWork /\ open_positions = Cardinality(BookOf!Positions)
    /\ token_exp = [m \in Mints |-> BookOf!InToken(m)]
    /\ trader_exp = [w \in Wallets |-> BookOf!WithTrader(w)]

\* Part of a position that costs a unit each has a cost, and leaves such a position.
LEMMA PartPriced ==
    ASSUME NEW e \in ExitRecord, e.sell \in 1 .. e.amount, e.amount <= e.cost
    PROVE  CostReleased(e) > 0 /\ e.amount - e.sell <= e.cost - CostReleased(e)
<1> DEFINE c == e.cost  s == e.sell  a == e.amount  k == c - (a - s)
<1>1. c \in Int /\ a \in Nat \ {0} /\ s \in 1 .. a /\ a <= c /\ CostReleased(e) = (c * s) \div a
  BY DEF ExitRecord, CostReleased
<1> HIDE DEF c, s, a, k
<1>2. k \in Int /\ c * s \in Int
  BY <1>1 DEF k
<1>3. c * s <= k * a
  <2>1. (c - a) * (a - s) >= 0
    <3>1. c - a \in Nat /\ a - s \in Nat
      BY <1>1
    <3> QED
      BY <3>1
  <2>2. (c - a) * (a - s) = k * a - c * s
    BY <1>1 DEF k
  <2> QED
    BY <1>1, <1>2, <2>1, <2>2
<1>4. a <= c * s
  <2>1. c * s >= c * 1
    BY <1>1
  <2> QED
    BY <1>1, <2>1
<1>5. ASSUME NEW n \in Int, a <= n, n <= k * a PROVE n \div a >= 1 /\ n \div a <= k
  BY <1>1, <1>2, <1>5
<1>6. (c * s) \div a >= 1 /\ (c * s) \div a <= k
  BY <1>2, <1>3, <1>4, <1>5
<1>7. (c * s) \div a \in Int
  BY <1>1, <1>2
<1>8. CostReleased(e) > 0 /\ a - s <= c - CostReleased(e)
  BY <1>1, <1>6, <1>7 DEF k
<1> QED
  BY <1>8 DEF a, s, c

\* Entry steps: a fill is one of Fills until it is booked at its price.
LEMMA EntryKnown ==
    ASSUME IInv, Known, NEW r \in ResIds,
           \/ Enter(r) \/ SaveOrder(r) \/ Execute(r) \/ CommitFill(r) \/ BookPosition(r)
           \/ ReleaseHold(r) \/ KeepHold(r) \/ EntryRaises(r)
    PROVE  Known'
<1> USE DEF IInv, Known
<1>1. /\ worker \in [ResIds -> WorkerRecord] /\ row \in [ResIds -> Row]
      /\ reservation \in [ResIds -> {Unborn, Gone} \cup Live]
  BY DEF Typed, TypeOK, WorkerRecord
<1>2. UNCHANGED <<exit, raced, realized_today>>
  BY DEF Enter, SaveOrder, Execute, CommitFill, BookPosition, ReleaseHold, KeepHold,
         EntryRaises, exitVars, ghosts, ledgerVars, Reserve, Commit, Release
<1>3. \A s \in ResIds \ {r} : worker'[s] = worker[s] /\ row'[s] = row[s]
                              /\ reservation'[s] = reservation[s]
  BY <1>1 DEF Enter, SaveOrder, Execute, CommitFill, BookPosition, ReleaseHold, KeepHold,
              EntryRaises, Reserve, Commit, Release, ledgerVars
<1>4. worker'[r].pc \in {"filled", "booking"} => worker'[r].filled \in Fills
  <2>1. CASE Execute(r)
    BY <1>1, <2>1 DEF Execute, WorkerRecord
  <2>2. CASE CommitFill(r)
    BY <1>1, <2>2 DEF CommitFill, WorkerRecord, FillsKnown
  <2>3. CASE ~Execute(r) /\ ~CommitFill(r)
    <3>1. worker'[r].pc \notin {"filled", "booking"}
      BY <1>1, <2>3 DEF Enter, SaveOrder, BookPosition, ReleaseHold, KeepHold, EntryRaises,
                        WorkerRecord
    <3> QED
      BY <3>1
  <2> QED
    BY <2>1, <2>2, <2>3
<1>5. CASE BookPosition(r)
  <2>1. /\ row'[r].mint = reservation[r].mint /\ row'[r].wallet = reservation[r].wallet
        /\ row'[r].amount = Units /\ row'[r].cost = worker[r].filled
        /\ reservation' = reservation
    BY <1>1, <1>5 DEF BookPosition, ledgerVars
  <2>2. 0 < Units /\ Units <= worker[r].filled
    <3>1. worker[r].filled \in Nat /\ worker[r].filled > 0 /\ worker[r].filled % Units = 0
      BY <1>1, <1>5, LifecycleAssumption, LedgerAssumption DEF BookPosition, FillsKnown
    <3>2. Units \in Nat \ {0}
      BY LifecycleAssumption
    <3>3. ASSUME NEW f \in Nat, f > 0, f % Units = 0 PROVE Units <= f
      BY <3>2, <3>3
    <3> QED
      BY <3>1, <3>2, <3>3
  <2> QED
    BY <1>2, <1>3, <1>4, <2>1, <2>2 DEF FillsKnown, ProceedsKnown, RowsMatch, Priced
<1>6. CASE ~BookPosition(r)
  <2>1. row' = row
    BY <1>6 DEF Enter, SaveOrder, Execute, CommitFill, ReleaseHold, KeepHold, EntryRaises
  <2>2. row[r].status # "none" => reservation'[r] = reservation[r]
    <3>1. row[r].status # "none" => CommittedTo(r) /\ worker[r].pc = "done"
      BY DEF Stages
    <3> QED
      BY <1>1, <1>6, <3>1 DEF CommittedTo, Enter, Reserve, Unborn, SaveOrder, Execute, CommitFill,
             ReleaseHold, KeepHold, EntryRaises, ledgerVars
  <2> QED
    BY <1>2, <1>3, <1>4, <2>1, <2>2 DEF FillsKnown, ProceedsKnown, RowsMatch, Priced
<1> QED
  BY <1>5, <1>6

\* Steps that leave rows and reservations alone; an exit may end.
LEMMA OtherKnown ==
    ASSUME Known, UNCHANGED <<row, reservation>>, realized_today' \in Int,
           \A r \in ResIds : worker'[r].pc \in {"filled", "booking"} => worker'[r] = worker[r],
           raced \subseteq raced',
           \A x \in Exiters, r \in ResIds :
               \/ exit'[x][r].pc \notin {"sold", "reduced"}
               \/ exit'[x][r].pc = "sold" /\ exit'[x][r].proceeds \in Proceeds
               \/ exit'[x][r] = exit[x][r]
    PROVE  Known'
<1>1. FillsKnown' /\ ProceedsKnown' /\ RowsMatch'
  BY DEF Known, FillsKnown, ProceedsKnown, RowsMatch
<1>2. Priced'
  BY DEF Known, Priced
<1> QED
  BY <1>1, <1>2 DEF Known

\* A sale booked in the row has its cost, and leaves a row at its price.
LEMMA ReduceKnown ==
    ASSUME IInv, Known, NEW x \in Exiters, NEW r \in ResIds, Reduce(x, r)
    PROVE  Known'
<1> USE DEF IInv, Known
<1> DEFINE e == exit[x][r]  new == exit'[x][r]  p == row[r]  q == row'[r]
<1>1. /\ e.pc = "sold" /\ new = [e EXCEPT !.pc = "reduced"]
      /\ \A y \in Exiters, s \in ResIds : y # x \/ s # r => exit'[y][s] = exit[y][s]
      /\ q = Reduced(p, e) /\ \A s \in ResIds \ {r} : row'[s] = row[s]
  BY ReduceSerial
<1>2. UNCHANGED <<reservation, worker, raced, realized_today>>
  BY DEF Reduce, ledgerVars, entryVars, ghosts
<1>3. /\ e \in ExitRecord /\ SaleTyped(e) /\ p \in Row /\ e.sell \in 1 .. e.amount
      /\ e.sell \in Nat
  BY <1>1 DEF Typed, ExitsTyped, SaleTyped
<1>4. new.proceeds = e.proceeds /\ CostReleased(new) = CostReleased(e)
  BY <1>1, <1>3 DEF ExitRecord, CostReleased
<1>5. CostReleased(e) \in Int
  BY <1>3, CostShare
<1>6. /\ q.mint = p.mint /\ q.wallet = p.wallet
      /\ q.status = (IF Fully(e) THEN "closed" ELSE "open")
      /\ ~Fully(e) => q.amount = p.amount - e.sell /\ q.cost = p.cost - CostReleased(e)
  <2>1. q.mint = p.mint /\ q.wallet = p.wallet
    BY <1>1, <1>3 DEF Reduced, Row
  <2> HIDE DEF e, p, q
  <2> QED
    BY <1>1, <1>3, <1>5, <2>1, ReducedTyped DEF q
<1>7. ASSUME r \notin raced
      PROVE  /\ CostReleased(e) > 0
             /\ ~Fully(e) => 0 < q.amount /\ q.amount <= q.cost
  <2>1. p.status = "open" /\ p.amount = e.amount /\ p.cost = e.cost
    BY <1>1, <1>7 DEF Serial, SeesRow
  <2>2. 0 < e.amount /\ e.amount <= e.cost
    BY <1>7, <2>1 DEF Priced
  <2>3. CostReleased(e) > 0 /\ e.amount - e.sell <= e.cost - CostReleased(e)
    BY <1>3, <2>2, PartPriced
  <2>4. ~Fully(e) => 0 < e.amount - e.sell
    BY <1>3 DEF Fully, ExitRecord
  <2> HIDE DEF e, q
  <2> QED
    BY <1>6, <2>1, <2>3, <2>4
<1>8. row[r].status # "none"
  BY <1>1 DEF Stages
<1> HIDE DEF e, new, p, q
<1>9. FillsKnown' /\ RowsMatch'
  BY <1>1, <1>2, <1>6, <1>8 DEF FillsKnown, RowsMatch, p, q
<1>10. ProceedsKnown'
  <2>1. new.proceeds \in Proceeds
    BY <1>1, <1>4 DEF ProceedsKnown, e
  <2>2. ASSUME NEW y \in Exiters, NEW s \in ResIds, exit'[y][s].pc \in {"sold", "reduced"}
        PROVE  exit'[y][s].proceeds \in Proceeds
    <3>1. CASE y = x /\ s = r
      BY <2>1, <3>1 DEF new
    <3>2. CASE y # x \/ s # r
      BY <1>1, <2>2, <3>2 DEF ProceedsKnown
    <3> QED
      BY <3>1, <3>2
  <2> QED
    BY <2>2 DEF ProceedsKnown
<1>11. Priced'
  <2> SUFFICES ASSUME NEW s \in ResIds \ raced
               PROVE  /\ row'[s].status = "open" =>
                            0 < row'[s].amount /\ row'[s].amount <= row'[s].cost
                      /\ \A y \in Exiters : exit'[y][s].pc = "reduced" =>
                                                CostReleased(exit'[y][s]) > 0
    BY <1>2 DEF Priced
  <2>1. CASE s # r
    BY <1>1, <2>1 DEF Priced
  <2>2. CASE s = r
    <3>1. q.status = "open" => 0 < q.amount /\ q.amount <= q.cost
      BY <1>6, <1>7, <2>2
    <3>2. CostReleased(new) > 0
      BY <1>4, <1>7, <2>2
    <3>3. \A y \in Exiters \ {x} : exit'[y][s] = exit[y][s]
      BY <1>1
    <3> QED
      BY <2>2, <3>1, <3>2, <3>3 DEF Priced, q, new
  <2> QED
    BY <2>1, <2>2
<1> QED
  BY <1>2, <1>9, <1>10, <1>11

\* What is known of fills, proceeds and prices survives every step.
LEMMA NextKnown == ASSUME IInv, Known, [Next]_vars PROVE Known'
<1> USE DEF IInv
<1>1. /\ realized_today \in Int /\ worker \in [ResIds -> WorkerRecord]
      /\ exit \in [Exiters -> [ResIds -> ExitRecord]]
  BY DEF Known, Typed, TypeOK, WorkerRecord, ExitsTyped
<1>2. CASE StartTrading \/ EmergencyStop \/ ClearKill \/ MarkTick \/ UNCHANGED vars
  <2>1. UNCHANGED <<reservation, realized_today, row, worker, exit, raced>>
    BY <1>2 DEF StartTrading, EmergencyStop, ClearKill, MarkTick, Mark, vars, ledgerVars,
                entryVars, exitVars, ghosts
  <2> QED
    BY <1>1, <2>1, OtherKnown
<1>3. CASE DecisionCrash
  <2>1. UNCHANGED <<reservation, realized_today, row, exit, raced>>
    BY <1>3 DEF DecisionCrash, ledgerVars, exitVars, ghosts
  <2>2. \A s \in ResIds : worker'[s].pc \in {"filled", "booking"} => worker'[s] = worker[s]
    BY <1>1, <1>3 DEF DecisionCrash, WorkerRecord
  <2> QED
    BY <1>1, <2>1, <2>2, OtherKnown
<1>4. ASSUME NEW r \in ResIds,
             \/ Enter(r) \/ SaveOrder(r) \/ Execute(r) \/ CommitFill(r) \/ BookPosition(r)
             \/ ReleaseHold(r) \/ KeepHold(r) \/ EntryRaises(r)
      PROVE  Known'
  BY <1>4, EntryKnown
<1>5. ASSUME NEW x \in Exiters, ReadOpen(x), UNCHANGED realized_today PROVE Known'
  <2>1. /\ UNCHANGED <<reservation, realized_today, row, worker>> /\ raced \subseteq raced'
        /\ \A s \in ResIds : exit'[x][s] = IF s \in OpenRows THEN Snapshot(s) ELSE NoExit
        /\ \A y \in Exiters \ {x}, s \in ResIds : exit'[y][s] = exit[y][s]
    BY <1>1, <1>5 DEF ReadOpen, ledgerVars, entryVars
  <2>2. \A s \in ResIds : exit'[x][s].pc \in {"idle", "snapshot"}
    <3>1. \A s \in ResIds : Snapshot(s).pc = "snapshot"
      BY DEF Snapshot, NoExit
    <3> QED
      BY <2>1, <3>1, NoExitTyped
  <2> QED
    BY <1>1, <2>1, <2>2, OtherKnown
<1>6. ASSUME NEW x \in Exiters, NEW r \in ResIds, Authorise(x, r) \/ NoSale(x, r)
      PROVE  Known'
  <2>1. /\ UNCHANGED <<reservation, realized_today, row, worker, raced>>
        /\ \A y \in Exiters, s \in ResIds : y # x \/ s # r => exit'[y][s] = exit[y][s]
        /\ exit'[x][r].pc \in {"cleared", "idle"}
    BY <1>1, <1>6 DEF Authorise, NoSale, NoExit, ledgerVars, entryVars, ghosts, ExitRecord
  <2> QED
    BY <1>1, <2>1, OtherKnown
<1>7. ASSUME NEW x \in Exiters, NEW r \in ResIds, Sell(x, r) PROVE Known'
  <2>1. PICK sell \in SellAmounts(x, exit[x][r]), proceeds \in Proceeds :
           /\ sell > 0
           /\ exit' = [exit EXCEPT ![x][r].pc = "sold", ![x][r].sell = sell,
                                   ![x][r].proceeds = proceeds]
    BY <1>7, Zenon DEF Sell
  <2>2. UNCHANGED <<reservation, realized_today, row, worker, raced>>
    BY <1>7 DEF Sell, ledgerVars, entryVars, ghosts
  <2>3. \A y \in Exiters, s \in ResIds : y # x \/ s # r => exit'[y][s] = exit[y][s]
    BY <1>1, <2>1
  <2>4. exit'[x][r].pc = "sold" /\ exit'[x][r].proceeds = proceeds
    BY <1>1, <2>1 DEF ExitRecord
  <2> QED
    BY <1>1, <2>2, <2>3, <2>4, OtherKnown
<1>8. ASSUME NEW x \in Exiters, ExiterCrash(x) \/ \E r \in ResIds : ExitRaises(x, r)
      PROVE  Known'
  <2>1. /\ \A y \in Exiters, s \in ResIds : exit'[y][s] \in {exit[y][s], NoExit}
        /\ UNCHANGED <<reservation, realized_today, row, worker, raced>>
    BY <1>1, <1>8 DEF ExiterCrash, ExitRaises, ledgerVars, entryVars, ghosts
  <2> QED
    BY <1>1, <2>1, NoExitTyped, OtherKnown
<1>9. ASSUME NEW x \in Exiters, NEW r \in ResIds, Settle(x, r) PROVE Known'
  <2>1. /\ \A y \in Exiters, s \in ResIds : exit'[y][s] \in {exit[y][s], NoExit}
        /\ UNCHANGED <<reservation, row, worker, raced>>
    BY <1>1, <1>9 DEF Settle, ReleasePosition, entryVars
  <2>2. realized_today' \in Int
    <3> DEFINE e == exit[x][r]  c == CostReleased(e)
    <3>1. e \in ExitRecord /\ e.sell \in 1 .. e.amount /\ e.proceeds \in Nat
      BY <1>9 DEF Settle, Typed, ExitsTyped, SaleTyped, ExitRecord
    <3>2. c \in Int
      BY <3>1, CostShare
    <3>3. realized_today' = realized_today + (e.proceeds - c)
      BY <1>9 DEF Settle, ReleasePosition
    <3> HIDE DEF e, c
    <3> QED
      BY <1>1, <3>1, <3>2, <3>3
  <2> QED
    BY <2>1, <2>2, NoExitTyped, OtherKnown
<1>10. CASE ReadTick \/ \E j \in Jobs : ReadJob(j)
  <2>1. UNCHANGED realized_today /\ \E x \in Exiters : ReadOpen(x)
    BY <1>10 DEF ReadTick, ReadJob, ReadOpen, Exiters, ledgerVars
  <2> QED
    BY <1>5, <2>1
<1> QED
  BY <1>2, <1>3, <1>4, <1>6, <1>7, <1>8, <1>9, <1>10, ReduceKnown DEF Next

\* Before the first entry.
LEMMA InitKnown == Init => Known
<1> SUFFICES ASSUME Init PROVE Known
  OBVIOUS
<1>1. /\ realized_today = 0 /\ \A r \in ResIds : worker[r].pc = "none" /\ row[r].status = "none"
      /\ \A x \in Exiters, r \in ResIds : exit[x][r].pc = "idle"
  BY DEF Init, LedgerInit, Fresh, NoWorker, NoRow, NoExit
<1> QED
  BY <1>1 DEF Known, FillsKnown, ProceedsKnown, RowsMatch, Priced

\* An entry of the book, from its reservation and what was released of it.
OnBook(r) == CommittedTo(r) /\ released[r] < reservation[r].usd

BookedAs(r) ==
    /\ r \in Held => Entries[r] = BookOf!Entry("hold", reservation[r].mint,
                                       reservation[r].wallet, reservation[r].usd)
    /\ OnBook(r) =>
           Entries[r] = BookOf!Entry("position", reservation[r].mint,
                            reservation[r].wallet, reservation[r].usd - released[r])
    /\ r \notin Held /\ ~OnBook(r) =>
           Entries[r] = IF reservation[r] = Unborn THEN BookOf!Free ELSE BookOf!Settled
    /\ Entries[r].usd \in Nat
    /\ r \in BookOf!Holds <=> r \in Held
    /\ r \in BookOf!Positions <=> OnBook(r)
    /\ r \in BookOf!Committed <=> r \in BookOf!Holds \/ r \in BookOf!Positions
    /\ r \notin BookOf!Committed => Entries[r].usd = 0

LEMMA EntryReads == ASSUME Typed, NEW r \in ResIds PROVE BookedAs(r)
<1> USE DEF BookedAs, OnBook, CommittedTo, Held, BookOf!Entry, BookOf!Free, BookOf!Settled,
            BookOf!Holds, BookOf!Positions, BookOf!Committed
<1>1. released[r] \in Int
  BY DEF Typed
<1>2. CASE r \in Held
  <2>1. reservation[r] \in Live /\ reservation[r].usd \in Nat
    BY <1>2, LiveWhenSettled
  <2>2. Entries[r] = [reservation[r] EXCEPT !.state = "hold"]
    BY <1>2 DEF Entries
  <2>3. Entries[r] = BookOf!Entry("hold", reservation[r].mint, reservation[r].wallet,
                                  reservation[r].usd)
    BY <2>1, <2>2 DEF Live
  <2> QED
    BY <1>2, <2>1, <2>3
<1>3. CASE CommittedTo(r) /\ released[r] < reservation[r].usd
  <2>1. reservation[r] \in Live /\ reservation[r].usd \in Nat
    BY <1>3, LiveWhenSettled
  <2> DEFINE left == reservation[r].usd - released[r]
  <2>2. left \in Nat
    BY <1>1, <1>3, <2>1
  <2>3. Entries[r] = [reservation[r] EXCEPT !.state = "position", !.usd = left]
    BY <1>3 DEF Entries
  <2>4. Entries[r] = BookOf!Entry("position", reservation[r].mint, reservation[r].wallet, left)
    <3> HIDE DEF left
    <3> QED
      BY <2>1, <2>2, <2>3 DEF Live
  <2> QED
    BY <1>3, <2>2, <2>4
<1>4. CASE r \notin Held /\ ~(CommittedTo(r) /\ released[r] < reservation[r].usd)
  <2>1. Entries[r] = [state |-> IF reservation[r] = Unborn THEN "free" ELSE "settled", usd |-> 0]
    BY <1>4 DEF Entries
  <2> QED
    BY <1>4, <2>1
<1> QED
  BY <1>2, <1>3, <1>4

EntriesRead == \A r \in ResIds : BookedAs(r)

\* Now and after a step.
LEMMA EntriesReadNow == Typed => EntriesRead
  BY EntryReads DEF EntriesRead

LEMMA EntriesReadNext == Typed' => EntriesRead'
  BY EntriesReadNow, PTL

\* The book sums and counts as this module does.
LEMMA BookSums ==
    ASSUME NEW f, NEW S
    PROVE  /\ BookOf!SumFunctionOnSet(f, S) = SumFunctionOnSet(f, S)
           /\ BookOf!Cardinality(S) = Cardinality(S)
<1>1. BookOf!SumFunctionOnSet(f, S) = SumFunctionOnSet(f, S)
  BY DEF BookOf!SumFunctionOnSet, BookOf!FoldFunctionOnSet, BookOf!MapThenFoldSet,
         SumFunctionOnSet, FoldFunctionOnSet, MapThenFoldSet
<1>2. BookOf!Cardinality(S) = Cardinality(S)
  BY DEF BookOf!Cardinality, Cardinality, BookOf!IsFiniteSet, IsFiniteSet
<1> QED
  BY <1>1, <1>2

\* A step that concerns no other entry changes a total over entries by what it
\* changes of this one.
LEMMA TotalMoves ==
    ASSUME Typed, Typed', NEW r \in ResIds, \A s \in ResIds \ {r} : Entries'[s] = Entries[s],
           NEW A \in SUBSET ResIds, NEW B \in SUBSET ResIds, A \ {r} = B \ {r},
           NEW was, was = IF r \in A THEN Entries[r].usd ELSE 0,
           NEW now, now = IF r \in B THEN Entries'[r].usd ELSE 0
    PROVE  /\ BookOf!SumFunctionOnSet(BookOf!Usd, A) \in Nat
           /\ was <= BookOf!SumFunctionOnSet(BookOf!Usd, A)
           /\ BookOf!SumFunctionOnSet(BookOf!Usd', B)
                = BookOf!SumFunctionOnSet(BookOf!Usd, A) - was + now
<1> DEFINE f == BookOf!Usd  g == BookOf!Usd'
<1>1. f \in [ResIds -> Nat] /\ g \in [ResIds -> Nat]
  BY EntriesReadNow, EntriesReadNext DEF EntriesRead, BookedAs, BookOf!Usd
<1>2. /\ \A s \in ResIds \ {r} : g[s] = f[s]
      /\ f[r] = Entries[r].usd /\ g[r] = Entries'[r].usd
  BY DEF BookOf!Usd
<1>3. IsFiniteSet(ResIds)
  BY LedgerAssumption
<1> HIDE DEF f, g
<1>4. was = (IF r \in A THEN f[r] ELSE 0) /\ now = (IF r \in B THEN g[r] ELSE 0)
  BY <1>2
<1>5. /\ SumFunctionOnSet(f, A) \in Nat /\ was <= SumFunctionOnSet(f, A)
      /\ SumFunctionOnSet(g, B) = SumFunctionOnSet(f, A) - was + now
  BY <1>1, <1>2, <1>3, <1>4, SumMoves
<1>6. /\ BookOf!SumFunctionOnSet(f, A) = SumFunctionOnSet(f, A)
      /\ BookOf!SumFunctionOnSet(g, B) = SumFunctionOnSet(g, B)
  BY BookSums
<1> QED
  BY <1>5, <1>6 DEF f, g

\* The entry moves for a token and a trader, and the totals by as much.
LEMMA ExactMoves ==
    ASSUME Typed, Typed', Exact, NEW r \in ResIds,
           \A s \in ResIds \ {r} : Entries'[s] = Entries[s],
           NEW m \in Mints, NEW w \in Wallets, NEW d \in Int, NEW k \in Int,
           r \in BookOf!Committed => Entries[r].mint = m /\ Entries[r].wallet = w,
           r \in BookOf!Committed' => Entries'[r].mint = m /\ Entries'[r].wallet = w,
           Entries'[r].usd = Entries[r].usd + d, deployed' = deployed + d,
           token_exp' = [token_exp EXCEPT ![m] = @ + d],
           trader_exp' = [trader_exp EXCEPT ![w] = @ + d],
           open_positions' = open_positions + k,
           \/ k = 0 /\ (r \in BookOf!Positions' <=> r \in BookOf!Positions)
           \/ k = 1 /\ r \in BookOf!Positions' /\ r \notin BookOf!Positions
           \/ k = -1 /\ r \notin BookOf!Positions' /\ r \in BookOf!Positions
    PROVE  Exact'
<1>1. /\ Entries[r].usd \in Nat /\ Entries'[r].usd \in Nat
      /\ r \notin BookOf!Committed => Entries[r].usd = 0
      /\ r \notin BookOf!Committed' => Entries'[r].usd = 0
  BY EntriesReadNow, EntriesReadNext DEF EntriesRead, BookedAs
<1>2. /\ BookOf!Committed \in SUBSET ResIds /\ BookOf!Committed' \in SUBSET ResIds
      /\ BookOf!Positions \in SUBSET ResIds /\ BookOf!Positions' \in SUBSET ResIds
  BY DEF BookOf!Committed, BookOf!Positions
<1>3. \A s \in ResIds \ {r} : /\ s \in BookOf!Committed' <=> s \in BookOf!Committed
                              /\ s \in BookOf!Positions' <=> s \in BookOf!Positions
  BY DEF BookOf!Committed, BookOf!Positions
<1>4. deployed' = BookOf!AtWork'
  <2>1. BookOf!Committed \ {r} = BookOf!Committed' \ {r}
    BY <1>2, <1>3
  <2>2. /\ Entries[r].usd = (IF r \in BookOf!Committed THEN Entries[r].usd ELSE 0)
        /\ Entries'[r].usd = (IF r \in BookOf!Committed' THEN Entries'[r].usd ELSE 0)
    BY <1>1
  <2>3. /\ BookOf!SumFunctionOnSet(BookOf!Usd, BookOf!Committed) \in Nat
        /\ BookOf!SumFunctionOnSet(BookOf!Usd', BookOf!Committed')
             = BookOf!SumFunctionOnSet(BookOf!Usd, BookOf!Committed)
                 - Entries[r].usd + Entries'[r].usd
    BY <1>2, <2>1, <2>2, TotalMoves
  <2>4. /\ BookOf!AtWork = BookOf!SumFunctionOnSet(BookOf!Usd, BookOf!Committed)
        /\ BookOf!AtWork' = BookOf!SumFunctionOnSet(BookOf!Usd', BookOf!Committed')
    BY DEF BookOf!AtWork, BookOf!Total
  <2> QED
    BY <1>1, <2>3, <2>4 DEF Exact
<1>5. ASSUME NEW A \in SUBSET ResIds, NEW B \in SUBSET ResIds, A \ {r} = B \ {r},
             A \subseteq BookOf!Committed, B \subseteq BookOf!Committed',
             \/ (r \in BookOf!Committed => r \in A) /\ (r \in BookOf!Committed' => r \in B)
             \/ r \notin A /\ r \notin B
      PROVE  /\ BookOf!SumFunctionOnSet(BookOf!Usd, A) \in Nat
             /\ BookOf!SumFunctionOnSet(BookOf!Usd', B)
                  = BookOf!SumFunctionOnSet(BookOf!Usd, A)
                      + (IF r \in A \/ r \in B THEN d ELSE 0)
  <2> DEFINE was == IF r \in A THEN Entries[r].usd ELSE 0
             now == IF r \in B THEN Entries'[r].usd ELSE 0
             sum == BookOf!SumFunctionOnSet(BookOf!Usd, A)
  <2>1. /\ sum \in Nat /\ BookOf!SumFunctionOnSet(BookOf!Usd', B) = sum - was + now
    <3>1. was = (IF r \in A THEN Entries[r].usd ELSE 0)
          /\ now = (IF r \in B THEN Entries'[r].usd ELSE 0)
      OBVIOUS
    <3> HIDE DEF was, now
    <3> QED
      BY <1>5, <3>1, TotalMoves
  <2>2. /\ was \in Nat /\ now \in Nat
        /\ now - was = IF r \in A \/ r \in B THEN d ELSE 0
    <3>1. CASE r \in A \/ r \in B
      <4>1. was = Entries[r].usd /\ now = Entries'[r].usd
        BY <1>1, <1>5, <3>1
      <4> HIDE DEF was, now
      <4> QED
        BY <1>1, <3>1, <4>1
    <3>2. CASE r \notin A /\ r \notin B
      BY <3>2
    <3> QED
      BY <3>1, <3>2
  <2> HIDE DEF was, now, sum
  <2>3. sum - was + now = sum + (now - was)
    BY <2>1, <2>2
  <2> QED
    BY <2>1, <2>2, <2>3 DEF sum
<1>6. token_exp' = [x \in Mints |-> BookOf!InToken(x)']
  <2>1. ASSUME NEW x \in Mints
        PROVE  token_exp'[x] = BookOf!InToken(x)'
    <3> DEFINE A == {s \in BookOf!Committed : Entries[s].mint = x}
               B == {s \in BookOf!Committed' : Entries'[s].mint = x}
    <3>1. /\ A \in SUBSET ResIds /\ B \in SUBSET ResIds /\ A \ {r} = B \ {r}
          /\ A \subseteq BookOf!Committed /\ B \subseteq BookOf!Committed'
      BY <1>2, <1>3
    <3>2. /\ x = m => /\ r \in BookOf!Committed => r \in A
                      /\ r \in BookOf!Committed' => r \in B
          /\ x # m => r \notin A /\ r \notin B
      OBVIOUS
    <3>3. BookOf!InToken(x) = BookOf!SumFunctionOnSet(BookOf!Usd, A)
          /\ BookOf!InToken(x)' = BookOf!SumFunctionOnSet(BookOf!Usd', B)
      BY DEF BookOf!InToken, BookOf!Total
    <3>4. token_exp[x] = BookOf!InToken(x)
          /\ token_exp'[x] = IF x = m THEN token_exp[x] + d ELSE token_exp[x]
      BY DEF Exact
    <3>5. d = 0 \/ r \in BookOf!Committed \/ r \in BookOf!Committed'
      BY <1>1
    <3> HIDE DEF A, B
    <3>6. /\ BookOf!InToken(x) \in Nat
          /\ BookOf!InToken(x)' = BookOf!InToken(x) + (IF r \in A \/ r \in B THEN d ELSE 0)
      BY <1>5, <3>1, <3>2, <3>3
    <3> QED
      BY <3>2, <3>4, <3>5, <3>6
  <2>2. token_exp' = [x \in Mints |-> token_exp'[x]]
    BY DEF Exact
  <2> QED
    BY <2>1, <2>2
<1>7. trader_exp' = [x \in Wallets |-> BookOf!WithTrader(x)']
  <2>1. ASSUME NEW x \in Wallets
        PROVE  trader_exp'[x] = BookOf!WithTrader(x)'
    <3> DEFINE A == {s \in BookOf!Committed : Entries[s].wallet = x}
               B == {s \in BookOf!Committed' : Entries'[s].wallet = x}
    <3>1. /\ A \in SUBSET ResIds /\ B \in SUBSET ResIds /\ A \ {r} = B \ {r}
          /\ A \subseteq BookOf!Committed /\ B \subseteq BookOf!Committed'
      BY <1>2, <1>3
    <3>2. /\ x = w => /\ r \in BookOf!Committed => r \in A
                      /\ r \in BookOf!Committed' => r \in B
          /\ x # w => r \notin A /\ r \notin B
      OBVIOUS
    <3>3. BookOf!WithTrader(x) = BookOf!SumFunctionOnSet(BookOf!Usd, A)
          /\ BookOf!WithTrader(x)' = BookOf!SumFunctionOnSet(BookOf!Usd', B)
      BY DEF BookOf!WithTrader, BookOf!Total
    <3>4. trader_exp[x] = BookOf!WithTrader(x)
          /\ trader_exp'[x] = IF x = w THEN trader_exp[x] + d ELSE trader_exp[x]
      BY DEF Exact
    <3>5. d = 0 \/ r \in BookOf!Committed \/ r \in BookOf!Committed'
      BY <1>1
    <3> HIDE DEF A, B
    <3>6. /\ BookOf!WithTrader(x) \in Nat
          /\ BookOf!WithTrader(x)' = BookOf!WithTrader(x) + (IF r \in A \/ r \in B THEN d ELSE 0)
      BY <1>5, <3>1, <3>2, <3>3
    <3> QED
      BY <3>2, <3>4, <3>5, <3>6
  <2>2. trader_exp' = [x \in Wallets |-> trader_exp'[x]]
    BY DEF Exact
  <2> QED
    BY <2>1, <2>2
<1>8. open_positions' = Cardinality(BookOf!Positions')
  <2>1. IsFiniteSet(BookOf!Positions) /\ Cardinality(BookOf!Positions) \in Nat
    BY <1>2, LedgerAssumption, FS_Subset, FS_CardinalityType
  <2>2. CASE k = 0 /\ (r \in BookOf!Positions' <=> r \in BookOf!Positions)
    <3>1. \A s \in ResIds : s \in BookOf!Positions' <=> s \in BookOf!Positions
      BY <1>3, <2>2
    <3>2. BookOf!Positions' = BookOf!Positions
      BY <1>2, <3>1
    <3> QED
      BY <2>1, <2>2, <3>2 DEF Exact
  <2>3. CASE k = 1 /\ r \in BookOf!Positions' /\ r \notin BookOf!Positions
    <3>1. BookOf!Positions' = BookOf!Positions \cup {r}
      BY <1>2, <1>3, <2>3
    <3>2. Cardinality(BookOf!Positions \cup {r}) = Cardinality(BookOf!Positions) + 1
      BY <2>1, <2>3, FS_AddElement
    <3> QED
      BY <2>1, <2>3, <3>1, <3>2 DEF Exact
  <2>4. CASE k = -1 /\ r \notin BookOf!Positions' /\ r \in BookOf!Positions
    <3>1. BookOf!Positions' = BookOf!Positions \ {r}
      BY <1>2, <1>3, <2>4
    <3>2. Cardinality(BookOf!Positions \ {r}) = Cardinality(BookOf!Positions) - 1
      BY <2>1, <2>4, FS_RemoveElement
    <3> QED
      BY <2>1, <2>4, <3>1, <3>2 DEF Exact
  <2> QED
    BY <2>2, <2>3, <2>4
<1> QED
  BY <1>4, <1>6, <1>7, <1>8 DEF Exact

\* What the ledger shows is what its entries say.
Shown == [cash |-> cash, deployed |-> deployed, token |-> token_exp, trader |-> trader_exp,
          positions |-> open_positions, pending |-> pending]

Stated ==
    /\ Shown = BookOf!Statement
    /\ BookOf!Worth = cash + deployed /\ BookOf!Cash = cash /\ BookOf!AtWork = deployed
    /\ \A m \in Mints : BookOf!InToken(m) = token_exp[m]
    /\ \A w \in Wallets : BookOf!WithTrader(w) = trader_exp[w]
    /\ Cardinality(BookOf!Holds) = pending
    /\ Cardinality(BookOf!Committed) = pending + open_positions

LEMMA ExactStated == IInv /\ Exact => Stated
<1> SUFFICES ASSUME IInv, Exact PROVE Stated
  OBVIOUS
<1> USE DEF IInv
<1>1. BookOf!Holds = Held
  BY EntriesReadNow DEF EntriesRead, BookedAs, Held, BookOf!Holds
<1>2. Cardinality(BookOf!Holds) = pending
  BY <1>1 DEF HoldsCounted
<1>3. /\ IsFiniteSet(BookOf!Holds) /\ Cardinality(BookOf!Holds) \in Nat
      /\ IsFiniteSet(BookOf!Positions) /\ Cardinality(BookOf!Positions) \in Nat
  BY LedgerAssumption, FS_Subset, FS_CardinalityType DEF BookOf!Holds, BookOf!Positions
<1>4. Cardinality(BookOf!Committed) = pending + open_positions
  <2>1. /\ BookOf!Holds \cap BookOf!Positions = {}
        /\ BookOf!Committed = BookOf!Holds \cup BookOf!Positions
    BY DEF BookOf!Committed, BookOf!Holds, BookOf!Positions
  <2>2. Cardinality(BookOf!Holds \cup BookOf!Positions)
          = Cardinality(BookOf!Holds) + Cardinality(BookOf!Positions)
    BY <1>3, <2>1, FS_Union, FS_EmptySet
  <2> QED
    BY <1>2, <2>1, <2>2 DEF Exact
<1>5. BookOf!Worth = cash + deployed /\ BookOf!Cash = cash /\ BookOf!AtWork = deployed
  BY LedgerAssumption DEF BookOf!Worth, BookOf!Cash, Exact, Typed, TypeOK
<1>6. /\ BookOf!Cardinality(BookOf!Positions) = open_positions
      /\ BookOf!Cardinality(BookOf!Holds) = pending
  BY <1>2, BookSums DEF Exact
<1>7. Shown = BookOf!Statement
  BY <1>5, <1>6 DEF Shown, BookOf!Statement, Exact
<1>8. /\ \A m \in Mints : BookOf!InToken(m) = token_exp[m]
      /\ \A w \in Wallets : BookOf!WithTrader(w) = trader_exp[w]
  BY DEF Exact
<1> QED
  BY <1>2, <1>4, <1>5, <1>7, <1>8 DEF Stated

LEMMA ExactStatedNext == (IInv /\ Exact)' => (Shown = BookOf!Statement)'
<1>1. IInv /\ Exact => Shown = BookOf!Statement
  BY ExactStated DEF Stated
<1> QED
  BY <1>1, PTL

\* A step that touches no reservation and no release of another entry.
LEMMA OtherEntries ==
    ASSUME NEW r \in ResIds,
           \A s \in ResIds \ {r} : reservation'[s] = reservation[s] /\ released'[s] = released[s]
    PROVE  \A s \in ResIds \ {r} : Entries'[s] = Entries[s]
  BY DEF Entries

\* Only the entry changes.
LEMMA OneEntry ==
    ASSUME NEW r \in ResIds, \A s \in ResIds \ {r} : Entries'[s] = Entries[s]
    PROVE  Entries' = [Entries EXCEPT ![r] = Entries'[r]]
<1>1. ASSUME NEW s \in ResIds \ {r} PROVE Entries'[s] = Entries[s]
  OBVIOUS
<1>2. Entries = [s \in ResIds |-> Entries[s]] /\ Entries' = [s \in ResIds |-> Entries'[s]]
  BY Zenon DEF Entries
<1> QED
  BY <1>1, <1>2

\* RESERVE grants what the book admits.
LEMMA EnterBook ==
    ASSUME IInv, IInv', Exact, raced = {}, NEW r \in ResIds, Enter(r)
    PROVE  BookOf!Grant(r) /\ Exact'
<1> USE DEF IInv
<1> PICK m \in Mints, w \in Wallets, size \in Sizes : Reserve(r, m, w, size)
  BY DEF Enter
<1>1. /\ UNCHANGED <<realized_today, equity, hwm, EntriesOpen, released>>
      /\ UNCHANGED (cash + deployed - Capital)
  <2>1. cash \in Int /\ deployed \in Int /\ size \in Int /\ Capital \in Int
    BY LedgerAssumption DEF Typed, TypeOK
  <2> QED
    BY <2>1 DEF Enter, Reserve, keyVars, marks, EntriesOpen, exitVars, ghosts
<1>2. EntriesOpen /\ BookOf!Calm
  BY DEF Reserve, BreakersClosed, BookOf!Calm
<1>3. Entries[r] = BookOf!Free
  BY EntriesReadNow DEF EntriesRead, BookedAs, OnBook, CommittedTo, Held, Reserve, Unborn
<1>4. BookOf!Admits(m, w, size)
  <2>1. BookOf!Cardinality(BookOf!Committed) < MaxOpenPositions
        /\ BookOf!Cardinality(BookOf!Holds) < MaxPending
    <3>1. open_positions + pending = pending + open_positions
      BY DEF Typed, TypeOK
    <3> QED
      BY <3>1, ExactStated, BookSums DEF Stated, Reserve, SlotsFree
  <2> QED
    BY <2>1, ExactStated DEF Stated, Reserve, WithinCaps, BookOf!Admits
<1>5. /\ \A s \in ResIds \ {r} : Entries'[s] = Entries[s]
      /\ reservation'[r] = [state |-> "held", mint |-> m, wallet |-> w, usd |-> size]
  <2>1. reservation' = [reservation EXCEPT
                           ![r] = [state |-> "held", mint |-> m, wallet |-> w, usd |-> size]]
    BY DEF Reserve
  <2>2. reservation \in [ResIds -> {Unborn, Gone} \cup Live]
    BY DEF Typed, TypeOK
  <2> QED
    BY <1>1, <2>1, <2>2, OtherEntries
<1>6. Entries'[r] = BookOf!Entry("hold", m, w, size)
  BY <1>5, EntriesReadNext DEF EntriesRead, BookedAs, Held
<1>7. Entries' = [Entries EXCEPT ![r] = BookOf!Entry("hold", m, w, size)]
  BY <1>5, <1>6, OneEntry
<1>8. BookOf!Grant(r)
  BY <1>1, <1>2, <1>3, <1>4, <1>7 DEF BookOf!Grant, BookOf!account, BookOf!marks
<1>9. Exact'
  <2>1. /\ size \in Int /\ Entries'[r].usd = Entries[r].usd + size
        /\ Entries'[r].mint = m /\ Entries'[r].wallet = w
    BY <1>3, <1>6, LedgerAssumption DEF BookOf!Free, BookOf!Entry
  <2>2. r \notin BookOf!Committed /\ r \notin BookOf!Positions /\ r \notin BookOf!Positions'
    BY <1>3, <1>6 DEF BookOf!Free, BookOf!Committed, BookOf!Positions, BookOf!Entry
  <2>3. /\ deployed' = deployed + size /\ open_positions' = open_positions + 0
        /\ token_exp' = [token_exp EXCEPT ![m] = @ + size]
        /\ trader_exp' = [trader_exp EXCEPT ![w] = @ + size]
    BY DEF Reserve, Typed, TypeOK
  <2>4. Typed /\ Typed' /\ 0 \in Int
    OBVIOUS
  <2> QED
    BY <1>5, <2>1, <2>2, <2>3, <2>4, ExactMoves
<1> QED
  BY <1>8, <1>9

\* Exposures are integers while they are sums over entries.
LEMMA ExposureTyped ==
    ASSUME Typed, Exact
    PROVE  /\ token_exp \in [Mints -> Nat] /\ trader_exp \in [Wallets -> Nat]
           /\ deployed \in Nat
<1>1. ASSUME NEW S \in SUBSET ResIds PROVE BookOf!Total(S) \in Nat
  <2>1. IsFiniteSet(S) /\ \A s \in S : BookOf!Usd[s] \in Nat
    BY LedgerAssumption, FS_Subset, EntriesReadNow DEF EntriesRead, BookedAs, BookOf!Usd
  <2>2. SumFunctionOnSet(BookOf!Usd, S) \in Nat
    BY <2>1, SumNat
  <2> QED
    BY <2>2, BookSums DEF BookOf!Total
<1>2. BookOf!Committed \subseteq ResIds
  BY DEF BookOf!Committed
<1>3. /\ BookOf!AtWork \in Nat /\ \A m : BookOf!InToken(m) \in Nat
      /\ \A w : BookOf!WithTrader(w) \in Nat
  BY <1>1, <1>2 DEF BookOf!AtWork, BookOf!InToken, BookOf!WithTrader
<1> QED
  BY <1>3 DEF Exact

\* No entry is more than the total it is part of.
LEMMA EntryInTotal ==
    ASSUME Typed, NEW S \in SUBSET ResIds, NEW r \in S
    PROVE  Entries[r].usd <= BookOf!Total(S)
<1> DEFINE f == BookOf!Usd
<1>1. f \in [ResIds -> Nat] /\ f[r] = Entries[r].usd
  BY EntriesReadNow DEF EntriesRead, BookedAs, BookOf!Usd
<1>2. IsFiniteSet(ResIds)
  BY LedgerAssumption
<1>3. BookOf!Total(S) = SumFunctionOnSet(f, S)
  BY BookSums DEF BookOf!Total
<1> HIDE DEF f
<1>4. f[r] = IF r \in S THEN f[r] ELSE 0
  OBVIOUS
<1>5. f[r] <= SumFunctionOnSet(f, S)
  BY <1>1, <1>2, <1>4, SumMoves
<1> QED
  BY <1>1, <1>3, <1>5

\* RELEASE gives a hold back.
LEMMA ReleaseBook ==
    ASSUME IInv, IInv', Exact, raced = {}, NEW r \in ResIds, ReleaseHold(r)
    PROVE  BookOf!Withdraw(r) /\ Exact'
<1> USE DEF IInv
<1> DEFINE v == reservation[r]
<1>1. Release(r) /\ UNCHANGED <<keyVars, released>>
  BY DEF ReleaseHold, exitVars, ghosts
<1>2. /\ r \in Held /\ v \in Live /\ v.usd \in Nat /\ v.mint \in Mints /\ v.wallet \in Wallets
      /\ cash \in Int /\ deployed \in Int /\ Capital \in Int
  BY <1>1, LiveWhenSettled, LedgerAssumption DEF Release, Held, Typed, TypeOK
<1>3. Entries[r] = BookOf!Entry("hold", v.mint, v.wallet, v.usd)
  BY <1>2, EntriesReadNow DEF EntriesRead, BookedAs
<1>4. reservation'[r] = Gone /\ \A s \in ResIds \ {r} : reservation'[s] = reservation[s]
  BY <1>1 DEF Release, Typed, TypeOK
<1>5. \A s \in ResIds \ {r} : Entries'[s] = Entries[s]
  BY <1>1, <1>4, OtherEntries
<1>6. Entries'[r] = BookOf!Settled
  <2>1. Gone # Unborn /\ Gone.state \notin {"held", "committed"}
    BY DEF Gone, Unborn
  <2> QED
    BY <1>4, <2>1, EntriesReadNext DEF EntriesRead, BookedAs, OnBook, CommittedTo, Held
<1>7. Entries' = [Entries EXCEPT ![r] = BookOf!Settled]
  BY <1>5, <1>6, OneEntry
<1>8. /\ UNCHANGED <<realized_today, equity, hwm, EntriesOpen>>
      /\ cash' = cash + v.usd /\ deployed' = deployed - v.usd
  BY <1>1 DEF Release, keyVars, marks, EntriesOpen
<1>9. cash' + deployed' - Capital = cash + deployed - Capital
  BY <1>2, <1>8
<1>10. r \in BookOf!Holds
  BY <1>3 DEF BookOf!Holds, BookOf!Entry
<1>11. BookOf!Withdraw(r)
  BY <1>7, <1>8, <1>9, <1>10 DEF BookOf!Withdraw, BookOf!account, BookOf!marks
<1>12. Exact'
  <2>1. /\ deployed' = deployed + (-v.usd) /\ open_positions' = open_positions + 0
        /\ token_exp' = [token_exp EXCEPT ![v.mint] = @ + (-v.usd)]
        /\ trader_exp' = [trader_exp EXCEPT ![v.wallet] = @ + (-v.usd)]
    <3>1. /\ deployed' = deployed - v.usd /\ open_positions' = open_positions
          /\ token_exp' = [token_exp EXCEPT ![v.mint] = token_exp[v.mint] - v.usd]
          /\ trader_exp' = [trader_exp EXCEPT ![v.wallet] = trader_exp[v.wallet] - v.usd]
      BY <1>1 DEF Release
    <3>2. open_positions \in Int /\ token_exp[v.mint] \in Int /\ trader_exp[v.wallet] \in Int
      BY <1>2, ExposureTyped DEF Typed, TypeOK
    <3> HIDE DEF v
    <3>3. /\ deployed - v.usd = deployed + (-v.usd) /\ open_positions = open_positions + 0
          /\ token_exp[v.mint] - v.usd = token_exp[v.mint] + (-v.usd)
          /\ trader_exp[v.wallet] - v.usd = trader_exp[v.wallet] + (-v.usd)
      BY <1>2, <3>2
    <3> QED
      BY <3>1, <3>3
  <2>2. /\ -v.usd \in Int /\ Entries'[r].usd = Entries[r].usd + (-v.usd)
        /\ Entries[r].mint = v.mint /\ Entries[r].wallet = v.wallet
    BY <1>2, <1>3, <1>6 DEF BookOf!Settled, BookOf!Entry
  <2>3. r \notin BookOf!Committed' /\ r \notin BookOf!Positions /\ r \notin BookOf!Positions'
    BY <1>3, <1>6 DEF BookOf!Settled, BookOf!Committed, BookOf!Positions, BookOf!Entry
  <2>4. Typed /\ Typed' /\ 0 \in Int
    OBVIOUS
  <2> HIDE DEF v
  <2> QED
    BY <1>2, <1>5, <2>1, <2>2, <2>3, <2>4, ExactMoves
<1> QED
  BY <1>11, <1>12

\* COMMIT makes a hold a position of what it filled at.
LEMMA CommitBook ==
    ASSUME IInv, IInv', Known, Exact, raced = {}, NEW r \in ResIds, CommitFill(r)
    PROVE  BookOf!Fill(r) /\ Exact'
<1> USE DEF IInv
<1> DEFINE v == reservation[r]  fill == worker[r].filled  d == fill - v.usd
<1>1. Commit(r, fill) /\ UNCHANGED <<keyVars, released>>
  BY DEF CommitFill, exitVars, ghosts
<1>2. /\ r \in Held /\ v \in Live /\ v.usd \in Nat /\ v.mint \in Mints /\ v.wallet \in Wallets
      /\ cash \in Int /\ deployed \in Int /\ Capital \in Int
  BY <1>1, LiveWhenSettled, LedgerAssumption DEF Commit, Held, Typed, TypeOK
<1>3. fill \in Fills /\ fill \in Nat /\ fill > 0
  BY LedgerAssumption, LifecycleAssumption DEF CommitFill, Known, FillsKnown
<1>4. Entries[r] = BookOf!Entry("hold", v.mint, v.wallet, v.usd)
  BY <1>2, EntriesReadNow DEF EntriesRead, BookedAs
<1>5. /\ reservation'[r].state = "committed" /\ reservation'[r].usd = fill
      /\ reservation'[r].mint = v.mint /\ reservation'[r].wallet = v.wallet
      /\ \A s \in ResIds \ {r} : reservation'[s] = reservation[s]
  <2>1. reservation' = [reservation EXCEPT ![r].state = "committed", ![r].usd = fill]
        /\ reservation \in [ResIds -> {Unborn, Gone} \cup Live]
    BY <1>1 DEF Commit, Typed, TypeOK
  <2> HIDE DEF fill
  <2> QED
    BY <1>2, <2>1 DEF Live
<1>6. \A s \in ResIds \ {r} : Entries'[s] = Entries[s]
  BY <1>1, <1>5, OtherEntries
<1>7. Entries'[r] = BookOf!Entry("position", v.mint, v.wallet, fill)
  <2>1. released'[r] = 0
    BY <1>1, <1>2 DEF Spent, CommittedTo, Held
  <2>2. OnBook(r)' /\ reservation'[r].usd - released'[r] = fill
    BY <1>3, <1>5, <2>1 DEF OnBook, CommittedTo
  <2> QED
    BY <1>5, <2>2, EntriesReadNext DEF EntriesRead, BookedAs
<1>8. Entries' = [Entries EXCEPT ![r] = BookOf!Entry("position", @.mint, @.wallet, fill)]
  BY <1>4, <1>6, <1>7, OneEntry DEF BookOf!Entry
<1>9. /\ UNCHANGED <<realized_today, equity, hwm, EntriesOpen>>
      /\ cash' = cash - d /\ deployed' = deployed + d
  BY <1>1 DEF Commit, keyVars, marks, EntriesOpen
<1>10. d \in Int
  BY <1>2, <1>3
<1>11. cash' + deployed' - Capital = cash + deployed - Capital
  <2> HIDE DEF d
  <2> QED
    BY <1>2, <1>9, <1>10
<1>12. r \in BookOf!Holds
  BY <1>4 DEF BookOf!Holds, BookOf!Entry
<1>13. BookOf!Fill(r)
  BY <1>3, <1>8, <1>9, <1>11, <1>12 DEF BookOf!Fill, BookOf!account, BookOf!marks
<1>14. Exact'
  <2>1. /\ open_positions' = open_positions + 1
        /\ token_exp' = [token_exp EXCEPT ![v.mint] = @ + d]
        /\ trader_exp' = [trader_exp EXCEPT ![v.wallet] = @ + d]
    BY <1>1 DEF Commit
  <2>2. /\ Entries'[r].usd = Entries[r].usd + d
        /\ Entries[r].mint = v.mint /\ Entries[r].wallet = v.wallet
        /\ Entries'[r].mint = v.mint /\ Entries'[r].wallet = v.wallet
    BY <1>2, <1>3, <1>4, <1>7 DEF BookOf!Entry
  <2>3. r \notin BookOf!Positions /\ r \in BookOf!Positions'
    BY <1>4, <1>7 DEF BookOf!Positions, BookOf!Entry
  <2>4. Typed /\ Typed' /\ 1 \in Int
    OBVIOUS
  <2> HIDE DEF v, d
  <2> QED
    BY <1>2, <1>6, <1>9, <1>10, <2>1, <2>2, <2>3, <2>4, ExactMoves
<1> QED
  BY <1>13, <1>14

\* An exit that is settled reduces its position, or settles it: what is due is
\* more than nothing, and all of the entry when the exit closes the row.
LEMMA SettleBook ==
    ASSUME IInv, IInv', Known, Exact, NothingLost, NEW x \in Exiters, NEW r \in ResIds,
           Settle(x, r)
    PROVE  BookOf!Reduce(r) /\ Exact'
<1> USE DEF IInv
<1> DEFINE e == exit[x][r]  p == row[r]  v == reservation[r]  c == CostReleased(e)
           left == v.usd - released[r]
<1>1. /\ e.pc = "reduced" /\ UNCHANGED <<keyVars, row, worker, raced>>
      /\ ReleasePosition(p.mint, p.wallet, c, e.proceeds - c, e.proceeds, Fully(e))
      /\ released' = [released EXCEPT ![r] = @ + c]
  BY DEF Settle, entryVars
<1>2. /\ e \in ExitRecord /\ SaleTyped(e) /\ e.cost \in Nat /\ p.cost \in Nat
      /\ p.status = (IF Fully(e) THEN "closed" ELSE "open") /\ p.status # "none"
      /\ \A y \in Exiters \ {x} : exit[y][r].pc # "reduced"
  <2>1. e \in ExitRecord /\ SaleTyped(e) /\ p.cost \in Nat /\ SeesRow(e, p)
    BY DEF Typed, ExitsTyped, Serial, NothingLost
  <2>2. \A y \in Exiters \ {x} : exit[y][r].pc = "idle"
    BY <1>1 DEF Serial, NothingLost
  <2>3. e.cost \in Nat /\ p.status = IF Fully(e) THEN "closed" ELSE "open"
    BY <1>1, <2>1 DEF SeesRow
  <2> HIDE DEF e, p
  <2> QED
    BY <2>1, <2>2, <2>3
<1>3. e.proceeds \in Proceeds /\ e.proceeds \in Nat
  BY <1>1, LedgerAssumption DEF Known, ProceedsKnown
<1>4. c \in Nat /\ c > 0
  <2>1. e.sell \in 1 .. e.amount
    BY <1>1, <1>2 DEF SaleTyped
  <2>2. c \in Nat
    BY <1>2, <2>1, CostShare
  <2> QED
    BY <1>1, <2>2 DEF Known, Priced, NothingLost
<1>5. /\ v.state = "committed" /\ v \in Live /\ v.usd \in Nat /\ v.mint \in Mints
      /\ v.wallet \in Wallets /\ p.mint = v.mint /\ p.wallet = v.wallet
      /\ worker[r].filled = v.usd
  <2>1. CommittedTo(r) /\ worker[r].filled = v.usd
    BY <1>2 DEF Stages, CommittedTo
  <2> QED
    BY <1>2, <2>1, LiveWhenSettled DEF CommittedTo, Known, RowsMatch
<1>6. /\ left \in Nat /\ 1 <= c /\ c <= left /\ (Fully(e) <=> c = left)
      /\ released[r] \in Int
  <2>1. Due(exit, r) = c
    BY <1>1, <1>2, DueOfOne
  <2>2. released[r] + (IF r \in OpenRows THEN p.cost ELSE 0) + Due(exit, r) = v.usd
    BY <1>2, <1>5 DEF NothingLost
  <2>3. p.status = "open" => p.cost > 0
    <3>1. r \in ResIds \ raced
      BY DEF NothingLost
    <3>2. p.status = "open" => 0 < p.amount /\ p.amount <= p.cost
      BY <3>1 DEF Known, Priced
    <3>3. p.amount \in Int
      BY DEF Typed, TypeOK
    <3> HIDE DEF p
    <3> QED
      BY <1>2, <3>2, <3>3
  <2>4. released[r] \in Int /\ (r \in OpenRows <=> p.status = "open")
    BY DEF Typed, OpenRows
  <2>5. left = (IF p.status = "open" THEN p.cost ELSE 0) + c
    <3> HIDE DEF c, p, v
    <3> QED
      BY <1>2, <1>4, <1>5, <2>1, <2>2, <2>4 DEF v
  <2> HIDE DEF c, p, e, left
  <2>6. CASE Fully(e)
    BY <1>2, <1>4, <2>4, <2>5, <2>6
  <2>7. CASE ~Fully(e)
    BY <1>2, <1>4, <2>3, <2>4, <2>5, <2>7
  <2> QED
    BY <2>6, <2>7
<1>7. Entries[r] = BookOf!Entry("position", v.mint, v.wallet, left)
  <2>1. released[r] < v.usd
    <3> HIDE DEF c, v
    <3> QED
      BY <1>4, <1>5, <1>6 DEF v
  <2> QED
    BY <1>5, <2>1, EntriesReadNow DEF EntriesRead, BookedAs, OnBook, CommittedTo
<1>8. /\ reservation' = reservation /\ released'[r] = released[r] + c
      /\ \A s \in ResIds \ {r} : released'[s] = released[s]
  BY <1>1 DEF ReleasePosition, Typed
<1>9. \A s \in ResIds \ {r} : Entries'[s] = Entries[s]
  BY <1>8, OtherEntries
<1>10. Entries'[r] = IF c = left THEN BookOf!Settled
                     ELSE BookOf!Entry("position", v.mint, v.wallet, left - c)
  <2>1. /\ reservation'[r] = v /\ v # Unborn /\ ~(r \in Held)'
        /\ OnBook(r)' <=> released[r] + c < v.usd
    BY <1>5, <1>8 DEF OnBook, CommittedTo, Held, Unborn
  <2>2. /\ (released[r] + c < v.usd) <=> c # left
        /\ v.usd - (released[r] + c) = left - c
    <3> HIDE DEF c, v
    <3> QED
      BY <1>4, <1>5, <1>6
  <2>3. /\ OnBook(r)' => Entries'[r] = BookOf!Entry("position", v.mint, v.wallet,
                                                    v.usd - (released[r] + c))
        /\ ~OnBook(r)' => Entries'[r] = BookOf!Settled
    BY <1>8, <2>1, EntriesReadNext DEF EntriesRead, BookedAs
  <2> HIDE DEF c, v, left
  <2> QED
    BY <2>1, <2>2, <2>3
<1>11. Entries' = [Entries EXCEPT ![r] =
                     IF c = @.usd THEN BookOf!Settled
                     ELSE BookOf!Entry("position", @.mint, @.wallet, @.usd - c)]
  <2>1. Entries[r].usd = left /\ Entries[r].mint = v.mint /\ Entries[r].wallet = v.wallet
    BY <1>7 DEF BookOf!Entry
  <2> HIDE DEF c, left, v
  <2> QED
    BY <1>9, <1>10, <2>1, OneEntry
<1>12. /\ deployed' = deployed - c /\ deployed \in Nat
       /\ token_exp' = [token_exp EXCEPT ![v.mint] = @ - c] /\ token_exp[v.mint] \in Nat
       /\ trader_exp' = [trader_exp EXCEPT ![v.wallet] = @ - c] /\ trader_exp[v.wallet] \in Nat
  <2>1. /\ deployed \in Nat /\ token_exp[v.mint] \in Nat /\ trader_exp[v.wallet] \in Nat
    BY <1>5, ExposureTyped
  <2>2. c <= deployed /\ c <= token_exp[v.mint] /\ c <= trader_exp[v.wallet]
    <3> DEFINE A == BookOf!Committed
               B == {s \in BookOf!Committed : Entries[s].mint = v.mint}
               C == {s \in BookOf!Committed : Entries[s].wallet = v.wallet}
    <3>1. /\ A \in SUBSET ResIds /\ B \in SUBSET ResIds /\ C \in SUBSET ResIds
          /\ r \in A /\ r \in B /\ r \in C
      BY <1>7 DEF BookOf!Committed, BookOf!Entry
    <3>2. deployed = BookOf!Total(A) /\ token_exp[v.mint] = BookOf!Total(B)
          /\ trader_exp[v.wallet] = BookOf!Total(C)
      BY <1>5 DEF Exact, BookOf!AtWork, BookOf!InToken, BookOf!WithTrader
    <3> HIDE DEF A, B, C
    <3>3. ASSUME NEW S \in SUBSET ResIds, r \in S PROVE Entries[r].usd <= BookOf!Total(S)
      BY <3>3, EntryInTotal
    <3>4. Entries[r].usd = left
      BY <1>7 DEF BookOf!Entry
    <3> HIDE DEF c, left, v
    <3> QED
      BY <1>4, <1>6, <2>1, <3>1, <3>2, <3>3, <3>4
  <2> DEFINE d == deployed - c  t == token_exp[v.mint] - c  w == trader_exp[v.wallet] - c
  <2>3. /\ deployed' = Clamped(d)
        /\ token_exp' = [token_exp EXCEPT ![v.mint] = Dropped(t)]
        /\ trader_exp' = [trader_exp EXCEPT ![v.wallet] = Dropped(w)]
    BY <1>1, <1>5 DEF ReleasePosition
  <2>4. Clamped(d) = d /\ Dropped(t) = t /\ Dropped(w) = w
    <3>1. d \in Nat /\ t \in Nat /\ w \in Nat
      <4> HIDE DEF c, v
      <4> QED
        BY <1>4, <2>1, <2>2
    <3> HIDE DEF d, t, w
    <3> QED
      BY <3>1 DEF Clamped, Dropped
  <2> HIDE DEF c, v
  <2> QED
    BY <2>1, <2>3, <2>4
<1>13. /\ UNCHANGED <<equity, hwm, EntriesOpen>> /\ cash' = cash + e.proceeds
       /\ realized_today' = realized_today + (e.proceeds - c)
       /\ open_positions' = IF Fully(e) THEN open_positions - 1 ELSE open_positions
       /\ cash \in Int /\ realized_today \in Int /\ open_positions \in Int /\ Capital \in Int
  BY <1>1, LedgerAssumption DEF ReleasePosition, marks, keyVars, EntriesOpen, Typed, TypeOK, Known
<1>14. r \in BookOf!Positions /\ Entries[r].usd = left
  BY <1>7 DEF BookOf!Positions, BookOf!Entry
<1> HIDE DEF c, left, v, p, e
<1>15. BookOf!Reduce(r)
  <2>1. /\ cash' + deployed' - Capital = cash + deployed - Capital + e.proceeds - c
        /\ realized_today' = realized_today + e.proceeds - c
    BY <1>3, <1>4, <1>12, <1>13
  <2>2. c \in 1 .. Entries[r].usd
    BY <1>4, <1>6, <1>14
  <2> QED
    BY <1>3, <1>11, <1>13, <1>14, <2>1, <2>2 DEF BookOf!Reduce, BookOf!marks
<1>16. Exact'
  <2>1. /\ deployed' = deployed + (-c) /\ -c \in Int
        /\ token_exp' = [token_exp EXCEPT ![v.mint] = @ + (-c)]
        /\ trader_exp' = [trader_exp EXCEPT ![v.wallet] = @ + (-c)]
    <3>1. /\ deployed - c = deployed + (-c) /\ -c \in Int
          /\ token_exp[v.mint] - c = token_exp[v.mint] + (-c)
          /\ trader_exp[v.wallet] - c = trader_exp[v.wallet] + (-c)
      BY <1>4, <1>12
    <3> QED
      BY <1>12, <3>1
  <2>2. /\ Entries'[r].usd = Entries[r].usd + (-c)
        /\ Entries[r].mint = v.mint /\ Entries[r].wallet = v.wallet
        /\ r \in BookOf!Committed' => Entries'[r].mint = v.mint /\ Entries'[r].wallet = v.wallet
        /\ r \in BookOf!Positions' <=> c # left
    BY <1>4, <1>6, <1>7, <1>10
       DEF BookOf!Entry, BookOf!Settled, BookOf!Committed, BookOf!Positions
  <2>3. Typed /\ Typed' /\ 0 \in Int /\ -1 \in Int
    OBVIOUS
  <2>4. CASE Fully(e)
    <3>1. open_positions' = open_positions + (-1) /\ c = left
      BY <1>6, <1>13, <2>4
    <3> QED
      BY <1>5, <1>9, <1>14, <2>1, <2>2, <2>3, <3>1, ExactMoves
  <2>5. CASE ~Fully(e)
    <3>1. open_positions' = open_positions + 0 /\ c # left
      BY <1>6, <1>13, <2>5
    <3> QED
      BY <1>5, <1>9, <1>14, <2>1, <2>2, <2>3, <3>1, ExactMoves
  <2> QED
    BY <2>4, <2>5
<1> QED
  BY <1>15, <1>16

\* What neither the ledger nor a release sees, the book does not.
LEMMA QuietBook ==
    ASSUME Exact, UNCHANGED <<ledgerVars, keyVars, released>>
    PROVE  UNCHANGED BookOf!vars /\ Exact'
<1>1. Entries' = Entries
  BY DEF Entries, ledgerVars
<1>2. /\ UNCHANGED <<cash, deployed, realized_today, equity, hwm, token_exp, trader_exp,
                     open_positions, pending, EntriesOpen>>
      /\ cash' + deployed' - Capital = cash + deployed - Capital
  BY DEF ledgerVars, keyVars, EntriesOpen
<1>3. Exact'
  BY <1>1, <1>2 DEF Exact, BookOf!AtWork, BookOf!InToken, BookOf!WithTrader, BookOf!Total,
                    BookOf!Usd, BookOf!Committed, BookOf!Positions
<1> QED
  BY <1>1, <1>2, <1>3 DEF BookOf!vars, BookOf!account, BookOf!marks

\* Operator commands switch the gate; a tick marks what the entries add up to.
LEMMA ControlBook ==
    ASSUME IInv, Exact, StartTrading \/ EmergencyStop \/ ClearKill \/ MarkTick
    PROVE  (BookOf!Switch \/ BookOf!Mark) /\ Exact'
<1>1. /\ Entries' = Entries
      /\ UNCHANGED <<cash, deployed, realized_today, token_exp, trader_exp, open_positions>>
      /\ cash' + deployed' - Capital = cash + deployed - Capital
  <2>1. UNCHANGED <<reservation, released, cash, deployed, realized_today, token_exp, trader_exp,
                    open_positions>>
    BY DEF StartTrading, EmergencyStop, ClearKill, MarkTick, Mark, ledgerVars, exitVars, ghosts,
           money, counters, exposure
  <2> QED
    BY <2>1 DEF Entries
<1>2. Exact'
  BY <1>1 DEF Exact, BookOf!AtWork, BookOf!InToken, BookOf!WithTrader, BookOf!Total,
              BookOf!Usd, BookOf!Committed, BookOf!Positions
<1>3. CASE StartTrading \/ EmergencyStop \/ ClearKill
  <2>1. UNCHANGED <<equity, hwm>> /\ EntriesOpen' \in BOOLEAN
    BY <1>3 DEF StartTrading, EmergencyStop, ClearKill, ledgerVars, EntriesOpen
  <2> QED
    BY <1>1, <1>2, <2>1 DEF BookOf!Switch, BookOf!account, BookOf!marks
<1>4. CASE MarkTick
  <2>1. PICK unreal \in Unrealized : Mark(unreal)
    BY <1>4 DEF MarkTick
  <2>2. EntriesOpen' = EntriesOpen
    BY <1>4 DEF MarkTick, keyVars, EntriesOpen
  <2>3. equity' = BookOf!Worth + unreal
        /\ hwm' = IF BookOf!Worth + unreal > hwm THEN BookOf!Worth + unreal ELSE hwm
    BY <2>1, ExactStated DEF Stated, Mark
  <2> QED
    BY <1>1, <1>2, <2>2, <2>3 DEF BookOf!Mark, BookOf!account
<1> QED
  BY <1>3, <1>4

\* What a position's row, its exits and its releases add up to is what it cost.
Whole(r) ==
    released[r] + (IF r \in OpenRows THEN row[r].cost ELSE 0) + Due(exit, r) = worker[r].filled

\* Until the row is booked, and while row, exits and releases stay as they are,
\* nothing is lost that was not lost before.
LEMMA NoneLost ==
    ASSUME NothingLost', raced \subseteq raced', NEW touched \in SUBSET ResIds,
           \A s \in ResIds \ touched :
               /\ KeepsEntry(s) /\ released'[s] = released[s]
               /\ row[s].status # "none" => worker'[s].filled = worker[s].filled,
           raced = {} => \A s \in touched : row[s].status # "none" => Whole(s)
    PROVE  NothingLost
<1>1. raced = {} /\ raced' = {}
  BY DEF NothingLost
<1>2. ASSUME NEW s \in ResIds, s \notin touched, row[s].status # "none" PROVE Whole(s)
  <2>1. /\ KeepsEntry(s) /\ released'[s] = released[s] /\ worker'[s].filled = worker[s].filled
        /\ row'[s] = row[s] /\ Due(exit', s) = Due(exit, s)
    BY <1>2, KeptEntry DEF KeepsEntry
  <2>2. Whole(s)'
    BY <1>2, <2>1 DEF NothingLost, Whole
  <2>3. s \in OpenRows' <=> s \in OpenRows
    BY <2>1 DEF OpenRows
  <2> QED
    BY <2>1, <2>2, <2>3 DEF Whole
<1> QED
  BY <1>1, <1>2 DEF NothingLost, Whole

\* A step that leaves a booked position's share of the two stores alone.
LEMMA EntryNoneLost ==
    ASSUME IInv, NothingLost', NEW r \in ResIds,
           \/ Enter(r) \/ SaveOrder(r) \/ Execute(r) \/ CommitFill(r) \/ BookPosition(r)
           \/ ReleaseHold(r) \/ KeepHold(r) \/ EntryRaises(r)
    PROVE  NothingLost
<1> USE DEF IInv
<1>1. /\ worker \in [ResIds -> WorkerRecord] /\ row \in [ResIds -> Row]
      /\ reservation \in [ResIds -> {Unborn, Gone} \cup Live]
  BY DEF Typed, TypeOK, WorkerRecord
<1>2. UNCHANGED <<exit, raced, released>>
  BY DEF Enter, SaveOrder, Execute, CommitFill, BookPosition, ReleaseHold, KeepHold,
         EntryRaises, exitVars, ghosts
<1>3. \A s \in ResIds \ {r} : worker'[s] = worker[s] /\ KeepsEntry(s)
  <2>1. \A s \in ResIds \ {r} : worker'[s] = worker[s] /\ row'[s] = row[s]
                                /\ reservation'[s] = reservation[s]
    BY <1>1 DEF Enter, SaveOrder, Execute, CommitFill, BookPosition, ReleaseHold, KeepHold,
                EntryRaises, Reserve, Commit, Release, ledgerVars
  <2> QED
    BY <1>2, <2>1 DEF KeepsEntry
<1>4. row[r].status = "none"
  <2>1. ~(CommittedTo(r) /\ worker[r].pc = "done")
    BY DEF CommittedTo, Enter, Reserve, Unborn, SaveOrder, Execute, CommitFill, BookPosition,
           ReleaseHold, KeepHold, EntryRaises
  <2> QED
    BY <2>1 DEF Stages
<1>5. {r} \in SUBSET ResIds /\ raced \subseteq raced'
  BY <1>2
<1>6. \A s \in ResIds \ {r} : released'[s] = released[s] /\ worker'[s].filled = worker[s].filled
  BY <1>2, <1>3
<1> QED
  BY <1>3, <1>4, <1>5, <1>6, NoneLost

\* A sale moves a cost from the row to what is due, and a settlement from there
\* to what was released.
LEMMA BookingNoneLost ==
    ASSUME IInv, NothingLost', NEW x \in Exiters, NEW r \in ResIds, Reduce(x, r) \/ Settle(x, r)
    PROVE  NothingLost
<1> USE DEF IInv
<1> DEFINE e == exit[x][r]  new == exit'[x][r]  p == row[r]  q == row'[r]  c == CostReleased(e)
<1>1. /\ UNCHANGED <<reservation, worker, raced>> /\ raced = {}
      /\ \A y \in Exiters, s \in ResIds : y # x \/ s # r => exit'[y][s] = exit[y][s]
      /\ \A s \in ResIds \ {r} : row'[s] = row[s] /\ released'[s] = released[s]
      /\ e.pc \in {"sold", "reduced"}
  BY DEF Reduce, Settle, ReleasePosition, Typed, ExitsTyped, ledgerVars, entryVars, ghosts,
         NothingLost
<1>2. \A s \in ResIds \ {r} : KeepsEntry(s) /\ worker'[s] = worker[s]
  BY <1>1 DEF KeepsEntry
<1>3. /\ e \in ExitRecord /\ SaleTyped(e) /\ p \in Row /\ p.cost \in Nat /\ p.status # "none"
      /\ SeesRow(e, p) /\ e.sell \in 1 .. e.amount /\ e.sell \in Nat
      /\ \A y \in Exiters \ {x} : exit[y][r].pc # "reduced" /\ exit'[y][r].pc # "reduced"
  <2>1. \A y \in Exiters \ {x} : exit[y][r].pc = "idle" /\ exit'[y][r] = exit[y][r]
    BY <1>1 DEF Serial
  <2> QED
    BY <1>1, <2>1 DEF Typed, ExitsTyped, Serial, Stages, SaleTyped
<1>4. e.cost \in Nat /\ c \in Nat /\ (Fully(e) => c = e.cost)
  BY <1>1, <1>3, CostShare DEF SeesRow
<1>5. released \in [ResIds -> Int]
  BY DEF Typed
<1>6. ASSUME q.status # "none" PROVE Whole(r)'
  BY <1>6 DEF NothingLost, Whole
<1>7. /\ {r} \in SUBSET ResIds /\ raced \subseteq raced'
      /\ \A s \in ResIds \ {r} : worker'[s].filled = worker[s].filled
  BY <1>1
<1>8. CASE Reduce(x, r)
  <2>1. /\ e.pc = "sold" /\ new = [e EXCEPT !.pc = "reduced"] /\ q = Reduced(p, e)
        /\ released' = released
    BY <1>8, ReduceSerial DEF Reduce, ghosts
  <2>2. new.pc = "reduced" /\ CostReleased(new) = c
    BY <1>3, <2>1 DEF ExitRecord, CostReleased
  <2>3. /\ q.status = (IF Fully(e) THEN "closed" ELSE "open")
        /\ q.cost = (IF Fully(e) THEN p.cost ELSE p.cost - c)
    <3> HIDE DEF e, p, q
    <3> QED
      BY <1>3, <1>4, <2>1, ReducedTyped
  <2>4. Due(exit, r) = 0 /\ Due(exit', r) = c
    <3>1. Due(exit, r) = 0
      BY <1>3, <2>1, DueOfOne
    <3>2. Due(exit', r) = CostReleased(new)
      BY <1>3, <2>2, DueOfOne
    <3> QED
      BY <2>2, <3>1, <3>2
  <2>5. p.status = "open" /\ p.cost = e.cost
    BY <1>3, <2>1 DEF SeesRow
  <2>6. Whole(r)
    <3>1. released[r] + (IF Fully(e) THEN 0 ELSE p.cost - c) + c = worker[r].filled
      BY <1>1, <1>6, <2>1, <2>3, <2>4 DEF Whole, OpenRows
    <3>2. released[r] + p.cost + 0 = released[r] + (IF Fully(e) THEN 0 ELSE p.cost - c) + c
      <4>1. released[r] \in Int
        BY <1>5
      <4> HIDE DEF c, p, e
      <4> QED
        BY <1>3, <1>4, <2>5, <4>1
    <3> QED
      BY <2>4, <2>5, <3>1, <3>2 DEF Whole, OpenRows
  <2> QED
    BY <1>1, <1>2, <1>7, <2>6, NoneLost
<1>9. CASE Settle(x, r)
  <2>1. e.pc = "reduced" /\ new = NoExit /\ row' = row /\ released'[r] = released[r] + c
    BY <1>5, <1>9 DEF Settle, Typed, ExitsTyped
  <2>2. Due(exit, r) = c /\ Due(exit', r) = 0
    BY <1>3, <2>1, NoExitTyped, DueOfOne
  <2>3. Whole(r)
    <3>1. released[r] + c + (IF p.status = "open" THEN p.cost ELSE 0) + 0 = worker[r].filled
      BY <1>1, <1>3, <1>6, <2>1, <2>2 DEF Whole, OpenRows
    <3>2. released[r] + (IF p.status = "open" THEN p.cost ELSE 0) + c
            = released[r] + c + (IF p.status = "open" THEN p.cost ELSE 0) + 0
      <4>1. released[r] \in Int
        BY <1>5
      <4> HIDE DEF c, p
      <4> QED
        BY <1>3, <1>4, <4>1
    <3> QED
      BY <2>2, <3>1, <3>2 DEF Whole, OpenRows
  <2> QED
    BY <1>1, <1>2, <1>7, <2>3, NoneLost
<1> QED
  BY <1>8, <1>9

\* An exit that fails after its row was committed loses what was due: where
\* nothing is lost, nothing was due.
LEMMA FailedNoneLost ==
    ASSUME IInv, IInv', Known, NothingLost',
           \A y \in Exiters, s \in ResIds : exit'[y][s] \in {exit[y][s], NoExit},
           UNCHANGED <<reservation, row, worker, released, raced>>
    PROVE  NothingLost
<1> USE DEF IInv
<1> DEFINE lost == {s \in ResIds : ~KeepsEntry(s)}
<1>1. raced = {}
  BY DEF NothingLost
<1>2. ASSUME NEW s \in lost, row[s].status # "none" PROVE FALSE
  <2>1. PICK y \in Exiters : exit[y][s].pc = "reduced" /\ exit'[y][s] = NoExit
    BY NoExitTyped DEF KeepsEntry
  <2> DEFINE e == exit[y][s]  c == CostReleased(e)
             left == IF s \in OpenRows THEN row[s].cost ELSE 0
  <2>2. \A z \in Exiters \ {y} : exit[z][s].pc # "reduced" /\ exit'[z][s].pc # "reduced"
    BY <1>1, <2>1, NoExitTyped DEF Serial
  <2>3. Due(exit, s) = c /\ Due(exit', s) = 0
    BY <2>1, <2>2, NoExitTyped, DueOfOne
  <2>4. c > 0 /\ c \in Int
    <3>1. c \in Nat
      BY <1>1, <2>3, DueNat
    <3> QED
      BY <1>1, <2>1, <3>1 DEF Known, Priced
  <2>5. released[s] + left + 0 = worker[s].filled
    BY <1>2, <2>3 DEF NothingLost, OpenRows
  <2>6. released[s] + (left + c) <= worker[s].filled
    <3>1. CommittedTo(s)
      BY <1>2 DEF Stages
    <3>2. Risk[s] = left + c
      <4>1. Risk[s] = RiskOf(reservation[s], row[s], c)
        BY <2>3 DEF Risk
      <4>2. row[s].status \in {"open", "closed"}
        BY <1>2 DEF Typed, TypeOK
      <4> HIDE DEF c
      <4> QED
        BY <2>4, <3>1, <4>1, <4>2 DEF RiskOf, CommittedTo, OpenRows
    <3> HIDE DEF c, left
    <3> QED
      BY <1>1, <3>1, <3>2 DEF Spent
  <2>7. released[s] \in Int /\ left \in Int /\ worker[s].filled \in Int
    BY DEF Typed, TypeOK, Row
  <2> HIDE DEF c, left
  <2> QED
    BY <2>4, <2>5, <2>6, <2>7
<1>3. lost \in SUBSET ResIds /\ raced \subseteq raced' /\ \A s \in ResIds \ lost : KeepsEntry(s)
  OBVIOUS
<1>4. \A s \in lost : row[s].status # "none" => Whole(s)
  BY <1>2
<1> HIDE DEF lost
<1> QED
  BY <1>3, <1>4, NoneLost

\* Whatever is not lost after a step was not lost before it.
LEMMA NextNoneLost == ASSUME IInv, IInv', Known, [Next]_vars, NothingLost' PROVE NothingLost
<1> USE DEF IInv
<1>1. ASSUME \A s \in ResIds : KeepsEntry(s), UNCHANGED released, raced \subseteq raced',
             \A s \in ResIds : worker'[s].filled = worker[s].filled
      PROVE  NothingLost
  <2>1. {} \in SUBSET ResIds /\ \A s \in ResIds \ {} : KeepsEntry(s)
    BY <1>1
  <2>2. \A s \in ResIds \ {} : released'[s] = released[s] /\ worker'[s].filled = worker[s].filled
    BY <1>1
  <2>3. raced = {} => \A s \in {} : row[s].status # "none" => Whole(s)
    OBVIOUS
  <2> QED
    BY <1>1, <2>1, <2>2, <2>3, NoneLost
<1>2. /\ worker \in [ResIds -> WorkerRecord]
      /\ exit \in [Exiters -> [ResIds -> ExitRecord]]
  BY DEF Typed, TypeOK, WorkerRecord, ExitsTyped
<1>3. CASE StartTrading \/ EmergencyStop \/ ClearKill \/ MarkTick \/ UNCHANGED vars
  <2>1. UNCHANGED <<reservation, row, worker, exit, released, raced>>
    BY <1>3 DEF StartTrading, EmergencyStop, ClearKill, MarkTick, Mark, vars, ledgerVars,
                entryVars, exitVars, ghosts
  <2> QED
    BY <1>1, <2>1 DEF KeepsEntry
<1>4. CASE DecisionCrash
  <2>1. UNCHANGED <<reservation, row, exit, released, raced>>
    BY <1>4 DEF DecisionCrash, ledgerVars, exitVars, ghosts
  <2>2. \A s \in ResIds : worker'[s].filled = worker[s].filled
    BY <1>2, <1>4 DEF DecisionCrash, WorkerRecord
  <2> QED
    BY <1>1, <2>1, <2>2 DEF KeepsEntry
<1>5. ASSUME NEW r \in ResIds,
             \/ Enter(r) \/ SaveOrder(r) \/ Execute(r) \/ CommitFill(r) \/ BookPosition(r)
             \/ ReleaseHold(r) \/ KeepHold(r) \/ EntryRaises(r)
      PROVE  NothingLost
  BY <1>5, EntryNoneLost
<1>6. ASSUME NEW x \in Exiters, ReadOpen(x) PROVE NothingLost
  <2>1. /\ UNCHANGED <<reservation, row, worker, released>> /\ raced \subseteq raced'
        /\ \A s \in ResIds : exit[x][s].pc = "idle"
        /\ \A s \in ResIds : exit'[x][s] = IF s \in OpenRows THEN Snapshot(s) ELSE NoExit
        /\ \A y \in Exiters \ {x}, s \in ResIds : exit'[y][s] = exit[y][s]
    BY <1>2, <1>6 DEF ReadOpen, ledgerVars, entryVars
  <2>2. \A s \in ResIds : exit'[x][s].pc \in {"idle", "snapshot"}
    <3>1. \A s \in ResIds : Snapshot(s).pc = "snapshot"
      BY DEF Snapshot, NoExit
    <3> QED
      BY <2>1, <3>1, NoExitTyped
  <2> QED
    BY <1>1, <2>1, <2>2 DEF KeepsEntry
<1>7. ASSUME NEW x \in Exiters, NEW r \in ResIds, Authorise(x, r) \/ Sell(x, r) \/ NoSale(x, r)
      PROVE  NothingLost
  <2>1. /\ UNCHANGED <<ledgerVars, row, entryVars, ghosts>>
        /\ exit[x][r].pc \in {"snapshot", "cleared"}
    <3>1. CASE Authorise(x, r)
      BY <3>1, Zenon DEF Authorise
    <3>2. CASE Sell(x, r)
      BY <3>2, Zenon DEF Sell
    <3>3. CASE NoSale(x, r)
      BY <3>3, Zenon DEF NoSale
    <3> QED
      BY <1>7, <3>1, <3>2, <3>3
  <2>4. UNCHANGED <<reservation, row, worker, released, raced>> /\ exit[x][r].pc # "reduced"
    BY <2>1 DEF ledgerVars, entryVars, ghosts
  <2>2. PICK e \in ExitRecord : /\ exit' = [exit EXCEPT ![x][r] = e]
                                /\ e.pc \in {"idle", "cleared", "sold"}
    BY <1>7, SaleStepTyped DEF Typed
  <2>3. /\ exit'[x][r] = e
        /\ \A y \in Exiters, s \in ResIds : y # x \/ s # r => exit'[y][s] = exit[y][s]
    BY <1>2, <2>2
  <2> QED
    BY <1>1, <2>2, <2>3, <2>4 DEF KeepsEntry
<1>8. ASSUME NEW x \in Exiters, ExiterCrash(x) \/ \E r \in ResIds : ExitRaises(x, r)
      PROVE  NothingLost
  <2>1. /\ \A y \in Exiters, s \in ResIds : exit'[y][s] \in {exit[y][s], NoExit}
        /\ UNCHANGED <<reservation, row, worker, released, raced>>
    BY <1>2, <1>8 DEF ExiterCrash, ExitRaises, ledgerVars, entryVars, ghosts
  <2> QED
    BY <2>1, FailedNoneLost
<1>9. CASE ReadTick \/ \E j \in Jobs : ReadJob(j)
  <2>1. \E x \in Exiters : ReadOpen(x)
    BY <1>9 DEF ReadTick, ReadJob, Exiters
  <2> QED
    BY <1>6, <2>1
<1> QED
  BY <1>3, <1>4, <1>5, <1>7, <1>8, <1>9, BookingNoneLost DEF Next

\* A step of the services is a step of the book, or none.
LEMMA StepBook ==
    ASSUME IInv, IInv', Known, Exact, NothingLost, [Next]_vars
    PROVE  /\ Exact'
           /\ \/ BookOf!Switch \/ BookOf!Mark
              \/ \E r \in ResIds : \/ BookOf!Grant(r) \/ BookOf!Withdraw(r) \/ BookOf!Fill(r)
                                   \/ BookOf!Reduce(r)
              \/ UNCHANGED BookOf!vars
<1>1. raced = {}
  BY DEF NothingLost
<1>2. CASE StartTrading \/ EmergencyStop \/ ClearKill \/ MarkTick
  BY <1>2, ControlBook
<1>3. ASSUME NEW r \in ResIds, Enter(r) PROVE BookOf!Grant(r) /\ Exact'
  BY <1>1, <1>3, EnterBook
<1>4. ASSUME NEW r \in ResIds, CommitFill(r) PROVE BookOf!Fill(r) /\ Exact'
  BY <1>1, <1>4, CommitBook
<1>5. ASSUME NEW r \in ResIds, ReleaseHold(r) PROVE BookOf!Withdraw(r) /\ Exact'
  BY <1>1, <1>5, ReleaseBook
<1>6. ASSUME NEW x \in Exiters, NEW r \in ResIds, Settle(x, r) PROVE BookOf!Reduce(r) /\ Exact'
  BY <1>6, SettleBook
<1>7. ASSUME UNCHANGED <<ledgerVars, keyVars, released>> PROVE UNCHANGED BookOf!vars /\ Exact'
  BY <1>7, QuietBook
<1>8. ASSUME NEW r \in ResIds,
             SaveOrder(r) \/ Execute(r) \/ BookPosition(r) \/ KeepHold(r) \/ EntryRaises(r)
      PROVE  UNCHANGED <<ledgerVars, keyVars, released>>
  BY <1>8 DEF SaveOrder, Execute, BookPosition, KeepHold, EntryRaises, exitVars, ghosts
<1>9. ASSUME NEW x \in Exiters, NEW r \in ResIds,
             Authorise(x, r) \/ Sell(x, r) \/ NoSale(x, r) \/ Reduce(x, r) \/ ExitRaises(x, r)
      PROVE  UNCHANGED <<ledgerVars, keyVars, released>>
  <2>1. CASE Authorise(x, r)
    BY <2>1, Zenon DEF Authorise, ghosts
  <2>2. CASE Sell(x, r)
    BY <2>2, Zenon DEF Sell, ghosts
  <2>3. CASE NoSale(x, r)
    BY <2>3, Zenon DEF NoSale, ghosts
  <2>4. CASE Reduce(x, r)
    BY <2>4, Zenon DEF Reduce, ghosts
  <2>5. CASE ExitRaises(x, r)
    BY <2>5, Zenon DEF ExitRaises, ghosts
  <2> QED
    BY <1>9, <2>1, <2>2, <2>3, <2>4, <2>5
<1>10. ASSUME NEW x \in Exiters, ExiterCrash(x) PROVE UNCHANGED <<ledgerVars, keyVars, released>>
  BY <1>10 DEF ExiterCrash, ghosts
<1>11. CASE DecisionCrash \/ ReadTick \/ (\E j \in Jobs : ReadJob(j)) \/ UNCHANGED vars
  <2>1. UNCHANGED <<ledgerVars, keyVars, released>>
    BY <1>11 DEF DecisionCrash, ReadTick, ReadJob, ReadOpen, exitVars, ghosts, vars, keyVars
  <2> QED
    BY <1>7, <2>1
<1> QED
  BY <1>2, <1>3, <1>4, <1>5, <1>6, <1>7, <1>8, <1>9, <1>10, <1>11 DEF Next

\* So the ledger is exact while nothing is lost.
Booked == NothingLost => Exact

LEMMA NextBooked ==
    ASSUME IInv, IInv', Known, Booked, [Next]_vars
    PROVE  /\ Booked'
           /\ NothingLost' => [BookOf!Next]_(BookOf!vars)
<1> SUFFICES ASSUME NothingLost' PROVE Exact' /\ [BookOf!Next]_(BookOf!vars)
  BY DEF Booked
<1>1. NothingLost /\ Exact
  BY NextNoneLost DEF Booked
<1>2. Exact' /\ (\/ BookOf!Switch \/ BookOf!Mark
                 \/ \E r \in ResIds : \/ BookOf!Grant(r) \/ BookOf!Withdraw(r) \/ BookOf!Fill(r)
                                      \/ BookOf!Reduce(r)
                 \/ UNCHANGED BookOf!vars)
  BY <1>1, StepBook
<1>3. Shown' = BookOf!Statement'
  BY <1>2, ExactStatedNext
<1> QED
  BY <1>2, <1>3 DEF BookOf!Next, Shown

\* Nothing is booked at first.
LEMMA InitBook == Init => Exact /\ BookOf!Init
<1> SUFFICES ASSUME Init PROVE Exact /\ BookOf!Init
  OBVIOUS
<1>1. IInv
  BY InitIInv
<1>2. /\ Entries = [r \in ResIds |-> BookOf!Free]
      /\ BookOf!Committed = {} /\ BookOf!Positions = {}
  <2>1. \A r \in ResIds : reservation[r] = Unborn
    BY DEF Init, LedgerInit
  <2>2. \A r \in ResIds : Entries[r] = BookOf!Free
    BY <1>1, <2>1, EntriesReadNow
       DEF IInv, EntriesRead, BookedAs, OnBook, CommittedTo, Held, Unborn
  <2>3. Entries = [r \in ResIds |-> Entries[r]]
    BY Zenon DEF Entries
  <2> QED
    BY <2>2, <2>3 DEF BookOf!Committed, BookOf!Positions, BookOf!Free
<1>3. /\ BookOf!AtWork = 0 /\ \A m : BookOf!InToken(m) = 0 /\ \A w : BookOf!WithTrader(w) = 0
  <2>1. BookOf!Total({}) = 0
    BY SumEmpty, BookSums DEF BookOf!Total
  <2>2. /\ \A m : {r \in {} : Entries[r].mint = m} = {}
        /\ \A w : {r \in {} : Entries[r].wallet = w} = {}
    OBVIOUS
  <2> QED
    BY <1>2, <2>1, <2>2 DEF BookOf!AtWork, BookOf!InToken, BookOf!WithTrader
<1>4. Exact
  BY <1>2, <1>3, FS_EmptySet DEF Exact, Init, LedgerInit, Fresh
<1>5. Shown = BookOf!Statement
  BY <1>1, <1>4, ExactStated DEF Stated
<1>6. cash + deployed - Capital = 0
  BY LedgerAssumption DEF Init, LedgerInit, Fresh
<1> QED
  BY <1>2, <1>4, <1>5, <1>6
     DEF BookOf!Init, Init, LedgerInit, Fresh, Shown, EntriesOpen

\* For any number of entries and exiters, amounts and failures: until an exit
\* loses part of a cost between the stores, or two exiters handle one position,
\* the services do to the ledger what the book allows, and it shows the sums
\* over the entries it still has.
THEOREM TradesFollowTheBook == Spec => FollowsTheBook
<1>1. Init => Known /\ Booked /\ BookOf!Init
  BY InitKnown, InitBook DEF Booked
<1>2. IInv /\ IInv' /\ Known /\ Booked /\ [Next]_vars
        => Known' /\ Booked' /\ [NothingLost' => [BookOf!Next]_(BookOf!vars)]_vars
  BY NextKnown, NextBooked
<1> QED
  BY <1>1, <1>2, LifecycleInvariant, PTL DEF Spec, FollowsTheBook

-----------------------------------------------------------------------------
(**************************************************************************)
(* Live execution for any number of attempts and idempotency keys.        *)
(**************************************************************************)

\* An attempt that owns a claim it has not yet turned into a signature.
Claiming == {"prepare", "sign", "record"}

\* An attempt whose signature is stored.
Stored == {"send", "confirm", "reconcile"}

\* A claim has one owner, which has broadcast nothing.
ClaimsExclusive ==
    /\ \A a \in Attempts : pc[a] = "start" => chain[a] = "unsent"
    /\ \A a \in Attempts : pc[a] \in Claiming =>
          key[a] \in Keys /\ idem[key[a]] = "pending" /\ chain[a] = "unsent"
    /\ \A a, b \in Attempts :
          pc[a] \in Claiming /\ pc[b] \in Claiming /\ key[a] = key[b] => a = b

\* Whatever is, or may already be, on the network has its signature under the
\* key: what is stored before the broadcast stays stored.
SignatureStored ==
    /\ \A a \in Attempts : pc[a] \in Stored => key[a] \in Keys /\ idem[key[a]] = a
    /\ \A a \in Attempts : chain[a] # "unsent" => key[a] \in Keys /\ idem[key[a]] = a
    /\ \A a \in Attempts : pc[a] = "send" => chain[a] = "unsent"

\* An attempt has no order before it starts and no answer before it ends, and
\* reconciliation is of a landed transaction.
AnswersFinal ==
    /\ \A a \in Attempts : pc[a] = "start" => key[a] = NoKey
    /\ \A a \in Attempts : orderStatus[a] # "none" => pc[a] = "done"
    /\ \A a \in Attempts : pc[a] = "reconcile" => chain[a] = "ok"

OrderInv == OrderTypeOK /\ ClaimsExclusive /\ SignatureStored /\ AnswersFinal /\ StatusIsTruthful

\* Nothing is claimed, signed or sent initially.
LEMMA InitOrderInv == OrderInit => OrderInv
  BY DEF OrderInit, OrderInv, OrderTypeOK, ClaimsExclusive, SignatureStored, AnswersFinal, StatusIsTruthful,
         Pc, Status, Fate, Claiming, Stored

\* Every step of execute(), of Redis and of the chain preserves the invariant.
LEMMA NextOrderInv == OrderInv /\ [OrderNext]_orderVars => OrderInv'
<1> USE ExecutionAssumption
    DEF OrderInv, OrderTypeOK, ClaimsExclusive, SignatureStored, AnswersFinal, StatusIsTruthful,
        Pc, Status, Fate, Claiming, Stored, Goto, Return
<1> SUFFICES ASSUME OrderInv, [OrderNext]_orderVars PROVE OrderInv'
  OBVIOUS
<1>1. ASSUME NEW a \in Attempts, NEW k \in Keys, Claim(a, k) PROVE OrderInv'
  BY <1>1 DEF Claim
<1>2. ASSUME NEW a \in Attempts, NEW k \in Keys, Duplicate(a, k) PROVE OrderInv'
  BY <1>2 DEF Duplicate
<1>3. ASSUME NEW a \in Attempts, Prepared(a) PROVE OrderInv'
  BY <1>3 DEF Prepared
<1>4. ASSUME NEW a \in Attempts, Abandon(a) PROVE OrderInv'
  BY <1>4 DEF Abandon
<1>5. ASSUME NEW a \in Attempts, Signed(a) PROVE OrderInv'
  BY <1>5 DEF Signed
<1>6. ASSUME NEW a \in Attempts, RaiseOrCrash(a) PROVE OrderInv'
  BY <1>6 DEF RaiseOrCrash
<1>7. ASSUME NEW a \in Attempts, StoreSignature(a) PROVE OrderInv'
  BY <1>7 DEF StoreSignature
<1>8. ASSUME NEW a \in Attempts, SubmitError(a) PROVE OrderInv'
  BY <1>8 DEF SubmitError
<1>9. ASSUME NEW a \in Attempts, Send(a) PROVE OrderInv'
  BY <1>9 DEF Send
<1>10. ASSUME NEW a \in Attempts, ConfirmUnknown(a) PROVE OrderInv'
  BY <1>10 DEF ConfirmUnknown
<1>11. ASSUME NEW a \in Attempts, ConfirmError(a) PROVE OrderInv'
  BY <1>11 DEF ConfirmError
<1>12. ASSUME NEW a \in Attempts, ConfirmOk(a) PROVE OrderInv'
  BY <1>12 DEF ConfirmOk
<1>13. ASSUME NEW a \in Attempts, Reconcile(a) PROVE OrderInv'
  BY <1>13 DEF Reconcile
<1>14. ASSUME NEW a \in Attempts, Land(a) PROVE OrderInv'
  BY <1>14 DEF Land
<1>15. ASSUME NEW k \in Keys, ClaimExpires(k) PROVE OrderInv'
  BY <1>15 DEF ClaimExpires
<1>16. CASE UNCHANGED orderVars
  BY <1>16 DEF orderVars
<1> QED
  BY <1>1, <1>2, <1>3, <1>4, <1>5, <1>6, <1>7, <1>8, <1>9, <1>10, <1>11, <1>12, <1>13,
     <1>14, <1>15, <1>16 DEF OrderNext

\* The invariant holds of every behaviour of live execution.
THEOREM OrderExecutionInvariant == OrderSpec => []OrderInv
  BY InitOrderInv, NextOrderInv, PTL DEF OrderSpec

\* Keys, program counters, answers and fates keep their types.
THEOREM OrderExecutionTypeOK == OrderSpec => []OrderTypeOK
<1>1. OrderInv => OrderTypeOK
  BY DEF OrderInv
<1> QED
  BY <1>1, OrderExecutionInvariant, PTL

\* No idempotency key ever covers two broadcast transactions, however many
\* retries, crashes and expired claims there are.
THEOREM NoDoubleBroadcast == OrderSpec => []AtMostOneBroadcast
<1>1. OrderInv => AtMostOneBroadcast
  BY DEF OrderInv, SignatureStored, AtMostOneBroadcast, Broadcast
<1> QED
  BY <1>1, OrderExecutionInvariant, PTL

\* execute() never reports FAILED for a transaction that filled or may still
\* fill, nor CONFIRMED for one that did not.
THEOREM AnswersAreTruthful == OrderSpec => []StatusIsTruthful
<1>1. OrderInv => StatusIsTruthful
  BY DEF OrderInv
<1> QED
  BY <1>1, OrderExecutionInvariant, PTL

\* A stored signature is never overwritten, abandoned or expired.
THEOREM SignaturesAreKept == OrderSpec => SignatureIsKept
<1>1. OrderInv /\ [OrderNext]_orderVars =>
        [\A k \in Keys : idem[k] \in Attempts => idem'[k] = idem[k]]_orderVars
  <2> SUFFICES ASSUME OrderInv, [OrderNext]_orderVars, NEW k \in Keys, idem[k] \in Attempts
               PROVE  idem'[k] = idem[k]
    BY DEF orderVars
  <2> USE ExecutionAssumption
      DEF OrderInv, OrderTypeOK, ClaimsExclusive, SignatureStored, Claiming, Stored, Goto
  <2>1. ASSUME NEW a \in Attempts, NEW l \in Keys, Claim(a, l) \/ Duplicate(a, l)
        PROVE  idem'[k] = idem[k]
    BY <2>1 DEF Claim, Duplicate
  <2>2. ASSUME NEW a \in Attempts, Abandon(a) \/ StoreSignature(a) \/ SubmitError(a)
        PROVE  idem'[k] = idem[k]
    BY <2>2 DEF Abandon, StoreSignature, SubmitError
  <2>3. ASSUME NEW a \in Attempts,
               \/ Prepared(a) \/ Signed(a) \/ RaiseOrCrash(a) \/ Send(a) \/ ConfirmUnknown(a)
               \/ ConfirmError(a) \/ ConfirmOk(a) \/ Reconcile(a) \/ Land(a)
        PROVE  idem'[k] = idem[k]
    BY <2>3 DEF Prepared, Signed, RaiseOrCrash, Send, ConfirmUnknown, ConfirmError, ConfirmOk,
                Reconcile, Land
  <2>4. ASSUME NEW l \in Keys, ClaimExpires(l) PROVE idem'[k] = idem[k]
    BY <2>4 DEF ClaimExpires
  <2>5. CASE UNCHANGED orderVars
    BY <2>5 DEF orderVars
  <2> QED
    BY <2>1, <2>2, <2>3, <2>4, <2>5 DEF OrderNext
<1> QED
  BY <1>1, OrderExecutionInvariant, PTL DEF OrderSpec, SignatureIsKept

\* Nothing is on the network before an attempt that is about to send it.
LEMMA FreshOrder ==
  ASSUME OrderInv, NEW a \in Attempts, pc[a] = "send"
  PROVE  Broadcast(key[a]) = {}
<1>1. ASSUME NEW b \in Broadcast(key[a]) PROVE FALSE
  <2>1. b \in Attempts /\ key[b] = key[a] /\ chain[b] # "unsent"
    BY DEF Broadcast
  <2>2. idem[key[a]] = b /\ idem[key[a]] = a
    BY <2>1 DEF OrderInv, SignatureStored, Stored
  <2>3. chain[a] = "unsent"
    BY DEF OrderInv, SignatureStored
  <2> QED
    BY <2>1, <2>2, <2>3
<1> QED
  BY <1>1

\* An attempt that has sent nothing appears under no order.
LEMMA UnsentUnlisted ==
  ASSUME NEW k \in Keys, key' = key, chain' = chain
  PROVE  Broadcast(k)' = Broadcast(k)
  BY DEF Broadcast

\* Choosing its key puts an attempt that has sent nothing under no order.
LEMMA ClaimUnlisted ==
  ASSUME OrderInv, NEW a \in Attempts, pc[a] = "start", chain' = chain,
         NEW l \in Keys, key' = [key EXCEPT ![a] = l], NEW k \in Keys
  PROVE  Broadcast(k)' = Broadcast(k)
  BY DEF Broadcast, OrderInv, OrderTypeOK, ClaimsExclusive

\* Each step of execute(), of Redis and of the chain is a step its caller was
\* promised, or one the caller cannot see.
LEMMA StepKeepsPromise ==
  ASSUME OrderInv, [OrderNext]_orderVars
  PROVE  [Contract!Next]_(Contract!vars)
<1> USE OrderInv, ExecutionAssumption
    DEF OrderInv, OrderTypeOK, ClaimsExclusive, SignatureStored, AnswersFinal, StatusIsTruthful,
        Pc, Status, Fate, Claiming, Stored, Goto, Return, Contract!Next, Contract!vars
<1>0. ASSUME UNCHANGED <<key, chain>>
      PROVE  UNCHANGED [k \in Keys |-> Broadcast(k)]
  BY <1>0, UnsentUnlisted
<1>1. ASSUME NEW a \in Attempts, NEW k \in Keys, Claim(a, k) \/ Duplicate(a, k)
      PROVE  Contract!Next
  <2>1. UNCHANGED [l \in Keys |-> Broadcast(l)]
    BY <1>1, ClaimUnlisted DEF Claim, Duplicate
  <2>2. Contract!Accept(a, k)
    BY <1>1, <2>1 DEF Claim, Duplicate, Contract!Accept
  <2> QED
    BY <2>2
<1>2. ASSUME NEW a \in Attempts,
             \/ Prepared(a) \/ Signed(a) \/ StoreSignature(a) \/ ConfirmOk(a)
      PROVE  UNCHANGED Contract!vars
  <2>1. UNCHANGED <<key, orderStatus, chain>>
    BY <1>2 DEF Prepared, Signed, StoreSignature, ConfirmOk
  <2> QED
    BY <2>1, <1>0
<1>3. ASSUME NEW a \in Attempts,
             \/ Abandon(a) \/ RaiseOrCrash(a) \/ SubmitError(a) \/ ConfirmUnknown(a)
             \/ ConfirmError(a) \/ Reconcile(a)
      PROVE  Contract!Next
  <2>1. UNCHANGED <<key, chain>>
    BY <1>3 DEF Abandon, RaiseOrCrash, SubmitError, ConfirmUnknown, ConfirmError, Reconcile
  <2>2. key[a] # NoKey /\ orderStatus[a] = "none"
    BY <1>3 DEF Abandon, RaiseOrCrash, SubmitError, ConfirmUnknown, ConfirmError, Reconcile
  <2>3. \E s \in {"FAILED", "SUBMITTED", "CONFIRMED", "raised"} :
            /\ s = "FAILED" => chain[a] \in {"unsent", "err"}
            /\ s = "CONFIRMED" => chain[a] = "ok"
            /\ orderStatus' = [orderStatus EXCEPT ![a] = s]
    BY <1>3 DEF Abandon, RaiseOrCrash, SubmitError, ConfirmUnknown, ConfirmError, Reconcile
  <2>4. Contract!Answer(a)
    BY <2>1, <2>2, <2>3, <1>0 DEF Contract!Answer
  <2> QED
    BY <2>4
<1>4. ASSUME NEW a \in Attempts, Send(a) PROVE Contract!Next
  <2>1. key[a] \in Keys /\ orderStatus[a] = "none" /\ chain[a] = "unsent"
    BY <1>4 DEF Send
  <2>2. Broadcast(key[a]) = {}
    BY <1>4, FreshOrder DEF Send
  <2>3. [k \in Keys |-> Broadcast(k)]'
        = [[k \in Keys |-> Broadcast(k)] EXCEPT ![key[a]] = {a}]
    <3>1. \A k \in Keys : k # key[a] => Broadcast(k)' = Broadcast(k)
      BY <1>4 DEF Send, Broadcast
    <3>2. Broadcast(key[a])' = {a}
      BY <1>4, <2>1, <2>2 DEF Send, Broadcast
    <3> DEFINE B(k) == Broadcast(k)
               C(k) == Broadcast(k)'
    <3>3. /\ \A k \in Keys : k # key[a] => C(k) = B(k)
          /\ C(key[a]) = {a}
      BY <3>1, <3>2
    <3> HIDE DEF B, C
    <3>4. [k \in Keys |-> C(k)] = [[k \in Keys |-> B(k)] EXCEPT ![key[a]] = {a}]
      BY ONLY <2>1, <3>3
    <3> QED
      BY ONLY <3>4 DEF B, C
  <2>4. \E s \in {"none", "SUBMITTED"} : orderStatus' = [orderStatus EXCEPT ![a] = s]
    BY <1>4, <2>1 DEF Send
  <2>5. Contract!Submit(a, key[a])
    BY <1>4, <2>1, <2>2, <2>3, <2>4 DEF Send, Contract!Submit
  <2> QED
    BY <2>1, <2>5
<1>5. ASSUME NEW a \in Attempts, Land(a) PROVE Contract!Next
  <2>1. UNCHANGED [k \in Keys |-> Broadcast(k)]
    BY <1>5 DEF Land, Broadcast
  <2>2. Contract!Settle(a)
    BY <1>5, <2>1 DEF Land, Contract!Settle
  <2> QED
    BY <2>2
<1>6. ASSUME NEW k \in Keys, ClaimExpires(k) PROVE UNCHANGED Contract!vars
  BY <1>6, <1>0 DEF ClaimExpires
<1>7. CASE UNCHANGED orderVars
  BY <1>7, <1>0 DEF orderVars
<1> QED
  BY <1>1, <1>2, <1>3, <1>4, <1>5, <1>6, <1>7 DEF OrderNext

\* execute() implements OrderContract for any number of attempts and keys:
\* Redis, the stored signature and the order of the awaits are enough.
THEOREM ContractKept == OrderSpec => ImplementsContract
<1>1. OrderInit => Contract!Init
  BY DEF OrderInit, Contract!Init, Broadcast
<1>2. OrderInv /\ [OrderNext]_orderVars => [Contract!Next]_(Contract!vars)
  BY StepKeepsPromise
<1> QED
  BY <1>1, <1>2, OrderExecutionInvariant, PTL DEF OrderSpec, ImplementsContract, Contract!Spec

=============================================================================
