------------------------ MODULE LedgerProtocolProofs ------------------------
(***************************************************************************)
(* The ledger for any number of reservations, mints, wallets and any       *)
(* limits.  Its counters count what is held and what is open, and so       *)
(* RESERVE's check of the counters bounds the book itself; its exposures   *)
(* are sums of what is committed, no money appears or disappears, and the  *)
(* ceilings checked at a grant hold ever after.                            *)
(***************************************************************************)
EXTENDS LedgerProtocol, FiniteSums

\* A reservation has no position before it is committed.
RowsFollowCommit ==
    \A r \in ResIds : reservation[r].state \in {"unborn", "held"} => row[r] = NoRow

IInv == TypeOK /\ RowsFollowCommit /\ CountsBacked /\ NeverOverbooked

-----------------------------------------------------------------------------
\* Holds and open positions are finitely many.
LEMMA FiniteBook ==
    /\ IsFiniteSet(Held) /\ IsFiniteSet(OpenRows)
    /\ Cardinality(Held) \in Nat /\ Cardinality(OpenRows) \in Nat
<1>1. Held \in SUBSET ResIds /\ OpenRows \in SUBSET ResIds
  BY DEF Held, OpenRows
<1>2. IsFiniteSet(ResIds)
  BY LedgerAssumption
<1>3. IsFiniteSet(Held) /\ IsFiniteSet(OpenRows)
  BY <1>1, <1>2, FS_Subset
<1> QED
  BY <1>3, FS_CardinalityType

\* A reservation that is held or committed is a record of the four fields.
LEMMA LiveWhenSettled ==
    ASSUME TypeOK, NEW r \in ResIds, reservation[r].state \in {"held", "committed"}
    PROVE  reservation[r] \in Live
  BY DEF TypeOK, Unborn, Gone

\* A row that is not empty is an open position with a positive cost.
LEMMA OpenWhenNotEmpty ==
    ASSUME TypeOK, NEW r \in OpenRows
    PROVE  /\ row[r] \in OpenRow
           /\ row[r].mint \in Mints /\ row[r].wallet \in Wallets /\ row[r].cost \in Nat \ {0}
  BY DEF TypeOK, OpenRows, OpenRow

-----------------------------------------------------------------------------
\* The bootstrap and an empty book satisfy the invariant.
LEMMA InitIInv == Init => IInv
<1> SUFFICES ASSUME Init PROVE IInv
  OBVIOUS
<1>1. TypeOK
  <2>1. /\ {equity, cash, deployed, unrealized, realized_today, hwm, pnl_total} \subseteq Int
        /\ {open_positions, pending, harvested_total, harvest_due, overfill} \subseteq Nat
    BY LedgerAssumption DEF Init, LedgerInit, Fresh
  <2>2. token_exp \in [Mints -> Int] /\ trader_exp \in [Wallets -> Int]
    BY DEF Init, LedgerInit
  <2>3. reservation \in [ResIds -> {Unborn, Gone} \cup Live]
    BY DEF Init, LedgerInit
  <2>4. row \in [ResIds -> {NoRow} \cup OpenRow]
    BY DEF Init
  <2> QED
    BY <2>1, <2>2, <2>3, <2>4 DEF Init, TypeOK, KeysInit, KeysTypeOK
<1>2. RowsFollowCommit
  BY DEF Init, RowsFollowCommit
<1>3. Held = {} /\ OpenRows = {}
  BY DEF Init, LedgerInit, Held, OpenRows, Unborn
<1>4. CountsBacked /\ NeverOverbooked
  BY <1>3, FS_EmptySet, LedgerAssumption
     DEF CountsBacked, NeverOverbooked, Init, LedgerInit, Fresh
<1> QED
  BY <1>1, <1>2, <1>4 DEF IInv

\* A step that changes neither the reservations, the rows nor the counters
\* preserves what the invariant says of them.
LEMMA BookUnchanged ==
    ASSUME IInv, UNCHANGED <<reservation, row, counters>>
    PROVE  RowsFollowCommit' /\ CountsBacked' /\ NeverOverbooked'
  BY DEF IInv, RowsFollowCommit, CountsBacked, NeverOverbooked, Held, OpenRows, counters

\* RESERVE turns an unborn reservation into a hold within the limits.
LEMMA EnterIInv == ASSUME IInv, NEW r \in ResIds, Enter(r) PROVE IInv'
<1> PICK m \in Mints, w \in Wallets, size \in Sizes : Reserve(r, m, w, size)
  BY DEF Enter
<1>1. size \in Nat
  BY LedgerAssumption
<1>2. TypeOK'
  BY <1>1 DEF IInv, TypeOK, Enter, Reserve, KeysTypeOK, keyVars, protocolVars, marks, Live
<1>3. RowsFollowCommit'
  BY DEF IInv, TypeOK, RowsFollowCommit, Enter, Reserve, protocolVars, Unborn
<1>4. Held' = Held \cup {r} /\ r \notin Held
  BY DEF IInv, TypeOK, Held, Reserve, Unborn
<1>5. OpenRows' = OpenRows
  BY DEF OpenRows, Enter, protocolVars
<1>6. Cardinality(Held') = Cardinality(Held) + 1
  BY <1>4, FiniteBook, FS_AddElement
<1>7. CountsBacked' /\ NeverOverbooked'
  BY <1>5, <1>6, FiniteBook, LedgerAssumption
     DEF IInv, CountsBacked, NeverOverbooked, Reserve, SlotsFree
<1> QED
  BY <1>2, <1>3, <1>7 DEF IInv

\* RELEASE gives a hold back.
LEMMA GiveUpIInv == ASSUME IInv, NEW r \in ResIds, GiveUp(r) PROVE IInv'
<1> USE DEF GiveUp, Release
<1>1. r \in Held /\ reservation[r] \in Live
  BY LiveWhenSettled DEF IInv, Held
<1>2. Held' = Held \ {r} /\ OpenRows' = OpenRows
  BY DEF IInv, TypeOK, Held, OpenRows, Gone, protocolVars
<1>3. Cardinality(Held') = Cardinality(Held) - 1
  BY <1>1, <1>2, FiniteBook, FS_RemoveElement
<1>4. Cardinality(Held') \in Nat
  BY <1>2, FiniteBook, FS_RemoveElement, FS_CardinalityType
<1>5. CountsBacked' /\ NeverOverbooked'
  BY <1>2, <1>3, FiniteBook, LedgerAssumption DEF IInv, CountsBacked, NeverOverbooked
<1>6. TypeOK'
  BY <1>1, <1>4, <1>5
     DEF IInv, TypeOK, CountsBacked, KeysTypeOK, keyVars, protocolVars, marks, Live
<1>7. RowsFollowCommit'
  BY DEF IInv, TypeOK, RowsFollowCommit, Gone, protocolVars
<1> QED
  BY <1>5, <1>6, <1>7 DEF IInv

\* COMMIT turns a hold into a position: one count goes down, the other up.
LEMMA FillIInv == ASSUME IInv, NEW r \in ResIds, Fill(r) PROVE IInv'
<1> PICK actual \in Fills :
      /\ Commit(r, actual)
      /\ row' = [row EXCEPT ![r] = [mint |-> reservation[r].mint,
                                    wallet |-> reservation[r].wallet, cost |-> actual]]
      /\ overfill' = overfill +
            (IF actual > reservation[r].usd THEN actual - reservation[r].usd ELSE 0)
  BY DEF Fill
<1> USE DEF Commit
<1>1. actual \in Nat \ {0}
  BY LedgerAssumption, ProtocolAssumption
<1>2. r \in Held /\ reservation[r] \in Live /\ row[r] = NoRow
  BY LiveWhenSettled DEF IInv, Held, RowsFollowCommit
<1>3. row'[r] # NoRow /\ row' \in [ResIds -> {NoRow} \cup OpenRow]
  BY <1>1, <1>2 DEF IInv, TypeOK, NoRow, OpenRow, Live
<1>4. Held' = Held \ {r}
  BY <1>2 DEF IInv, TypeOK, Held
<1>5. OpenRows' = OpenRows \cup {r} /\ r \notin OpenRows
  BY <1>2, <1>3 DEF IInv, TypeOK, OpenRows
<1>6. Cardinality(Held') = Cardinality(Held) - 1 /\ Cardinality(Held') \in Nat
  BY <1>2, <1>4, FiniteBook, FS_RemoveElement, FS_CardinalityType
<1>7. Cardinality(OpenRows') = Cardinality(OpenRows) + 1
  BY <1>5, FiniteBook, FS_AddElement
<1>8. CountsBacked' /\ NeverOverbooked'
  BY <1>6, <1>7, FiniteBook, LedgerAssumption DEF IInv, CountsBacked, NeverOverbooked
<1>9. reservation' \in [ResIds -> {Unborn, Gone} \cup Live]
  BY <1>1, <1>2 DEF IInv, TypeOK, Live
<1>10. TypeOK'
  BY <1>1, <1>2, <1>3, <1>6, <1>8, <1>9
     DEF Fill, IInv, TypeOK, CountsBacked, KeysTypeOK, keyVars, marks, Live
<1>11. RowsFollowCommit'
  BY <1>2 DEF IInv, TypeOK, RowsFollowCommit
<1> QED
  BY <1>8, <1>10, <1>11 DEF IInv

\* RELEASE_POSITION frees a slot exactly when the position closes.
LEMMA ExitIInv == ASSUME IInv, NEW r \in ResIds, Exit(r) PROVE IInv'
<1> PICK cost \in 1 .. row[r].cost, proceeds \in Proceeds :
      /\ ReleasePosition(row[r].mint, row[r].wallet, cost, proceeds - cost, proceeds,
                         cost = row[r].cost)
      /\ row' = IF cost = row[r].cost THEN [row EXCEPT ![r] = NoRow]
                ELSE [row EXCEPT ![r].cost = @ - cost]
      /\ pnl_total' = pnl_total + proceeds - cost
  BY DEF Exit
<1> USE DEF ReleasePosition
<1>1. r \in OpenRows /\ TypeOK
  BY DEF Exit, OpenRows, IInv
<1>2. /\ row[r] \in OpenRow
      /\ row[r].mint \in Mints /\ row[r].wallet \in Wallets /\ row[r].cost \in Nat \ {0}
  BY <1>1, OpenWhenNotEmpty
<1>3. proceeds \in Nat /\ cost \in Nat \ {0} /\ cost <= row[r].cost
  BY <1>2, LedgerAssumption
<1>4. Held' = Held
  BY DEF Held
<1>5. RowsFollowCommit'
  BY <1>1 DEF IInv, TypeOK, RowsFollowCommit, OpenRows
<1>6. CASE cost = row[r].cost
  <2>1. OpenRows' = OpenRows \ {r}
    BY <1>1, <1>6 DEF TypeOK, OpenRows
  <2>2. Cardinality(OpenRows') = Cardinality(OpenRows) - 1 /\ Cardinality(OpenRows') \in Nat
    BY <1>1, <2>1, FiniteBook, FS_RemoveElement, FS_CardinalityType
  <2>3. CountsBacked' /\ NeverOverbooked'
    BY <1>4, <1>6, <2>2, FiniteBook, LedgerAssumption DEF IInv, CountsBacked, NeverOverbooked
  <2>4. row' \in [ResIds -> {NoRow} \cup OpenRow]
    BY <1>1, <1>6 DEF TypeOK
  <2>5. TypeOK'
    BY <1>1, <1>2, <1>3, <2>2, <2>3, <2>4
       DEF Exit, TypeOK, CountsBacked, KeysTypeOK, keyVars, marks, Clamped, Dropped
  <2> QED
    BY <1>5, <2>3, <2>5 DEF IInv
<1>7. CASE cost # row[r].cost
  <2>1. row' = [row EXCEPT ![r].cost = @ - cost]
    BY <1>7
  <2>2. row'[r] # NoRow /\ row' \in [ResIds -> {NoRow} \cup OpenRow]
    BY <1>1, <1>2, <1>3, <1>7, <2>1 DEF TypeOK, NoRow, OpenRow
  <2>3. OpenRows' = OpenRows
    BY <1>1, <2>1, <2>2 DEF TypeOK, OpenRows
  <2>4. CountsBacked' /\ NeverOverbooked'
    BY <1>4, <1>7, <2>3 DEF IInv, CountsBacked, NeverOverbooked
  <2>5. TypeOK'
    BY <1>1, <1>2, <1>3, <1>7, <2>2
       DEF Exit, TypeOK, KeysTypeOK, keyVars, marks, Clamped, Dropped
  <2> QED
    BY <1>5, <2>4, <2>5 DEF IInv
<1> QED
  BY <1>6, <1>7

\* Expiry, marks, the daily reset, harvests and the reset of a flat book
\* leave holds and positions alone.
LEMMA OtherStepsIInv ==
    ASSUME IInv,
           \/ \E r \in ResIds : Forget(r)
           \/ StartOrStop \/ Tick \/ NewDay \/ HarvestDecide \/ HarvestDebit \/ Reset
    PROVE  IInv'
<1>1. TypeOK
  BY DEF IInv
<1>2. ASSUME NEW r \in ResIds, Forget(r) PROVE IInv'
  <2> USE <1>2 DEF Forget, Expire, protocolVars, marks, money, counters, exposure, keyVars
  <2>1. TypeOK'
    BY <1>1 DEF TypeOK, KeysTypeOK
  <2>2. Held' = Held /\ OpenRows' = OpenRows
    BY <1>1 DEF TypeOK, Held, OpenRows, Gone
  <2>3. RowsFollowCommit'
    BY <1>1 DEF IInv, TypeOK, RowsFollowCommit, Gone
  <2> QED
    BY <2>1, <2>2, <2>3 DEF IInv, CountsBacked, NeverOverbooked
<1>3. CASE StartOrStop
  <2>1. TypeOK'
    BY <1>1, <1>3
       DEF TypeOK, StartOrStop, SetState, KeysTypeOK, SystemState, ledgerVars, protocolVars
  <2> QED
    BY <1>3, <2>1, BookUnchanged DEF IInv, StartOrStop, ledgerVars, protocolVars, counters
<1>4. CASE Tick
  <2>1. PICK unreal \in Int : Mark(unreal)
    BY <1>4, LedgerAssumption DEF Tick
  <2>2. TypeOK'
    BY <1>1, <1>4, <2>1 DEF TypeOK, Tick, Mark, KeysTypeOK, keyVars, protocolVars, money,
                            counters, exposure
  <2> QED
    BY <1>4, <2>1, <2>2, BookUnchanged DEF IInv, Tick, Mark, protocolVars, counters
<1>5. CASE NewDay
  <2>1. TypeOK'
    BY <1>1, <1>5 DEF TypeOK, NewDay, ResetDaily, KeysTypeOK, keyVars, protocolVars, marks,
                      money, counters, exposure
  <2> QED
    BY <1>5, <2>1, BookUnchanged DEF IInv, NewDay, ResetDaily, protocolVars, counters
<1>6. CASE HarvestDecide
  <2>1. TypeOK'
    BY <1>1, <1>6, ProtocolAssumption
       DEF TypeOK, HarvestDecide, KeysTypeOK, keyVars, ledgerVars
  <2> QED
    BY <1>6, <2>1, BookUnchanged DEF IInv, HarvestDecide, ledgerVars, counters
<1>7. CASE HarvestDebit
  <2>1. TypeOK'
    BY <1>1, <1>7 DEF TypeOK, HarvestDebit, AddHarvest, KeysTypeOK, keyVars, marks, counters,
                      exposure
  <2> QED
    BY <1>7, <2>1, BookUnchanged DEF IInv, HarvestDebit, AddHarvest, counters
<1>8. CASE Reset
  <2>1. TypeOK'
    BY <1>1, <1>8, LedgerAssumption
       DEF TypeOK, Reset, ForceBootstrap, KeysTypeOK, keyVars, exposure
  <2>2. Held' = {} /\ OpenRows' = {}
    BY <1>8 DEF Reset, ForceBootstrap, Held, OpenRows
  <2>3. CountsBacked' /\ NeverOverbooked'
    BY <1>8, <2>2, FS_EmptySet, LedgerAssumption
       DEF CountsBacked, NeverOverbooked, Reset, ForceBootstrap
  <2>4. RowsFollowCommit'
    BY <1>8 DEF IInv, RowsFollowCommit, Reset, ForceBootstrap
  <2> QED
    BY <2>1, <2>3, <2>4 DEF IInv
<1> QED
  BY <1>2, <1>3, <1>4, <1>5, <1>6, <1>7, <1>8

\* Every step of the protocol preserves the invariant.
LEMMA NextIInv == IInv /\ [Next]_vars => IInv'
<1> SUFFICES ASSUME IInv, [Next]_vars PROVE IInv'
  OBVIOUS
<1>1. CASE Next
  BY <1>1, EnterIInv, GiveUpIInv, FillIInv, ExitIInv, OtherStepsIInv DEF Next
<1>2. CASE UNCHANGED vars
  <2>1. TypeOK'
    BY <1>2 DEF IInv, TypeOK, KeysTypeOK, vars, ledgerVars, protocolVars
  <2> QED
    BY <1>2, <2>1, BookUnchanged DEF IInv, vars, ledgerVars, protocolVars, counters
<1> QED
  BY <1>1, <1>2

-----------------------------------------------------------------------------
(* The money *)

\* The drawdown reference is never below the equity the ceilings are taken of.
PeakAboveEquity == equity <= hwm /\ 0 <= hwm

MoneyInv == Conservation /\ ExposureBacked /\ PeakAboveEquity /\ CapsHonoured

\* What reservations commit are natural numbers; those that commit something
\* are finitely many.
CommittedOK ==
    /\ Committed \in [ResIds -> Nat]
    /\ Active \in SUBSET ResIds
    /\ \A n : OfMint(n) \in SUBSET ResIds /\ OfWallet(n) \in SUBSET ResIds

\* In every well-typed state what is committed can be summed.
LEMMA CommittedType == TypeOK => CommittedOK
<1> SUFFICES ASSUME TypeOK PROVE Committed \in [ResIds -> Nat]
  BY DEF CommittedOK, Active, Held, OpenRows, OfMint, OfWallet
<1>1. ASSUME NEW r \in ResIds, r \in Held PROVE reservation[r].usd \in Nat
  BY <1>1, LiveWhenSettled DEF Held, Live
<1>2. ASSUME NEW r \in ResIds PROVE row[r].cost \in Nat
  BY DEF TypeOK, NoRow, OpenRow
<1> QED
  BY <1>1, <1>2 DEF Committed

\* The totals of mint m and wallet w, and the deployed one, change by delta.
TotalsMove(m, w, delta) ==
    /\ deployed' = deployed + delta
    /\ \A n \in Mints : token_exp'[n] = token_exp[n] + (IF n = m THEN delta ELSE 0)
    /\ \A n \in Wallets : trader_exp'[n] = trader_exp[n] + (IF n = w THEN delta ELSE 0)

\* The exposures after a step that concerns one reservation: what it committed
\* was within every total it counts in, and totals that move by the difference
\* stay backed.
LEMMA OneCommitmentMoves ==
    ASSUME TypeOK, TypeOK', ExposureBacked,
           NEW r \in ResIds, NEW m \in Mints, NEW w \in Wallets, NEW was, NEW now,
           \A x \in ResIds \ {r} : reservation'[x] = reservation[x] /\ row'[x] = row[x],
           r \in Active => Holder(r).mint = m /\ Holder(r).wallet = w,
           r \in Active' => Holder(r)'.mint = m /\ Holder(r)'.wallet = w,
           was = IF r \in Active THEN Committed[r] ELSE 0,
           now = IF r \in Active' THEN Committed'[r] ELSE 0
    PROVE  /\ was \in Nat /\ now \in Nat
           /\ was <= deployed /\ was <= token_exp[m] /\ was <= trader_exp[w]
           /\ TotalsMove(m, w, now - was) => ExposureBacked'
<1>1. CommittedOK
  BY CommittedType
<1>2. CommittedOK'
  <2>1. TypeOK' => CommittedOK'
    BY CommittedType, PTL
  <2> QED
    BY <2>1
<1>3. ASSUME NEW x \in ResIds \ {r}
      PROVE  /\ Committed'[x] = Committed[x]
             /\ x \in Active' <=> x \in Active
             /\ Holder(x)' = Holder(x)
  BY DEF Committed, Active, Held, OpenRows, Holder
<1>4. IsFiniteSet(ResIds)
  BY LedgerAssumption
<1>5. ASSUME NEW A \in SUBSET ResIds, NEW B \in SUBSET ResIds, A \ {r} = B \ {r},
             r \in A <=> r \in Active, r \in B <=> r \in Active'
      PROVE  /\ SumFunctionOnSet(Committed, A) \in Nat
             /\ was \in Nat /\ now \in Nat /\ was <= SumFunctionOnSet(Committed, A)
             /\ SumFunctionOnSet(Committed', B) = SumFunctionOnSet(Committed, A) - was + now
  <2>1. Committed \in [ResIds -> Nat] /\ Committed' \in [ResIds -> Nat]
    BY <1>1, <1>2 DEF CommittedOK
  <2>2. \A x \in ResIds \ {r} : Committed'[x] = Committed[x]
    BY <1>3
  <2>3. (was = IF r \in A THEN Committed[r] ELSE 0)
        /\ (now = IF r \in B THEN Committed'[r] ELSE 0)
    BY <1>5
  <2> QED
    BY <1>4, <1>5, <2>1, <2>2, <2>3, SumMoves
<1>6. ASSUME NEW A \in SUBSET ResIds, NEW B \in SUBSET ResIds, A = B, r \notin A
      PROVE  SumFunctionOnSet(Committed', B) = SumFunctionOnSet(Committed, A)
  <2>1. IsFiniteSet(A)
    BY <1>4, FS_Subset
  <2>2. \A x \in A : Committed[x] \in Int /\ Committed'[x] = Committed[x]
    BY <1>1, <1>3, <1>6 DEF CommittedOK
  <2> QED
    BY <1>6, <2>1, <2>2, SumSame
<1>7. /\ Active \ {r} = Active' \ {r}
      /\ OfMint(m) \ {r} = OfMint(m)' \ {r}
      /\ OfWallet(w) \ {r} = OfWallet(w)' \ {r}
      /\ r \in OfMint(m) <=> r \in Active
      /\ r \in OfMint(m)' <=> r \in Active'
      /\ r \in OfWallet(w) <=> r \in Active
      /\ r \in OfWallet(w)' <=> r \in Active'
      /\ \A n \in Mints \ {m} : OfMint(n)' = OfMint(n) /\ r \notin OfMint(n)
      /\ \A n \in Wallets \ {w} : OfWallet(n)' = OfWallet(n) /\ r \notin OfWallet(n)
  BY <1>1, <1>2, <1>3 DEF CommittedOK, OfMint, OfWallet
<1>8. /\ Active \in SUBSET ResIds /\ Active' \in SUBSET ResIds
      /\ \A n : OfMint(n) \in SUBSET ResIds /\ OfWallet(n) \in SUBSET ResIds
      /\ \A n : OfMint(n)' \in SUBSET ResIds /\ OfWallet(n)' \in SUBSET ResIds
  BY <1>1, <1>2 DEF CommittedOK
<1>9. /\ deployed = SumFunctionOnSet(Committed, Active)
      /\ \A n \in Mints : token_exp[n] = SumFunctionOnSet(Committed, OfMint(n))
      /\ \A n \in Wallets : trader_exp[n] = SumFunctionOnSet(Committed, OfWallet(n))
  BY DEF ExposureBacked
<1>10. /\ was \in Nat /\ now \in Nat
       /\ was <= deployed /\ was <= token_exp[m] /\ was <= trader_exp[w]
       /\ SumFunctionOnSet(Committed', Active') = deployed - was + now
       /\ SumFunctionOnSet(Committed', OfMint(m)') = token_exp[m] - was + now
       /\ SumFunctionOnSet(Committed', OfWallet(w)') = trader_exp[w] - was + now
  BY <1>5, <1>7, <1>8, <1>9
<1>11. ASSUME NEW n \in Mints \ {m}
       PROVE  SumFunctionOnSet(Committed', OfMint(n)') = token_exp[n]
  BY <1>6, <1>7, <1>8, <1>9
<1>12. ASSUME NEW n \in Wallets \ {w}
       PROVE  SumFunctionOnSet(Committed', OfWallet(n)') = trader_exp[n]
  BY <1>6, <1>7, <1>8, <1>9
<1>13. ASSUME TotalsMove(m, w, now - was) PROVE ExposureBacked'
  <2> USE DEF TotalsMove
  <2>1. /\ deployed \in Int
        /\ \A n \in Mints : token_exp[n] \in Int
        /\ \A n \in Wallets : trader_exp[n] \in Int
    BY DEF TypeOK
  <2>2. \A n \in Mints : token_exp'[n] = SumFunctionOnSet(Committed', OfMint(n)')
    BY <1>10, <1>11, <1>13, <2>1
  <2>3. \A n \in Wallets : trader_exp'[n] = SumFunctionOnSet(Committed', OfWallet(n)')
    BY <1>10, <1>12, <1>13, <2>1
  <2> QED
    BY <1>10, <1>13, <2>1, <2>2, <2>3 DEF ExposureBacked
<1> QED
  BY <1>10, <1>13

\* Multiplying by a natural number keeps an order.
LEMMA TimesKeepsOrder ==
    ASSUME NEW c \in Nat, NEW a \in Int, NEW b \in Int, a <= b
    PROVE  c * a <= c * b
<1>1. PICK k \in Nat : b = a + k
  <2>1. b - a \in Nat /\ b = a + (b - a)
    OBVIOUS
  <2> QED
    BY <2>1
<1>2. c * k \in Nat /\ c * (a + k) = c * a + c * k
  OBVIOUS
<1> QED
  BY <1>1, <1>2

\* Steps that raise no exposure by more than the fill exceeded its reservation
\* keep the ceilings, since the reference never falls.
LEMMA CapsKept ==
    ASSUME TypeOK, TypeOK', CapsHonoured, hwm <= hwm', NEW d \in Nat,
           overfill' = overfill + d,
           NEW m, NEW w, NEW delta \in Int, delta <= d, TotalsMove(m, w, delta)
    PROVE  CapsHonoured'
<1>1. /\ hwm \in Int /\ hwm' \in Int /\ overfill \in Nat
      /\ deployed \in Int /\ deployed' \in Int
      /\ \A n \in Mints : token_exp[n] \in Int /\ token_exp'[n] \in Int
      /\ \A n \in Wallets : trader_exp[n] \in Int /\ trader_exp'[n] \in Int
      /\ deployed' <= deployed + d
      /\ \A n \in Mints : token_exp'[n] <= token_exp[n] + d
      /\ \A n \in Wallets : trader_exp'[n] <= trader_exp[n] + d
  BY DEF TypeOK, TotalsMove
<1>2. ASSUME NEW pct \in Nat, NEW was \in Int, NEW now \in Int, now <= was + d,
             was * 100 <= pct * hwm + 100 * overfill
      PROVE  now * 100 <= pct * hwm' + 100 * overfill'
  <2>1. pct * hwm <= pct * hwm'
    BY <1>1, TimesKeepsOrder
  <2> DEFINE P == pct * hwm
             Q == pct * hwm'
  <2>2. P \in Int /\ Q \in Int
    BY <1>1
  <2>3. P <= Q /\ was * 100 <= P + 100 * overfill /\ now <= was + d
    BY ONLY <1>2, <2>1
  <2> HIDE DEF P, Q
  <2>4. now * 100 <= Q + 100 * overfill'
    BY <1>1, <2>2, <2>3
  <2> QED
    BY <2>4 DEF Q
<1>3. MaxDeployedPct \in Nat /\ MaxTokenPct \in Nat /\ MaxTraderPct \in Nat
  BY LedgerAssumption
<1>4. deployed' * 100 <= MaxDeployedPct * hwm' + 100 * overfill'
  BY <1>1, <1>2, <1>3 DEF CapsHonoured
<1>5. ASSUME NEW n \in Mints
      PROVE  token_exp'[n] * 100 <= MaxTokenPct * hwm' + 100 * overfill'
  BY <1>1, <1>2, <1>3 DEF CapsHonoured
<1>6. ASSUME NEW n \in Wallets
      PROVE  trader_exp'[n] * 100 <= MaxTraderPct * hwm' + 100 * overfill'
  BY <1>1, <1>2, <1>3 DEF CapsHonoured
<1> QED
  BY <1>4, <1>5, <1>6 DEF CapsHonoured

\* A fresh ledger holds the capital and nothing is committed.
LEMMA InitMoney == Init => MoneyInv
<1> SUFFICES ASSUME Init PROVE MoneyInv
  OBVIOUS
<1>1. Conservation /\ PeakAboveEquity
  BY LedgerAssumption DEF Init, LedgerInit, Fresh, Conservation, PeakAboveEquity
<1>2. /\ Active = {} /\ \A n : OfMint(n) = {} /\ OfWallet(n) = {}
  BY DEF Init, LedgerInit, Active, Held, OpenRows, OfMint, OfWallet, Unborn
<1>3. ExposureBacked
  BY <1>2, SumEmpty DEF Init, LedgerInit, Fresh, ExposureBacked
<1>4. ASSUME NEW pct \in Nat PROVE 0 * 100 <= pct * Capital + 100 * 0
  <2>1. pct * Capital \in Nat
    BY LedgerAssumption
  <2> QED
    BY <2>1
<1>5. CapsHonoured
  BY <1>4, LedgerAssumption DEF Init, LedgerInit, Fresh, CapsHonoured
<1> QED
  BY <1>1, <1>3, <1>5 DEF MoneyInv

\* A hold moves its size from cash to the totals, which RESERVE checked against
\* the last marked equity.
LEMMA EnterMoney ==
    ASSUME IInv, IInv', MoneyInv, NEW r \in ResIds, Enter(r) PROVE MoneyInv'
<1> PICK m \in Mints, w \in Wallets, size \in Sizes : Reserve(r, m, w, size)
  BY DEF Enter
<1> USE DEF IInv
<1>1. size \in Nat
  BY LedgerAssumption
<1>2. Conservation' /\ PeakAboveEquity'
  BY <1>1 DEF MoneyInv, TypeOK, Conservation, PeakAboveEquity, Reserve, Enter, protocolVars,
              marks
<1>3. reservation'[r] = [state |-> "held", mint |-> m, wallet |-> w, usd |-> size]
  BY DEF TypeOK, Reserve
<1>4. r \notin Active /\ r \in Held' /\ r \in Active'
  BY <1>3 DEF RowsFollowCommit, Active, Held, OpenRows, Reserve, Unborn
<1>5. Committed'[r] = size /\ Holder(r)'.mint = m /\ Holder(r)'.wallet = w
  BY <1>3, <1>4 DEF Committed, Holder
<1>6. \A x \in ResIds \ {r} : reservation'[x] = reservation[x] /\ row'[x] = row[x]
  BY DEF TypeOK, Reserve, Enter, protocolVars
<1>7. ExposureBacked'
  <2>1. TotalsMove(m, w, size - 0)
    BY <1>1 DEF TypeOK, Reserve, TotalsMove
  <2>2. (0 = IF r \in Active THEN Committed[r] ELSE 0)
        /\ (size = IF r \in Active' THEN Committed'[r] ELSE 0)
    BY <1>4, <1>5
  <2> QED
    BY <1>4, <1>5, <1>6, <2>1, <2>2, OneCommitmentMoves DEF MoneyInv
<1>8. CapsHonoured'
  <2>1. /\ hwm \in Int /\ equity \in Int /\ equity <= hwm /\ overfill \in Nat
        /\ hwm' = hwm /\ overfill' = overfill
    BY DEF MoneyInv, TypeOK, PeakAboveEquity, Reserve, Enter, protocolVars, marks
  <2>2. ASSUME NEW pct \in Nat, NEW v \in Int, v * 100 <= pct * equity
        PROVE  v * 100 <= pct * hwm' + 100 * overfill'
    <3>1. pct * equity <= pct * hwm
      BY <2>1, TimesKeepsOrder
    <3>2. pct * equity \in Int /\ pct * hwm \in Int
      BY <2>1
    <3> QED
      BY <2>1, <2>2, <3>1, <3>2
  <2>3. MaxDeployedPct \in Nat /\ MaxTokenPct \in Nat /\ MaxTraderPct \in Nat
    BY LedgerAssumption
  <2>4. deployed' * 100 <= MaxDeployedPct * hwm' + 100 * overfill'
    BY <1>1, <2>2, <2>3 DEF TypeOK, Reserve, WithinCaps
  <2>5. token_exp'[m] * 100 <= MaxTokenPct * hwm' + 100 * overfill'
    BY <1>1, <2>2, <2>3 DEF TypeOK, Reserve, WithinCaps
  <2>6. trader_exp'[w] * 100 <= MaxTraderPct * hwm' + 100 * overfill'
    BY <1>1, <2>2, <2>3 DEF TypeOK, Reserve, WithinCaps
  <2>7. ASSUME NEW n \in Mints, n # m
        PROVE  token_exp'[n] * 100 <= MaxTokenPct * hwm' + 100 * overfill'
    BY <2>1, <2>7 DEF TypeOK, Reserve, MoneyInv, CapsHonoured
  <2>8. ASSUME NEW n \in Wallets, n # w
        PROVE  trader_exp'[n] * 100 <= MaxTraderPct * hwm' + 100 * overfill'
    BY <2>1, <2>8 DEF TypeOK, Reserve, MoneyInv, CapsHonoured
  <2> QED
    BY <2>4, <2>5, <2>6, <2>7, <2>8 DEF CapsHonoured
<1> QED
  BY <1>2, <1>7, <1>8 DEF MoneyInv

\* A released hold gives back exactly what it held.
LEMMA GiveUpMoney ==
    ASSUME IInv, IInv', MoneyInv, NEW r \in ResIds, GiveUp(r) PROVE MoneyInv'
<1> USE DEF IInv, GiveUp, Release
<1>1. r \in Held /\ reservation[r] \in Live /\ row[r] = NoRow
  BY LiveWhenSettled DEF Held, RowsFollowCommit
<1> DEFINE m == reservation[r].mint
           w == reservation[r].wallet
           usd == reservation[r].usd
<1>2. m \in Mints /\ w \in Wallets /\ usd \in Nat
  BY <1>1 DEF Live
<1>3. Conservation' /\ PeakAboveEquity'
  BY <1>2 DEF MoneyInv, TypeOK, Conservation, PeakAboveEquity, protocolVars, marks
<1>4. r \in Active /\ Committed[r] = usd /\ Holder(r).mint = m /\ Holder(r).wallet = w
  BY <1>1 DEF Active, Committed, Holder
<1>5. r \notin Active'
  BY <1>1 DEF TypeOK, Active, Held, OpenRows, Gone, protocolVars
<1>6. \A x \in ResIds \ {r} : reservation'[x] = reservation[x] /\ row'[x] = row[x]
  BY DEF TypeOK, protocolVars
<1>7. (usd = IF r \in Active THEN Committed[r] ELSE 0)
      /\ (0 = IF r \in Active' THEN Committed'[r] ELSE 0)
  BY <1>4, <1>5
<1>8. TotalsMove(m, w, -usd)
  BY <1>2 DEF TypeOK, TotalsMove
<1> HIDE DEF m, w, usd
<1>9. ExposureBacked'
  <2>1. -usd = 0 - usd
    BY <1>2
  <2> QED
    BY <1>2, <1>4, <1>5, <1>6, <1>7, <1>8, <2>1, OneCommitmentMoves DEF MoneyInv
<1>10. CapsHonoured'
  <2>1. hwm <= hwm' /\ overfill' = overfill + 0 /\ -usd <= 0 /\ -usd \in Int
    BY <1>2 DEF TypeOK, protocolVars, marks
  <2> QED
    BY <1>8, <2>1, CapsKept DEF MoneyInv
<1> QED
  BY <1>3, <1>9, <1>10 DEF MoneyInv

\* A fill moves the difference between its value and the reserved size; only an
\* excess raises the totals, and overfill by as much.
LEMMA FillMoney ==
    ASSUME IInv, IInv', MoneyInv, NEW r \in ResIds, Fill(r) PROVE MoneyInv'
<1> PICK actual \in Fills :
      /\ Commit(r, actual)
      /\ row' = [row EXCEPT ![r] = [mint |-> reservation[r].mint,
                                    wallet |-> reservation[r].wallet, cost |-> actual]]
      /\ overfill' = overfill +
            (IF actual > reservation[r].usd THEN actual - reservation[r].usd ELSE 0)
  BY DEF Fill
<1> USE DEF IInv, Commit
<1> DEFINE m == reservation[r].mint
           w == reservation[r].wallet
           usd == reservation[r].usd
           d == IF actual > usd THEN actual - usd ELSE 0
<1>1. r \in Held /\ reservation[r] \in Live /\ row[r] = NoRow
  BY LiveWhenSettled DEF Held, RowsFollowCommit
<1>2. /\ m \in Mints /\ w \in Wallets /\ usd \in Nat /\ actual \in Nat \ {0}
      /\ d \in Nat /\ actual - usd <= d /\ actual - usd \in Int
  BY <1>1, LedgerAssumption, ProtocolAssumption DEF Live
<1>3. Conservation' /\ PeakAboveEquity'
  BY <1>2 DEF MoneyInv, TypeOK, Conservation, PeakAboveEquity, Fill, marks
<1>4. r \in Active /\ Committed[r] = usd /\ Holder(r).mint = m /\ Holder(r).wallet = w
  BY <1>1 DEF Active, Committed, Holder
<1>5. row'[r] = [mint |-> m, wallet |-> w, cost |-> actual] /\ reservation'[r].state = "committed"
  BY <1>1 DEF TypeOK, Live
<1>6. r \notin Held' /\ r \in Active'
  BY <1>2, <1>5 DEF Active, Held, OpenRows, NoRow
<1>7. Committed'[r] = actual /\ Holder(r)'.mint = m /\ Holder(r)'.wallet = w
  BY <1>5, <1>6 DEF Committed, Holder
<1>8. \A x \in ResIds \ {r} : reservation'[x] = reservation[x] /\ row'[x] = row[x]
  BY DEF TypeOK
<1>9. (usd = IF r \in Active THEN Committed[r] ELSE 0)
      /\ (actual = IF r \in Active' THEN Committed'[r] ELSE 0)
  BY <1>4, <1>6, <1>7
<1>10. TotalsMove(m, w, actual - usd)
  BY <1>2 DEF TypeOK, TotalsMove
<1>11. hwm <= hwm' /\ overfill' = overfill + d
  BY DEF TypeOK, marks
<1> HIDE DEF m, w, usd, d
<1>12. ExposureBacked'
  BY <1>2, <1>4, <1>6, <1>7, <1>8, <1>9, <1>10, OneCommitmentMoves DEF MoneyInv
<1>13. CapsHonoured'
  BY <1>2, <1>10, <1>11, CapsKept DEF MoneyInv
<1> QED
  BY <1>3, <1>12, <1>13 DEF MoneyInv

\* What an exit releases was within every total, so neither the dust clamp nor
\* the deletion of an exposure field loses anything.
LEMMA ExitMoney ==
    ASSUME IInv, IInv', MoneyInv, NEW r \in ResIds, Exit(r) PROVE MoneyInv'
<1> PICK cost \in 1 .. row[r].cost, proceeds \in Proceeds :
      /\ ReleasePosition(row[r].mint, row[r].wallet, cost, proceeds - cost, proceeds,
                         cost = row[r].cost)
      /\ row' = IF cost = row[r].cost THEN [row EXCEPT ![r] = NoRow]
                ELSE [row EXCEPT ![r].cost = @ - cost]
      /\ pnl_total' = pnl_total + proceeds - cost
  BY DEF Exit
<1> USE DEF IInv, ReleasePosition
<1> DEFINE m == row[r].mint
           w == row[r].wallet
           all == row[r].cost
<1>1. r \in OpenRows /\ r \notin Held
  BY DEF Exit, OpenRows, Held, RowsFollowCommit
<1>2. row[r] \in OpenRow /\ m \in Mints /\ w \in Wallets /\ all \in Nat \ {0}
  BY <1>1, OpenWhenNotEmpty
<1>3. proceeds \in Nat /\ cost \in Nat \ {0} /\ cost <= all
  BY <1>2, LedgerAssumption
<1>4. r \in Active /\ Committed[r] = all /\ Holder(r).mint = m /\ Holder(r).wallet = w
  BY <1>1 DEF Active, Committed, Holder
<1>5. \A x \in ResIds \ {r} : reservation'[x] = reservation[x] /\ row'[x] = row[x]
  BY DEF TypeOK
<1>6. Held' = Held
  BY DEF Held
<1>7. /\ r \in Active' => Holder(r)'.mint = m /\ Holder(r)'.wallet = w
      /\ all - cost = IF r \in Active' THEN Committed'[r] ELSE 0
  <2>1. CASE cost = all
    <3>1. r \notin Active'
      BY <1>1, <1>6, <2>1 DEF TypeOK, Active, OpenRows
    <3> QED
      BY <1>2, <2>1, <3>1
  <2>2. CASE cost # all
    <3>1. row' = [row EXCEPT ![r].cost = @ - cost]
      BY <2>2
    <3>2. row'[r].mint = m /\ row'[r].wallet = w /\ row'[r].cost = all - cost
      BY <1>2, <3>1 DEF TypeOK, OpenRow
    <3>3. row'[r] # NoRow
      BY <1>2, <1>3, <2>2, <3>2 DEF NoRow
    <3>4. r \in Active' /\ Committed'[r] = all - cost /\ Holder(r)' = row'[r]
      BY <1>1, <1>6, <3>2, <3>3 DEF Active, OpenRows, Committed, Holder
    <3> QED
      BY <3>2, <3>4
  <2> QED
    BY <2>1, <2>2
<1>8. all = IF r \in Active THEN Committed[r] ELSE 0
  BY <1>4
<1> HIDE DEF m, w, all
<1>9. /\ all <= deployed /\ all <= token_exp[m] /\ all <= trader_exp[w]
      /\ TotalsMove(m, w, (all - cost) - all) => ExposureBacked'
  BY <1>2, <1>4, <1>5, <1>7, <1>8, OneCommitmentMoves DEF MoneyInv
<1>10. /\ deployed \in Int /\ \A n \in Mints : token_exp[n] \in Int
       /\ \A n \in Wallets : trader_exp[n] \in Int
  BY DEF TypeOK
<1>11. deployed' = deployed - cost
  BY <1>2, <1>3, <1>9, <1>10 DEF Clamped
<1>12. TotalsMove(m, w, -cost)
  <2>1. token_exp' = [token_exp EXCEPT ![m] = Dropped(@ - cost)]
        /\ trader_exp' = [trader_exp EXCEPT ![w] = Dropped(@ - cost)]
    BY DEF m, w
  <2>2. Dropped(token_exp[m] - cost) = token_exp[m] - cost
        /\ Dropped(trader_exp[w] - cost) = trader_exp[w] - cost
    BY <1>2, <1>3, <1>9, <1>10 DEF Dropped
  <2> QED
    BY <1>2, <1>3, <1>10, <1>11, <2>1, <2>2 DEF TypeOK, TotalsMove
<1>13. -cost = (all - cost) - all /\ -cost \in Int /\ -cost <= 0
  BY <1>2, <1>3
<1>14. ExposureBacked'
  BY <1>9, <1>12, <1>13
<1>15. CapsHonoured'
  <2>1. hwm <= hwm' /\ overfill' = overfill + 0
    BY DEF TypeOK, Exit, marks
  <2> QED
    BY <1>12, <1>13, <2>1, CapsKept DEF MoneyInv
<1>16. PeakAboveEquity'
  BY DEF MoneyInv, PeakAboveEquity, marks
<1>17. Conservation'
  <2>1. /\ cash' = cash + proceeds /\ pnl_total' = pnl_total + proceeds - cost
        /\ harvested_total' = harvested_total
    OBVIOUS
  <2>2. cash \in Int /\ harvested_total \in Int /\ pnl_total \in Int /\ Capital \in Int
    BY LedgerAssumption DEF TypeOK
  <2> QED
    BY <1>3, <1>10, <1>11, <2>1, <2>2 DEF MoneyInv, Conservation
<1> QED
  BY <1>14, <1>15, <1>16, <1>17 DEF MoneyInv

\* Steps that leave reservations, positions and totals alone leave the
\* exposures backed.
LEMMA ExposureUnchanged ==
    ASSUME ExposureBacked, UNCHANGED <<reservation, row, deployed, exposure>>
    PROVE  ExposureBacked'
<1>1. /\ Committed' = Committed /\ Active' = Active
      /\ \A n : OfMint(n)' = OfMint(n) /\ OfWallet(n)' = OfWallet(n)
  BY DEF Committed, Active, Held, OpenRows, OfMint, OfWallet, Holder
<1> QED
  BY <1>1 DEF ExposureBacked, exposure

\* Expiry, marks, the daily reset, harvests and the reset of a flat book.
LEMMA OtherStepsMoney ==
    ASSUME IInv, IInv', MoneyInv,
           \/ \E r \in ResIds : Forget(r)
           \/ StartOrStop \/ Tick \/ NewDay \/ HarvestDecide \/ HarvestDebit \/ Reset
           \/ UNCHANGED vars
    PROVE  MoneyInv'
<1> USE DEF IInv, exposure
<1>1. /\ deployed \in Int /\ cash \in Int /\ pnl_total \in Int /\ harvested_total \in Nat
      /\ Capital \in Nat \ {0}
      /\ \A n \in Mints : token_exp[n] \in Int
      /\ \A n \in Wallets : trader_exp[n] \in Int
  BY LedgerAssumption DEF TypeOK
<1>2. ASSUME UNCHANGED <<deployed, exposure, overfill>>, hwm <= hwm' PROVE CapsHonoured'
  <2>1. TotalsMove(deployed, deployed, 0)
    BY <1>1, <1>2 DEF TotalsMove
  <2>2. overfill' = overfill + 0 /\ 0 <= 0
    BY <1>2 DEF TypeOK
  <2> QED
    BY <1>2, <2>1, <2>2, CapsKept DEF MoneyInv
<1>3. ASSUME UNCHANGED <<row, reservation, deployed, exposure, overfill, equity, hwm>>,
             NEW amount \in Int, cash' = cash - amount,
             harvested_total' = harvested_total + amount, pnl_total' = pnl_total
      PROVE  MoneyInv'
  <2>1. hwm <= hwm'
    BY <1>3 DEF TypeOK
  <2>2. PeakAboveEquity'
    BY <1>3 DEF MoneyInv, PeakAboveEquity
  <2>3. Conservation'
    BY <1>1, <1>3 DEF MoneyInv, Conservation
  <2> QED
    BY <1>2, <1>3, <2>1, <2>2, <2>3, ExposureUnchanged DEF MoneyInv
<1>4. CASE \/ StartOrStop \/ NewDay \/ HarvestDecide \/ UNCHANGED vars
  <2>1. /\ UNCHANGED <<row, reservation, deployed, exposure, overfill, equity, hwm>>
        /\ cash' = cash - 0 /\ harvested_total' = harvested_total + 0 /\ pnl_total' = pnl_total
    BY <1>1, <1>4 DEF StartOrStop, NewDay, ResetDaily, HarvestDecide, vars, ledgerVars,
                      protocolVars, marks, money
  <2> QED
    BY <1>3, <2>1
<1>5. ASSUME NEW r \in ResIds, Forget(r) PROVE MoneyInv'
  <2> USE DEF Forget, Expire, protocolVars, marks, money
  <2>1. Held' = Held /\ OpenRows' = OpenRows /\ r \notin Held
    BY <1>5 DEF TypeOK, Held, OpenRows, Gone
  <2>2. \A x \in ResIds \ {r} : reservation'[x] = reservation[x]
    BY <1>5 DEF TypeOK
  <2>3. /\ Committed' = Committed /\ Active' = Active
        /\ \A n : OfMint(n)' = OfMint(n) /\ OfWallet(n)' = OfWallet(n)
    <3>1. \A x \in ResIds : Holder(x)' = Holder(x)
      BY <1>5, <2>1, <2>2 DEF Holder
    <3>2. Active' = Active /\ Active \in SUBSET ResIds
      BY <2>1 DEF Active, Held, OpenRows
    <3>3. Committed' = Committed
      BY <1>5, <2>1, <2>2 DEF Committed
    <3> QED
      BY <3>1, <3>2, <3>3 DEF OfMint, OfWallet
  <2>4. ExposureBacked'
    BY <1>5, <2>3 DEF MoneyInv, ExposureBacked
  <2>5. PeakAboveEquity' /\ Conservation'
    BY <1>5 DEF MoneyInv, PeakAboveEquity, Conservation
  <2>6. CapsHonoured'
    BY <1>2, <1>5 DEF TypeOK
  <2> QED
    BY <2>4, <2>5, <2>6 DEF MoneyInv
<1>6. CASE Tick
  <2>1. PICK unreal \in Int : Mark(unreal)
    BY <1>6, LedgerAssumption DEF Tick
  <2> USE DEF Mark, money
  <2>2. UNCHANGED <<row, reservation, cash, deployed, exposure, overfill, pnl_total,
                    harvested_total>>
    BY <1>6, <2>1 DEF Tick, protocolVars
  <2>3. PeakAboveEquity' /\ hwm <= hwm'
    <3>1. hwm \in Int /\ 0 <= hwm
      BY DEF MoneyInv, PeakAboveEquity, TypeOK
    <3>2. cash + deployed + unreal \in Int
      BY <1>1, <2>1
    <3> QED
      BY <2>1, <3>1, <3>2 DEF PeakAboveEquity
  <2>4. Conservation'
    BY <2>2 DEF MoneyInv, Conservation
  <2> QED
    BY <1>2, <2>2, <2>3, <2>4, ExposureUnchanged DEF MoneyInv
<1>7. CASE HarvestDebit
  <2>1. harvest_due \in Nat
    BY DEF TypeOK
  <2> QED
    BY <1>1, <1>3, <1>7, <2>1 DEF HarvestDebit, AddHarvest, marks
<1>8. CASE Reset
  <2> USE <1>8 DEF Reset, ForceBootstrap
  <2>1. PeakAboveEquity' /\ Conservation'
    BY <1>1 DEF PeakAboveEquity, Conservation
  <2>2. /\ Active = {} /\ Active' = {}
        /\ \A n : OfMint(n) = {} /\ OfWallet(n) = {} /\ OfMint(n)' = {} /\ OfWallet(n)' = {}
    BY DEF Active, Held, OpenRows, OfMint, OfWallet
  <2>3. /\ \A n \in Mints : token_exp[n] = 0
        /\ \A n \in Wallets : trader_exp[n] = 0
    BY <2>2, SumEmpty DEF MoneyInv, ExposureBacked
  <2>4. ExposureBacked'
    BY <2>2, <2>3, SumEmpty DEF ExposureBacked
  <2>5. ASSUME NEW pct \in Nat PROVE 0 * 100 <= pct * Capital + 100 * 0
    <3>1. pct * Capital \in Nat
      BY <1>1
    <3> QED
      BY <3>1
  <2>6. CapsHonoured'
    BY <2>3, <2>5, LedgerAssumption DEF CapsHonoured
  <2> QED
    BY <2>1, <2>4, <2>6 DEF MoneyInv
<1> QED
  BY <1>4, <1>5, <1>6, <1>7, <1>8

\* Every step of the protocol keeps the money invariant.
LEMMA NextMoney == IInv /\ IInv' /\ MoneyInv /\ [Next]_vars => MoneyInv'
  BY EnterMoney, GiveUpMoney, FillMoney, ExitMoney, OtherStepsMoney DEF Next

-----------------------------------------------------------------------------
(* The book *)

\* A harvest debits an amount that was decided on.
HarvestDecided == harvest_due \in HarvestAmounts \cup {0}

\* What the ledger's totals are called in the book.
Totals == [cash |-> cash, deployed |-> deployed, token |-> token_exp, trader |-> trader_exp,
           positions |-> open_positions, pending |-> pending]

\* The sets and sums of the book are those of the reservations and the rows.
LEMMA BookReads ==
    ASSUME IInv
    PROVE  /\ BookOf!Holds = Held /\ BookOf!Positions = OpenRows /\ BookOf!Committed = Active
           /\ BookOf!Usd = Committed
           /\ \A m : {r \in Active : Entries[r].mint = m} = OfMint(m)
           /\ \A w : {r \in Active : Entries[r].wallet = w} = OfWallet(w)
<1>1. ASSUME NEW r \in ResIds
      PROVE  /\ r \in Held <=> Entries[r].state = "hold"
             /\ r \in OpenRows <=> Entries[r].state = "position"
             /\ Entries[r].usd = Committed[r]
             /\ r \in Active => Entries[r].mint = Holder(r).mint
                                /\ Entries[r].wallet = Holder(r).wallet
  <2>1. CASE r \in Held
    <3>1. reservation[r] \in Live /\ reservation[r].state = "held" /\ r \notin OpenRows
      BY <2>1, LiveWhenSettled DEF Held, IInv, RowsFollowCommit, OpenRows
    <3>2. Entries[r] = [reservation[r] EXCEPT !.state = "hold"]
      BY <3>1 DEF Entries
    <3> QED
      BY <2>1, <3>1, <3>2 DEF Live, Committed, Holder
  <2>2. CASE r \notin Held /\ r \in OpenRows
    BY <2>2 DEF Entries, Held, OpenRows, Committed, Holder
  <2>3. CASE r \notin Held /\ r \notin OpenRows
    <3>1. Entries[r] = [state |-> IF reservation[r] = Unborn THEN "free" ELSE "settled", usd |-> 0]
      BY <2>3 DEF Entries, Held, OpenRows
    <3>2. Committed[r] = 0
      BY <2>3 DEF Committed, OpenRows, NoRow
    <3> QED
      BY <2>3, <3>1, <3>2 DEF Active
  <2> QED
    BY <2>1, <2>2, <2>3
<1>2. BookOf!Holds = Held /\ BookOf!Positions = OpenRows /\ BookOf!Committed = Active
  BY <1>1 DEF BookOf!Holds, BookOf!Positions, BookOf!Committed, Held, OpenRows, Active
<1>3. BookOf!Usd = Committed
  BY <1>1 DEF BookOf!Usd, Committed
<1>4. Active \subseteq ResIds
  BY DEF Active, Held, OpenRows
<1>5. /\ \A m : {r \in Active : Entries[r].mint = m} = OfMint(m)
      /\ \A w : {r \in Active : Entries[r].wallet = w} = OfWallet(w)
  BY <1>1, <1>4 DEF OfMint, OfWallet
<1> QED
  BY <1>2, <1>3, <1>5

\* The book sums and counts as this module does.
LEMMA BookSums ==
    ASSUME NEW f, NEW S
    PROVE  /\ BookOf!SumFunctionOnSet(f, S) = SumFunctionOnSet(f, S)
           /\ BookOf!Cardinality(S) = Cardinality(S)
<1>1. BookOf!SumFunctionOnSet(f, S) = SumFunctionOnSet(f, S)
  BY DEF BookOf!SumFunctionOnSet, BookOf!FoldFunctionOnSet, BookOf!MapThenFoldSet,
         SumFunctionOnSet, FoldFunctionOnSet, MapThenFoldSet
<1>2. BookOf!Cardinality(S) = Cardinality(S)
  BY DEF BookOf!Cardinality, Cardinality, BookOf!IsFiniteSet, IsFiniteSet
<1> QED
  BY <1>1, <1>2

\* So the totals the scripts keep are the totals of the book.
LEMMA BookTotals ==
    ASSUME IInv, MoneyInv
    PROVE  /\ BookOf!AtWork = deployed /\ BookOf!Cash = cash
           /\ BookOf!Worth = cash + deployed
           /\ \A m \in Mints : BookOf!InToken(m) = token_exp[m]
           /\ \A w \in Wallets : BookOf!WithTrader(w) = trader_exp[w]
           /\ BookOf!Statement = Totals
<1>1. BookOf!AtWork = deployed
  BY BookReads, BookSums DEF BookOf!AtWork, BookOf!Total, MoneyInv, ExposureBacked
<1>2. BookOf!Worth = cash + deployed /\ BookOf!Cash = cash
  BY <1>1, LedgerAssumption
     DEF BookOf!Cash, BookOf!Worth, MoneyInv, Conservation, IInv, TypeOK
<1>3. /\ \A m \in Mints : BookOf!InToken(m) = token_exp[m]
      /\ \A w \in Wallets : BookOf!WithTrader(w) = trader_exp[w]
  <2>1. ASSUME NEW m \in Mints PROVE BookOf!InToken(m) = token_exp[m]
    <3>1. BookOf!InToken(m) = BookOf!SumFunctionOnSet(Committed, OfMint(m))
      BY BookReads DEF BookOf!InToken, BookOf!Total
    <3> QED
      BY <3>1, BookSums DEF MoneyInv, ExposureBacked
  <2>2. ASSUME NEW w \in Wallets PROVE BookOf!WithTrader(w) = trader_exp[w]
    <3>1. BookOf!WithTrader(w) = BookOf!SumFunctionOnSet(Committed, OfWallet(w))
      BY BookReads DEF BookOf!WithTrader, BookOf!Total
    <3> QED
      BY <3>1, BookSums DEF MoneyInv, ExposureBacked
  <2> QED
    BY <2>1, <2>2
<1>4. /\ BookOf!Cardinality(BookOf!Positions) = open_positions
      /\ BookOf!Cardinality(BookOf!Holds) = pending
  BY BookReads, BookSums DEF IInv, CountsBacked
<1>5. /\ token_exp = [m \in Mints |-> BookOf!InToken(m)]
      /\ trader_exp = [w \in Wallets |-> BookOf!WithTrader(w)]
  BY <1>3 DEF IInv, TypeOK
<1>6. BookOf!Statement = [cash |-> cash, deployed |-> deployed, token |-> token_exp,
                          trader |-> trader_exp, positions |-> open_positions,
                          pending |-> pending]
  BY <1>1, <1>2, <1>4, <1>5 DEF BookOf!Statement
<1> QED
  BY <1>1, <1>2, <1>3, <1>6 DEF Totals

\* A step that concerns one reservation changes one entry.
LEMMA OneEntryMoves ==
    ASSUME NEW r \in ResIds,
           \A x \in ResIds \ {r} : reservation'[x] = reservation[x] /\ row'[x] = row[x]
    PROVE  Entries' = [Entries EXCEPT ![r] = Entries'[r]]
<1>1. ASSUME NEW x \in ResIds \ {r} PROVE Entries'[x] = Entries[x]
  <2>1. reservation'[x] = reservation[x] /\ row'[x] = row[x] /\ x \in ResIds
    OBVIOUS
  <2> QED
    BY <2>1 DEF Entries
<1>2. Entries = [x \in ResIds |-> Entries[x]] /\ Entries' = [x \in ResIds |-> Entries'[x]]
  BY DEF Entries
<1> QED
  BY <1>1, <1>2

\* RESERVE grants what the book admits.
LEMMA EnterBook ==
    ASSUME IInv, IInv', MoneyInv, NEW r \in ResIds, Enter(r)
    PROVE  BookOf!Grant(r)
<1> PICK m \in Mints, w \in Wallets, size \in Sizes : Reserve(r, m, w, size)
  BY DEF Enter
<1>1. UNCHANGED <<pnl_total, realized_today, harvested_total, equity, hwm, EntriesOpen, row>>
  BY DEF Enter, Reserve, protocolVars, keyVars, marks, EntriesOpen
<1>2. EntriesOpen /\ BookOf!Calm
  BY DEF Reserve, BreakersClosed, BookOf!Calm
<1>3. Entries[r] = BookOf!Free
  <2>1. reservation[r] = Unborn /\ row[r] = NoRow
    BY DEF Reserve, Unborn, IInv, RowsFollowCommit
  <2> QED
    BY <2>1 DEF Entries, BookOf!Free, Unborn
<1>4. BookOf!Admits(m, w, size)
  <2>1. Cardinality(BookOf!Committed) < MaxOpenPositions
    <3>1. Held \cap OpenRows = {}
      BY DEF IInv, RowsFollowCommit, Held, OpenRows
    <3>2. Cardinality(Active) = Cardinality(Held) + Cardinality(OpenRows)
      BY <3>1, FiniteBook, FS_Union, FS_EmptySet DEF Active
    <3> QED
      BY <3>2, BookReads DEF Reserve, SlotsFree, IInv, CountsBacked
  <2>2. Cardinality(BookOf!Holds) < MaxPending
    BY BookReads DEF Reserve, SlotsFree, IInv, CountsBacked
  <2>3. BookOf!Cardinality(BookOf!Committed) < MaxOpenPositions
        /\ BookOf!Cardinality(BookOf!Holds) < MaxPending
    BY <2>1, <2>2, BookSums
  <2> QED
    BY <2>3, BookTotals DEF BookOf!Admits, Reserve, WithinCaps
<1>5. Entries' = [Entries EXCEPT ![r] = BookOf!Entry("hold", m, w, size)]
  <2>1. reservation' = [reservation EXCEPT ![r] =
                            [state |-> "held", mint |-> m, wallet |-> w, usd |-> size]]
    BY DEF Reserve
  <2>2. /\ reservation'[r] = [state |-> "held", mint |-> m, wallet |-> w, usd |-> size]
        /\ \A x \in ResIds \ {r} : reservation'[x] = reservation[x] /\ row'[x] = row[x]
    BY <1>1, <2>1 DEF IInv, TypeOK
  <2>3. Entries'[r] = BookOf!Entry("hold", m, w, size)
    BY <2>2 DEF Entries, BookOf!Entry
  <2> QED
    BY <2>2, <2>3, OneEntryMoves
<1> QED
  BY <1>1, <1>2, <1>3, <1>4, <1>5 DEF BookOf!Grant, BookOf!account, BookOf!marks

\* RELEASE withdraws a hold.
LEMMA GiveUpBook ==
    ASSUME IInv, NEW r \in ResIds, GiveUp(r)
    PROVE  BookOf!Withdraw(r)
<1>1. UNCHANGED <<pnl_total, realized_today, harvested_total, equity, hwm, EntriesOpen, row>>
  BY DEF GiveUp, Release, protocolVars, keyVars, marks, EntriesOpen
<1>2. r \in BookOf!Holds
  BY BookReads DEF GiveUp, Release, Held
<1>3. /\ reservation'[r] = Gone /\ row'[r] = NoRow
      /\ \A x \in ResIds \ {r} : reservation'[x] = reservation[x] /\ row'[x] = row[x]
  BY <1>1 DEF IInv, TypeOK, RowsFollowCommit, GiveUp, Release
<1>4. Entries'[r] = BookOf!Settled
  BY <1>3 DEF Entries, BookOf!Settled, Gone, Unborn
<1>5. Entries' = [Entries EXCEPT ![r] = BookOf!Settled]
  BY <1>3, <1>4, OneEntryMoves
<1> QED
  BY <1>1, <1>2, <1>5 DEF BookOf!Withdraw, BookOf!account, BookOf!marks

\* COMMIT turns a hold into a position.
LEMMA FillBook ==
    ASSUME IInv, NEW r \in ResIds, Fill(r)
    PROVE  BookOf!Fill(r)
<1> PICK actual \in Fills :
         /\ Commit(r, actual)
         /\ row' = [row EXCEPT ![r] = [mint |-> reservation[r].mint,
                                       wallet |-> reservation[r].wallet, cost |-> actual]]
  BY DEF Fill
<1>1. UNCHANGED <<pnl_total, realized_today, harvested_total, equity, hwm, EntriesOpen>>
  BY DEF Fill, Commit, keyVars, marks, EntriesOpen
<1>2. r \in BookOf!Holds /\ reservation[r] \in Live /\ reservation[r].state = "held"
  BY BookReads, LiveWhenSettled DEF Commit, Held, IInv
<1>3. /\ reservation'[r].state = "committed"
      /\ row'[r] = [mint |-> reservation[r].mint, wallet |-> reservation[r].wallet,
                    cost |-> actual]
      /\ \A x \in ResIds \ {r} : reservation'[x] = reservation[x] /\ row'[x] = row[x]
  BY <1>2 DEF IInv, TypeOK, Commit, Live
<1>4. row'[r] # NoRow
  <2>1. DOMAIN row'[r] = {"mint", "wallet", "cost"} /\ DOMAIN NoRow = {"cost"}
    BY <1>3 DEF NoRow
  <2> QED
    BY <2>1
<1>5. Entries'[r] = BookOf!Entry("position", reservation[r].mint, reservation[r].wallet, actual)
  BY <1>3, <1>4 DEF Entries, BookOf!Entry
<1>6. Entries[r].mint = reservation[r].mint /\ Entries[r].wallet = reservation[r].wallet
  BY <1>2 DEF Entries, Live
<1>7. Entries' = [Entries EXCEPT ![r] = BookOf!Entry("position", @.mint, @.wallet, actual)]
  <2>1. Entries' = [Entries EXCEPT ![r] = Entries'[r]]
    BY <1>3, OneEntryMoves
  <2>2. r \in DOMAIN Entries
    BY DEF Entries
  <2> QED
    BY <1>5, <1>6, <2>1, <2>2
<1> QED
  BY <1>1, <1>2, <1>7 DEF BookOf!Fill, BookOf!account, BookOf!marks

\* The expiry of a committed reservation's hash concerns nobody.
LEMMA ForgetBook ==
    ASSUME IInv, NEW r \in ResIds, Forget(r)
    PROVE  UNCHANGED BookOf!vars
<1>1. UNCHANGED <<pnl_total, realized_today, harvested_total, equity, hwm, EntriesOpen, row, cash,
                  deployed, token_exp, trader_exp, open_positions, pending>>
  BY DEF Forget, Expire, protocolVars, keyVars, marks, money, counters, exposure, EntriesOpen
<1>2. /\ reservation[r].state = "committed" /\ reservation'[r] = Gone
      /\ \A x \in ResIds \ {r} : reservation'[x] = reservation[x] /\ row'[x] = row[x]
  BY <1>1 DEF IInv, TypeOK, Forget, Expire
<1>3. Entries'[r] = Entries[r]
  BY <1>1, <1>2 DEF Entries, Gone, Unborn
<1>4. Entries' = Entries
  BY <1>2, <1>3, OneEntryMoves DEF Entries
<1> QED
  BY <1>1, <1>4 DEF BookOf!vars, BookOf!account, BookOf!marks

\* RELEASE_POSITION reduces a position, or settles it.
LEMMA ExitBook ==
    ASSUME IInv, NEW r \in ResIds, Exit(r)
    PROVE  BookOf!Reduce(r)
<1> PICK cost \in 1 .. row[r].cost, proceeds \in Proceeds :
         /\ ReleasePosition(row[r].mint, row[r].wallet, cost, proceeds - cost, proceeds,
                            cost = row[r].cost)
         /\ row' = IF cost = row[r].cost THEN [row EXCEPT ![r] = NoRow]
                   ELSE [row EXCEPT ![r].cost = @ - cost]
         /\ pnl_total' = pnl_total + proceeds - cost
  BY DEF Exit
<1>1. UNCHANGED <<harvested_total, equity, hwm, EntriesOpen, reservation>>
  BY DEF Exit, ReleasePosition, keyVars, marks, EntriesOpen
<1>2. r \in OpenRows /\ r \notin Held /\ reservation[r].state # "held" /\ reservation[r] # Unborn
  BY DEF Exit, OpenRows, Held, IInv, RowsFollowCommit, Unborn
<1>3. /\ row[r] \in OpenRow /\ row[r].cost \in Nat \ {0}
      /\ row[r].mint \in Mints /\ row[r].wallet \in Wallets
  BY <1>2, OpenWhenNotEmpty DEF IInv
<1>4. Entries[r] = [state |-> "position", mint |-> row[r].mint, wallet |-> row[r].wallet,
                    usd |-> row[r].cost]
  BY <1>2 DEF Entries, OpenRows
<1>5. realized_today' = realized_today + proceeds - cost
  BY <1>3, LedgerAssumption DEF ReleasePosition, IInv, TypeOK
<1>6. \A x \in ResIds \ {r} : reservation'[x] = reservation[x] /\ row'[x] = row[x]
  BY <1>1 DEF IInv, TypeOK
<1>7. Entries'[r] = IF cost = Entries[r].usd THEN BookOf!Settled
                    ELSE BookOf!Entry("position", Entries[r].mint, Entries[r].wallet,
                                      Entries[r].usd - cost)
  <2>1. CASE cost = row[r].cost
    <3>1. row'[r] = NoRow /\ reservation'[r] = reservation[r]
      BY <1>1, <2>1 DEF IInv, TypeOK
    <3>2. Entries'[r] = BookOf!Settled
      BY <1>2, <3>1 DEF Entries, BookOf!Settled
    <3> QED
      BY <1>4, <2>1, <3>2
  <2>2. CASE cost # row[r].cost
    <3>1. row'[r] = [row[r] EXCEPT !.cost = @ - cost] /\ reservation'[r] = reservation[r]
      BY <1>1, <2>2 DEF IInv, TypeOK
    <3>2. row'[r] = [mint |-> row[r].mint, wallet |-> row[r].wallet, cost |-> row[r].cost - cost]
      BY <1>3, <3>1 DEF OpenRow
    <3>3. row'[r] # NoRow
      <4>1. DOMAIN row'[r] = {"mint", "wallet", "cost"} /\ DOMAIN NoRow = {"cost"}
        BY <3>2 DEF NoRow
      <4> QED
        BY <4>1
    <3>4. Entries'[r] = [state |-> "position", mint |-> row[r].mint, wallet |-> row[r].wallet,
                         usd |-> row[r].cost - cost]
      BY <1>2, <3>1, <3>2, <3>3 DEF Entries
    <3> QED
      BY <1>4, <2>2, <3>4 DEF BookOf!Entry
  <2> QED
    BY <2>1, <2>2
<1>8. Entries' = [Entries EXCEPT ![r] =
                    IF cost = @.usd THEN BookOf!Settled
                    ELSE BookOf!Entry("position", @.mint, @.wallet, @.usd - cost)]
  BY <1>6, <1>7, OneEntryMoves
<1>9. cost \in 1 .. Entries[r].usd /\ r \in BookOf!Positions
  BY <1>2, <1>4, BookReads
<1> QED
  BY <1>1, <1>5, <1>8, <1>9 DEF BookOf!Reduce, BookOf!marks

\* What concerns no single entry: the controls, the marks, midnight, a harvest
\* and the reset of a flat book.
LEMMA OtherStepsBook ==
    ASSUME IInv, MoneyInv, HarvestDecided,
           StartOrStop \/ Tick \/ NewDay \/ HarvestDebit \/ Reset
    PROVE  BookOf!Switch \/ BookOf!Mark \/ BookOf!Midnight \/ BookOf!Harvest \/ BookOf!Restart
<1> USE DEF BookOf!account, BookOf!marks
<1>0. UNCHANGED <<reservation, row>> => UNCHANGED Entries
  BY DEF Entries
<1>1. CASE StartOrStop
  <2>1. UNCHANGED <<Entries, pnl_total, realized_today, harvested_total, equity, hwm>>
    BY <1>0, <1>1 DEF StartOrStop, ledgerVars, protocolVars
  <2>2. EntriesOpen' \in BOOLEAN
    BY DEF EntriesOpen
  <2> QED
    BY <2>1, <2>2 DEF BookOf!Switch
<1>2. CASE Tick
  <2> PICK unreal \in Unrealized : Mark(unreal)
    BY <1>2 DEF Tick
  <2>1. UNCHANGED <<Entries, pnl_total, realized_today, harvested_total, EntriesOpen>>
    BY <1>0, <1>2 DEF Tick, Mark, keyVars, protocolVars, EntriesOpen
  <2>2. equity' = BookOf!Worth + unreal
        /\ hwm' = IF BookOf!Worth + unreal > hwm THEN BookOf!Worth + unreal ELSE hwm
    BY BookTotals DEF Mark
  <2> QED
    BY <2>1, <2>2 DEF BookOf!Mark
<1>3. CASE NewDay
  BY <1>0, <1>3
     DEF NewDay, ResetDaily, keyVars, protocolVars, EntriesOpen, BookOf!Midnight, marks
<1>4. CASE HarvestDebit
  <2>1. harvest_due \in HarvestAmounts /\ harvested_total' = harvested_total + harvest_due
    BY <1>4 DEF HarvestDebit, HarvestDecided, AddHarvest
  <2>2. UNCHANGED <<Entries, pnl_total, realized_today, equity, hwm, EntriesOpen>>
    BY <1>0, <1>4 DEF HarvestDebit, AddHarvest, keyVars, EntriesOpen, marks
  <2> QED
    BY <2>1, <2>2 DEF BookOf!Harvest
<1>5. CASE Reset
  <2>1. BookOf!Committed = {}
    BY <1>5, BookReads DEF Reset, Active
  <2>2. UNCHANGED <<Entries, EntriesOpen>>
    BY <1>0, <1>5 DEF Reset, ForceBootstrap, keyVars, EntriesOpen
  <2> QED
    BY <1>5, <2>1, <2>2 DEF Reset, ForceBootstrap, BookOf!Restart
<1> QED
  BY <1>1, <1>2, <1>3, <1>4, <1>5

\* After a step, too.
LEMMA TotalsNext == (IInv /\ MoneyInv)' => (Totals = BookOf!Statement)'
<1>1. IInv /\ MoneyInv => Totals = BookOf!Statement
  BY BookTotals
<1> QED
  BY <1>1, PTL

\* Every step of the protocol is a step of the book, or none.
LEMMA NextBook ==
    ASSUME IInv, IInv', MoneyInv, MoneyInv', HarvestDecided, [Next]_vars
    PROVE  [BookOf!Next]_(BookOf!vars)
<1>1. Totals' = BookOf!Statement'
  BY TotalsNext
<1>2. ASSUME StartOrStop \/ Tick \/ NewDay \/ HarvestDebit \/ Reset PROVE BookOf!Next
  BY <1>1, <1>2, OtherStepsBook DEF BookOf!Next, Totals
<1>3. ASSUME NEW r \in ResIds, Enter(r) \/ GiveUp(r) \/ Fill(r) \/ Exit(r) PROVE BookOf!Next
  <2>1. BookOf!Grant(r) \/ BookOf!Withdraw(r) \/ BookOf!Fill(r) \/ BookOf!Reduce(r)
    BY <1>3, EnterBook, GiveUpBook, FillBook, ExitBook
  <2> QED
    BY <1>1, <2>1 DEF BookOf!Next, Totals
<1>4. ASSUME HarvestDecide \/ UNCHANGED vars PROVE UNCHANGED BookOf!vars
  BY <1>4 DEF HarvestDecide, vars, ledgerVars, keyVars, protocolVars, Entries, EntriesOpen,
              BookOf!vars, BookOf!account, BookOf!marks
<1> QED
  BY <1>2, <1>3, <1>4, ForgetBook DEF Next

\* An empty ledger is an empty book.
LEMMA InitBook == Init => BookOf!Init
<1> SUFFICES ASSUME Init PROVE BookOf!Init
  OBVIOUS
<1>1. Entries = [r \in ResIds |-> BookOf!Free]
  BY DEF Init, LedgerInit, Entries, BookOf!Free, Unborn
<1>2. BookOf!Statement = Totals
  BY InitIInv, InitMoney, BookTotals
<1> QED
  BY <1>1, <1>2 DEF Init, LedgerInit, Fresh, BookOf!Init, Totals, EntriesOpen

LEMMA HarvestsDecided == Spec => []HarvestDecided
<1>1. Init => HarvestDecided
  BY DEF Init, HarvestDecided
<1>2. HarvestDecided /\ [Next]_vars => HarvestDecided'
  <2> SUFFICES ASSUME HarvestDecided, [Next]_vars PROVE HarvestDecided'
    OBVIOUS
  <2> QED
    BY DEF HarvestDecided, Next, vars, protocolVars, StartOrStop, Tick, NewDay, HarvestDecide,
           HarvestDebit, Reset, Enter, GiveUp, Fill, Forget, Exit
<1> QED
  BY <1>1, <1>2, PTL DEF Spec

-----------------------------------------------------------------------------
\* The invariant holds of every behaviour of the ledger under its protocol.
THEOREM LedgerInvariant == Spec => []IInv
  BY InitIInv, NextIInv, PTL DEF Spec

\* The ledger's amounts are integers and its counters are never negative.
THEOREM LedgerTypeOK == Spec => []TypeOK
<1>1. IInv => TypeOK
  BY DEF IInv
<1> QED
  BY <1>1, LedgerInvariant, PTL

\* pending and open_positions count the holds and the open positions.
THEOREM CountersAreExact == Spec => []CountsBacked
<1>1. IInv => CountsBacked
  BY DEF IInv
<1> QED
  BY <1>1, LedgerInvariant, PTL

\* However many entries are decided concurrently, holds and positions never
\* exceed the configured limits.
THEOREM NoOverbooking == Spec => []NeverOverbooked
<1>1. IInv => NeverOverbooked
  BY DEF IInv
<1> QED
  BY <1>1, LedgerInvariant, PTL

\* The money invariant holds of every behaviour of the ledger under its protocol.
THEOREM MoneyInvariant == Spec => []MoneyInv
  BY LedgerInvariant, InitMoney, NextMoney, PTL DEF Spec

\* Cash, capital at work and harvests add up to the capital and the booked P&L.
THEOREM MoneyIsConserved == Spec => []Conservation
<1>1. MoneyInv => Conservation
  BY DEF MoneyInv
<1> QED
  BY <1>1, MoneyInvariant, PTL

\* The deployed total and every token's and trader's exposure are the sum of
\* what holds and open positions commit.
THEOREM EveryExposureIsBacked == Spec => []ExposureBacked
<1>1. MoneyInv => ExposureBacked
  BY DEF MoneyInv
<1> QED
  BY <1>1, MoneyInvariant, PTL

\* Between grants and fills no interleaving breaches a concentration ceiling by
\* more than the fills exceeded their reservations.
THEOREM CeilingsHold == Spec => []CapsHonoured
<1>1. MoneyInv => CapsHonoured
  BY DEF MoneyInv
<1> QED
  BY <1>1, MoneyInvariant, PTL

\* The ledger implements the book for any number of reservations, mints and
\* wallets and any limits: the running totals of its scripts are never anything
\* but sums over the entries, and nothing is granted that those sums forbid.
THEOREM LedgerIsABook == Spec => ImplementsBook
<1>1. Init => BookOf!Init
  BY InitBook
<1>2. IInv /\ IInv' /\ MoneyInv /\ MoneyInv' /\ HarvestDecided /\ [Next]_vars
        => [BookOf!Next]_(BookOf!vars)
  BY NextBook
<1> QED
  BY <1>1, <1>2, LedgerInvariant, MoneyInvariant, HarvestsDecided, PTL
     DEF Spec, ImplementsBook, BookOf!Spec

=============================================================================
