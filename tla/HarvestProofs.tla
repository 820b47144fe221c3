--------------------------- MODULE HarvestProofs ---------------------------
(***************************************************************************)
(* Harvesting with any number of callers, any fault bound, any P&L.        *)
(***************************************************************************)
EXTENDS Harvest, TLAPS

\* A call that has been paid for and not yet debited still has its amount in
\* hand: what it will book is already covered.
Covered ==
    \A x \in Harvesters :
        /\ unbooked[x] >= 0
        /\ h[x].pc = "paid" => unbooked[x] >= h[x].amount

\* Every equity a call holds, and every lock it is about to write, was reached.
Reached ==
    /\ TotalEquity <= peakEquity
    /\ 0 <= peakEquity
    /\ lock <= peakEquity
    /\ \A x \in Harvesters : h[x].total <= peakEquity /\ h[x].floor <= peakEquity

IInv == TypeOK /\ Covered /\ Reached

\* What only bounds a behaviour or records an overlap is well typed.
BoundsTyped ==
    /\ raced \subseteq {"harvest", "entry"} /\ swallowed \in Nat
    /\ calls \in Nat /\ faults \in Nat

\* What evaluate_harvest sends is a natural number.
LEMMA AmountType ==
    ASSUME NEW eq \in Int, NEW free \in Int, NEW base \in Int
    PROVE  Amount(eq, free, base) \in Nat
<1> DEFINE share   == ((eq - base) * TakePct) \div 100
           floored == IF eq - share < MinActive THEN Larger(0, eq - MinActive) ELSE share
           capped  == IF floored <= free THEN floored ELSE free
<1>0. TakePct \in Int /\ MinActive \in Int
  BY HarvestAssumption
<1>1. (eq - base) * TakePct \in Int
  BY <1>0
<1>2. share \in Int
  BY <1>1
<1> HIDE DEF share
<1>3. floored \in Int
  BY <1>0, <1>2 DEF Larger
<1> HIDE DEF floored
<1>4. capped \in Int
  BY <1>3
<1> HIDE DEF capped
<1>5. Amount(eq, free, base)
        = IF base > 0 /\ (eq - base) * 100 >= ThresholdPct * base /\ capped > 0
          THEN capped ELSE 0
  BY DEF Amount, capped, floored, share
<1> QED
  BY <1>4, <1>5

\* The ratcheted lock lies between the old lock and the equity.
LEMMA RaisedLockBounds ==
    ASSUME NEW current \in Int, NEW total \in Int, current < total
    PROVE  /\ RaisedLock(current, total) \in Int
           /\ current <= RaisedLock(current, total)
           /\ RaisedLock(current, total) <= total
  BY DEF RaisedLock

LEMMA IdleLocal == Idle \in Local
  BY DEF Idle, Local

\* An idle call holds nothing.
LEMMA IdleHolds == Idle.pc = "idle" /\ Idle.total = 0 /\ Idle.floor = 0 /\ Idle.amount = 0
  BY DEF Idle

LEMMA InitIInv == Init => IInv
<1> SUFFICES ASSUME Init PROVE IInv
  OBVIOUS
<1>1. TypeOK
  BY HarvestAssumption, IdleLocal DEF Init, TypeOK, NoBaseline
<1>2. Covered
  <2>1. ASSUME NEW x \in Harvesters PROVE unbooked[x] >= 0
    BY DEF Init
  <2>2. \A x \in Harvesters : h[x].pc # "paid"
    BY DEF Init, Idle
  <2> QED
    BY <2>1, <2>2 DEF Covered
<1>3. Reached
  BY HarvestAssumption, IdleHolds DEF Init, Reached, TotalEquity
<1> QED
  BY <1>1, <1>2, <1>3 DEF IInv

\* A call that returns, keeping what it has sent and debited, keeps the
\* invariant as far as its own state goes.
LEMMA ReturnKeeps ==
    ASSUME IInv, NEW x \in Harvesters, Return(x),
           UNCHANGED <<book, peaks>>, lock' = lock, baseline' \in Int,
           sends' \in Nat, BoundsTyped',
           unbooked' \in [Harvesters -> Int],
           \A y \in Harvesters : unbooked[y] <= unbooked'[y]
    PROVE  IInv'
<1> USE DEF IInv
<1>1. TypeOK'
  BY IdleLocal DEF TypeOK, Return, book, peaks, BoundsTyped
<1>2. Covered'
  <2>1. \A y \in Harvesters : /\ unbooked[y] \in Int /\ unbooked'[y] \in Int
                              /\ h[y].amount \in Nat /\ h'[y] \in {h[y], Idle}
    BY DEF TypeOK, Return, Local
  <2> QED
    BY <2>1, IdleHolds DEF Covered
<1>3. Reached'
  BY IdleHolds DEF TypeOK, Reached, Return, Local, TotalEquity, book, peaks
<1> QED
  BY <1>1, <1>2, <1>3

\* Landed only adds to what was sent.
LEMMA LandedAdds ==
    ASSUME TypeOK, NEW x \in Harvesters, Landed(x)
    PROVE  /\ unbooked' \in [Harvesters -> Int]
           /\ \A y \in Harvesters : unbooked[y] <= unbooked'[y]
           /\ unbooked'[x] = unbooked[x] + h[x].amount
           /\ sends' \in Nat
  BY DEF TypeOK, Landed, Local

\* Trading moves the book, and the peaks with it.
LEMMA TrackedKeeps ==
    ASSUME IInv, TrackPeaks, cash' \in Int, deployed' \in Nat, unrealized' \in Int,
           harvested' \in Nat, equity' \in Int
    PROVE  /\ peakEquity' \in Int /\ peakGross' \in Int
           /\ peakEquity <= peakEquity' /\ TotalEquity' <= peakEquity'
<1>1. peakEquity \in Int /\ peakGross \in Int
  BY DEF IInv, TypeOK
<1>2. TotalEquity' \in Int /\ Realised' \in Int
  BY DEF TotalEquity, Realised
<1>3. harvested' \in Int /\ Realised' + harvested' \in Int
  BY <1>2
<1>4. peakGross' \in Int
  BY <1>1, <1>3 DEF TrackPeaks
<1>5. peakEquity' \in Int /\ peakEquity <= peakEquity' /\ TotalEquity' <= peakEquity'
  BY <1>1, <1>2 DEF TrackPeaks
<1> QED
  BY <1>4, <1>5

LEMMA TradeIInv == IInv /\ Trade => IInv'
<1> SUFFICES ASSUME IInv, Trade PROVE IInv'
  OBVIOUS
<1>1. /\ cash' \in Int /\ deployed' \in Nat /\ unrealized' \in Int
      /\ harvested' \in Nat /\ equity' \in Int
      /\ TrackPeaks
      /\ UNCHANGED <<baseline, lock, h, payments>>
      /\ UNCHANGED <<swallowed, bounds>> /\ raced' \in {raced, raced \cup {"entry"}}
  BY HarvestAssumption DEF IInv, TypeOK, Trade, Enter, Close, Mark, Realised, bounds
<1>2. /\ peakEquity' \in Int /\ peakGross' \in Int
      /\ peakEquity <= peakEquity' /\ TotalEquity' <= peakEquity'
  BY <1>1, TrackedKeeps
<1>3. TypeOK'
  BY <1>1, <1>2 DEF IInv, TypeOK, payments, bounds
<1>4. Covered'
  BY <1>1 DEF IInv, Covered, payments
<1>5. Reached'
  BY <1>1, <1>2 DEF IInv, TypeOK, Reached, Local
<1> QED
  BY <1>3, <1>4, <1>5 DEF IInv

\* A step that only moves a call to another place, not to "paid".
LEMMA GotoKeeps ==
    ASSUME IInv, NEW x \in Harvesters,
           NEW pc \in {"nobase", "submitted", "debited", "rebased", "raise"}, Goto(x, pc),
           UNCHANGED <<book, lock, peaks, unbooked>>, baseline' \in Int,
           sends' \in Nat, BoundsTyped'
    PROVE  IInv'
<1> USE DEF IInv
<1>1. TypeOK'
  BY DEF TypeOK, Goto, Local, book, peaks, BoundsTyped
<1>2. Covered'
  BY DEF TypeOK, Covered, Goto, Local
<1>3. Reached'
  BY DEF TypeOK, Reached, Goto, Local, TotalEquity, book, peaks
<1> QED
  BY <1>1, <1>2, <1>3

LEMMA DecideKeeps ==
    ASSUME IInv, NEW x \in Harvesters, NEW base \in Int, Decide(x, base),
           UNCHANGED <<book, lock, payments, peaks>>, baseline' \in Int, BoundsTyped'
    PROVE  IInv'
<1> DEFINE amount == Amount(h[x].total - h[x].open, h[x].cash, base)
<1>0. h[x].total \in Int /\ h[x].open \in Int /\ h[x].cash \in Int
  BY DEF IInv, TypeOK, Local
<1>1. amount \in Nat
  <2>1. h[x].total - h[x].open \in Int
    BY <1>0
  <2> QED
    BY <1>0, <2>1, AmountType
<1>2. CASE Return(x)
  BY <1>2, ReturnKeeps DEF IInv, TypeOK, payments
<1>3. CASE h' = [h EXCEPT ![x] = [pc |-> "chosen", cash |-> 0, total |-> h[x].total,
                                 open |-> h[x].open, amount |-> amount, floor |-> 0]]
  <2> HIDE DEF amount
  <2>0. [pc |-> "chosen", cash |-> 0, total |-> h[x].total, open |-> h[x].open,
         amount |-> amount, floor |-> 0] \in Local
    BY <1>0, <1>1 DEF Local
  <2>1. TypeOK'
    BY <1>3, <2>0 DEF IInv, TypeOK, book, payments, peaks, BoundsTyped
  <2>2. Covered'
    BY <1>1, <1>3 DEF IInv, TypeOK, Covered, Local, Idle, payments
  <2>3. Reached'
    BY <1>1, <1>3 DEF IInv, TypeOK, Reached, Local, Idle, TotalEquity, book, peaks
  <2> QED
    BY <2>1, <2>2, <2>3 DEF IInv
<1> QED
  BY <1>2, <1>3 DEF Decide

\* No step of a call breaks the invariant.
LEMMA HarvestingIInv ==
    ASSUME IInv, NEW x \in Harvesters, Harvesting(x)
    PROVE  IInv'
<1> USE DEF ghosts, bounds
<1>0. /\ baseline \in Int /\ sends \in Nat /\ unbooked \in [Harvesters -> Int]
      /\ \A y \in Harvesters : unbooked[y] <= unbooked[y]
      /\ UNCHANGED <<raced, swallowed, bounds>> => BoundsTyped'
  <2>1. baseline \in Int /\ sends \in Nat /\ unbooked \in [Harvesters -> Int]
    BY DEF IInv, TypeOK
  <2>2. \A y \in Harvesters : unbooked[y] <= unbooked[y]
    BY <2>1
  <2>3. UNCHANGED <<raced, swallowed, bounds>> => BoundsTyped'
    BY DEF IInv, TypeOK, BoundsTyped
  <2> QED
    BY <2>1, <2>2, <2>3
<1>1. CASE Snapshot(x)
  <2>0. [pc |-> "snapped", cash |-> cash, total |-> TotalEquity, open |-> unrealized,
         amount |-> 0, floor |-> 0] \in Local
    BY DEF IInv, TypeOK, Local, TotalEquity
  <2>1. TypeOK'
    BY <1>1, <2>0 DEF IInv, TypeOK, Snapshot, book, payments, peaks
  <2>2. Covered'
    BY <1>1 DEF IInv, TypeOK, Covered, Snapshot, Local, Idle, payments
  <2>3. Reached'
    BY <1>1 DEF IInv, TypeOK, Reached, Snapshot, Local, Idle, TotalEquity, book, peaks
  <2> QED
    BY <2>1, <2>2, <2>3 DEF IInv
<1>2. CASE ReadBaseline(x)
  BY <1>0, <1>2, GotoKeeps, DecideKeeps DEF ReadBaseline, payments
<1>3. CASE InitBaseline(x)
  <2>1. Capital \in Int /\ baseline' \in Int
    BY <1>3, HarvestAssumption DEF InitBaseline
  <2> QED
    BY <1>0, <1>3, <2>1, DecideKeeps DEF InitBaseline
<1>4. CASE SimulateTransfer(x) \/ ConfirmTransfer(x)
  <2>1. /\ Landed(x) /\ Goto(x, "paid")
        /\ UNCHANGED <<book, baseline, lock, peaks, raced, swallowed, bounds>>
        /\ h[x].pc # "paid"
    BY <1>4 DEF SimulateTransfer, ConfirmTransfer
  <2>2. TypeOK'
    BY <2>1, LandedAdds DEF IInv, TypeOK, Goto, Local, book, peaks
  <2>3. Covered'
    BY <2>1, LandedAdds DEF IInv, TypeOK, Covered, Goto, Local
  <2>4. Reached'
    BY <2>1 DEF IInv, TypeOK, Reached, Goto, Local, TotalEquity, book, peaks
  <2> QED
    BY <2>2, <2>3, <2>4 DEF IInv
<1>5. CASE RefuseTransfer(x) \/ OnChainError(x)
  BY <1>0, <1>5, ReturnKeeps DEF RefuseTransfer, OnChainError, payments
<1>6. CASE SendSol(x)
  BY <1>0, <1>6, GotoKeeps DEF SendSol, payments
<1>7. CASE ConfirmationTimeout(x)
  <2>1. unbooked' \in [Harvesters -> Int] /\ sends' \in Nat
        /\ \A y \in Harvesters : unbooked[y] <= unbooked'[y]
    BY <1>7, LandedAdds DEF ConfirmationTimeout, IInv, TypeOK, payments
  <2> QED
    <3>1. BoundsTyped'
      BY <1>7 DEF ConfirmationTimeout, IInv, TypeOK, BoundsTyped
    <3> QED
      BY <1>0, <1>7, <2>1, <3>1, ReturnKeeps DEF ConfirmationTimeout
<1>8. CASE Debit(x)
  <2>1. h[x].amount \in Nat
    BY DEF IInv, TypeOK, Local
  <2>2. /\ cash' \in Int /\ deployed' \in Nat /\ unrealized' \in Int
        /\ harvested' \in Nat /\ equity' \in Int
    BY <1>8, <2>1 DEF IInv, TypeOK, Debit
  <2>3. /\ peakEquity' \in Int /\ peakGross' \in Int
        /\ peakEquity <= peakEquity' /\ TotalEquity' <= peakEquity'
    BY <1>8, <2>2, TrackedKeeps DEF Debit
  <2>4. TypeOK'
    BY <1>8, <2>1, <2>2, <2>3 DEF IInv, TypeOK, Debit, Goto, Local
  <2>5. Covered'
    BY <1>8, <2>1 DEF IInv, TypeOK, Covered, Debit, Goto, Local
  <2>6. Reached'
    BY <1>8, <2>3 DEF IInv, TypeOK, Reached, Debit, Goto, Local
  <2> QED
    BY <2>4, <2>5, <2>6 DEF IInv
<1>9. CASE SetBaseline(x)
  <2>1. baseline' \in Int /\ sends' \in Nat
    BY <1>9 DEF SetBaseline, IInv, TypeOK, Local
  <2>2. BoundsTyped'
    BY <1>9 DEF SetBaseline, IInv, TypeOK, Local, Larger, BoundsTyped
  <2> QED
    BY <1>0, <1>9, <2>1, <2>2, GotoKeeps DEF SetBaseline
<1>10. CASE Weigh(x)
  <2>0. [pc |-> "weighed", cash |-> 0, total |-> TotalEquity, open |-> 0, amount |-> 0,
         floor |-> 0] \in Local
    BY DEF IInv, TypeOK, Local, TotalEquity
  <2>1. TypeOK'
    BY <1>10, <2>0 DEF IInv, TypeOK, Weigh, book, payments, peaks
  <2>2. Covered'
    BY <1>10 DEF IInv, TypeOK, Covered, Weigh, Local, Idle, payments
  <2>3. Reached'
    BY <1>10 DEF IInv, TypeOK, Reached, Weigh, Local, Idle, TotalEquity, book, peaks
  <2> QED
    BY <2>1, <2>2, <2>3 DEF IInv
<1>11. CASE ReadLock(x)
  <2>1. CASE Return(x)
    BY <1>0, <1>11, <2>1, ReturnKeeps DEF ReadLock, payments
  <2>2. CASE h[x].total > lock
    <3> DEFINE floor == RaisedLock(lock, h[x].total)
    <3>1. floor \in Int /\ floor <= h[x].total
      BY <2>2, RaisedLockBounds DEF IInv, TypeOK, Local
    <3>2. h' = [h EXCEPT ![x] = [pc |-> "raising", cash |-> 0, total |-> 0, open |-> 0,
                                  amount |-> 0, floor |-> floor]]
      BY <1>11, <2>2 DEF ReadLock
    <3>3. UNCHANGED <<book, baseline, lock, ghosts, bounds>>
      BY <1>11 DEF ReadLock
    <3> HIDE DEF floor
    <3>0. [pc |-> "raising", cash |-> 0, total |-> 0, open |-> 0, amount |-> 0,
           floor |-> floor] \in Local
      BY <3>1 DEF Local
    <3>4. TypeOK'
      BY <3>0, <3>2, <3>3 DEF IInv, TypeOK, book, payments, peaks
    <3>5. Covered'
      BY <3>2, <3>3 DEF IInv, TypeOK, Covered, Local, Idle, payments
    <3>6. Reached'
      BY <3>1, <3>2, <3>3 DEF IInv, TypeOK, Reached, Local, Idle, TotalEquity, book, peaks
    <3> QED
      BY <3>4, <3>5, <3>6 DEF IInv
  <2> QED
    BY <1>11, <2>1, <2>2 DEF ReadLock
<1>12. CASE CheckLock(x)
  BY <1>0, <1>12, GotoKeeps, ReturnKeeps DEF CheckLock, payments
<1>13. CASE WriteLock(x)
  <2>1. TypeOK'
    BY <1>13, IdleLocal DEF IInv, TypeOK, WriteLock, Return, Local, book, payments, peaks
  <2>2. Covered'
    BY <1>13, IdleHolds DEF IInv, TypeOK, Covered, WriteLock, Return, Local, payments
  <2>3. Reached'
    BY <1>13, IdleHolds DEF IInv, TypeOK, Reached, WriteLock, Return, Local, TotalEquity,
                            book, peaks
  <2> QED
    BY <2>1, <2>2, <2>3 DEF IInv
<1>14. CASE Crash(x)
  <2>1. BoundsTyped'
    BY <1>14 DEF Crash, IInv, TypeOK, BoundsTyped
  <2> QED
    BY <1>0, <1>14, <2>1, ReturnKeeps DEF Crash, payments
<1> QED
  BY <1>1, <1>2, <1>3, <1>4, <1>5, <1>6, <1>7, <1>8, <1>9, <1>10, <1>11, <1>12, <1>13, <1>14
     DEF Harvesting

LEMMA NextIInv == IInv /\ [Next]_vars => IInv'
<1> SUFFICES ASSUME IInv, [Next]_vars PROVE IInv'
  OBVIOUS
<1>1. CASE UNCHANGED vars
  BY <1>1 DEF vars, IInv, TypeOK, Covered, Reached, TotalEquity, book, payments, peaks,
                 ghosts, bounds
<1>2. CASE Trade
  BY <1>2, TradeIInv
<1>3. CASE \E x \in Harvesters : Harvesting(x)
  BY <1>3, HarvestingIInv
<1> QED
  BY <1>1, <1>2, <1>3 DEF Next

\* The invariant holds of every behaviour, for any number of harvesters.
THEOREM HarvestInvariant == Spec => []IInv
  BY InitIInv, NextIInv, PTL DEF Spec

\* The book, the keys and the calls in progress keep their types.
THEOREM HarvestTypeOK == Spec => []TypeOK
<1>1. IInv => TypeOK
  BY DEF IInv
<1> QED
  BY <1>1, HarvestInvariant, PTL

\* No harvester books more than its transfers moved to the treasury, through
\* refusals, on-chain errors, lost confirmations and crashes.
THEOREM NothingCountedUnsent == Spec => []CountedOnlyIfSent
<1>1. IInv => CountedOnlyIfSent
  BY DEF IInv, TypeOK, Covered, CountedOnlyIfSent, Local
<1> QED
  BY <1>1, HarvestInvariant, PTL

\* The profit lock never exceeds the highest equity reached, even when
\* concurrent ratchets overwrite each other.
THEOREM LockWasReached == Spec => []LockBelowPeak
<1>1. IInv => LockBelowPeak
  BY DEF IInv, Reached, LockBelowPeak
<1> QED
  BY <1>1, HarvestInvariant, PTL

-----------------------------------------------------------------------------
(* One call at a time: no second harvester beside the first                *)

Sole == "harvest" \notin raced

\* Then one call at most is under way.  Of the transfers made since the
\* baseline moved, all but as many as there were faults are that call's, which
\* is about to move it.
OneAtATime == \A x, y \in Harvesters : h[x].pc # "idle" /\ h[y].pc # "idle" => x = y

SendsFollow ==
    /\ sends <= 1 + faults
    /\ sends > faults => \E x \in Harvesters : h[x].pc \in {"paid", "debited"}

SingleInv == Sole => OneAtATime /\ SendsFollow

\* Nothing failed either: no crash, no lost confirmation.
Undisturbed == Sole /\ faults = 0

\* What was disturbed stays so.
LEMMA DisturbedStays ==
    ASSUME IInv, [Next]_vars
    PROVE  (Sole' => Sole) /\ (Undisturbed' => Undisturbed)
<1> USE DEF Sole, Undisturbed
<1>1. faults \in Nat
  BY DEF IInv, TypeOK
<1>2. CASE UNCHANGED vars
  BY <1>2 DEF vars, ghosts, bounds
<1>3. CASE Trade
  BY <1>3 DEF Trade, Enter, Close, Mark, bounds
<1>4. ASSUME NEW x \in Harvesters, Harvesting(x)
      PROVE  (Sole' => Sole) /\ (Undisturbed' => Undisturbed)
  BY <1>1, <1>4
     DEF Harvesting, Snapshot, ReadBaseline, InitBaseline, SimulateTransfer, RefuseTransfer,
         SendSol, ConfirmTransfer, OnChainError, ConfirmationTimeout, Debit, SetBaseline,
         Weigh, ReadLock, CheckLock, WriteLock, Crash, ghosts, bounds
<1> QED
  BY <1>2, <1>3, <1>4 DEF Next

\* The other calls are idle and stay so while a sole call steps.
LEMMA Alone ==
    ASSUME IInv, SingleInv, NEW x \in Harvesters, Harvesting(x), Sole, Sole'
    PROVE  /\ OneAtATime /\ SendsFollow
           /\ \A y \in Harvesters \ {x} : h[y].pc = "idle" /\ h'[y] = h[y]
<1>1. OneAtATime /\ SendsFollow
  BY DEF SingleInv
<1>2. h \in [Harvesters -> Local]
  BY DEF IInv, TypeOK
<1>3. ASSUME NEW y \in Harvesters \ {x} PROVE h'[y] = h[y]
  BY <1>2
     DEF Harvesting, Snapshot, ReadBaseline, InitBaseline, SimulateTransfer, RefuseTransfer,
         SendSol, ConfirmTransfer, OnChainError, ConfirmationTimeout, Debit, SetBaseline,
         Weigh, ReadLock, CheckLock, WriteLock, Crash, Decide, Goto, Return
<1>4. ASSUME NEW y \in Harvesters \ {x} PROVE h[y].pc = "idle"
  <2>1. CASE Snapshot(x)
    BY <2>1 DEF Snapshot, Sole
  <2>2. CASE h[x].pc # "idle"
    BY <1>1, <2>2 DEF OneAtATime
  <2> QED
    BY <2>1, <2>2
       DEF Harvesting, ReadBaseline, InitBaseline, SimulateTransfer, RefuseTransfer,
           SendSol, ConfirmTransfer, OnChainError, ConfirmationTimeout, Debit, SetBaseline,
           Weigh, ReadLock, CheckLock, WriteLock, Crash
<1> QED
  BY <1>1, <1>3, <1>4

\* A transfer or a fault at a time: no step of a sole call breaks the count.
LEMMA HarvestingSingle ==
    ASSUME IInv, SingleInv, NEW x \in Harvesters, Harvesting(x), Sole, Sole'
    PROVE  OneAtATime' /\ SendsFollow'
<1>1. /\ OneAtATime /\ SendsFollow
      /\ \A y \in Harvesters \ {x} : h[y].pc = "idle" /\ h'[y] = h[y]
  BY Alone
<1>2. OneAtATime'
  BY <1>1 DEF OneAtATime
<1>3. h \in [Harvesters -> Local] /\ sends \in Nat /\ faults \in Nat
  BY DEF IInv, TypeOK
<1>4. sends <= 1 + faults /\ (sends > faults => h[x].pc \in {"paid", "debited"})
  BY <1>1 DEF SendsFollow
<1> SUFFICES /\ sends' <= 1 + faults'
             /\ sends' > faults' => h'[x].pc \in {"paid", "debited"}
  BY <1>2 DEF SendsFollow
<1>5. CASE SimulateTransfer(x) \/ ConfirmTransfer(x)
  <2>1. /\ h[x].pc \in {"chosen", "submitted"} /\ Goto(x, "paid")
        /\ sends' = sends + 1 /\ faults' = faults
    BY <1>5 DEF SimulateTransfer, ConfirmTransfer, Landed, bounds
  <2>2. sends <= faults /\ h'[x].pc = "paid"
    BY <1>3, <1>4, <2>1 DEF Goto, Local
  <2> QED
    BY <1>3, <2>1, <2>2
<1>6. CASE Debit(x)
  BY <1>3, <1>4, <1>6 DEF Debit, Goto, bounds
<1>7. CASE SetBaseline(x)
  BY <1>3, <1>7 DEF SetBaseline, bounds
<1>8. CASE ConfirmationTimeout(x)
  <2>1. h[x].pc = "submitted" /\ sends' \in {sends, sends + 1} /\ faults' = faults + 1
    BY <1>8 DEF ConfirmationTimeout, Landed, payments
  <2> QED
    BY <1>3, <1>4, <2>1
<1>9. CASE Crash(x)
  <2>1. sends' = sends /\ faults' = faults + 1
    BY <1>9 DEF Crash, ghosts, payments
  <2> QED
    BY <1>3, <1>4, <2>1
<1>10. CASE \/ Snapshot(x) \/ ReadBaseline(x) \/ InitBaseline(x) \/ RefuseTransfer(x)
            \/ SendSol(x) \/ OnChainError(x)
            \/ Weigh(x) \/ ReadLock(x) \/ CheckLock(x) \/ WriteLock(x)
  <2>1. h[x].pc \notin {"paid", "debited"} /\ sends' = sends /\ faults' = faults
    BY <1>10 DEF Snapshot, ReadBaseline, InitBaseline, RefuseTransfer, SendSol, OnChainError,
                 Weigh, ReadLock, CheckLock, WriteLock, ghosts, payments, bounds
  <2> QED
    BY <1>3, <1>4, <2>1
<1> QED
  BY <1>5, <1>6, <1>7, <1>8, <1>9, <1>10 DEF Harvesting

\* No step breaks what a sole call can rely on.
LEMMA NextSingle == IInv /\ SingleInv /\ [Next]_vars => SingleInv'
<1> SUFFICES ASSUME IInv, SingleInv, [Next]_vars, Sole'
             PROVE  OneAtATime' /\ SendsFollow'
  BY DEF SingleInv
<1>1. Sole
  BY DisturbedStays
<1>2. CASE UNCHANGED vars \/ Trade
  BY <1>1, <1>2 DEF vars, ghosts, payments, bounds, Trade, Enter, Close, Mark, SingleInv,
                    OneAtATime, SendsFollow
<1>3. CASE \E x \in Harvesters : Harvesting(x)
  BY <1>1, <1>3, HarvestingSingle
<1> QED
  BY <1>2, <1>3 DEF Next

\* At the start no call is under way and nothing has been sent.
LEMMA InitSingle == Init => SingleInv
  BY IdleHolds DEF Init, SingleInv, OneAtATime, SendsFollow

\* Before the baseline moves a sole caller makes at most one transfer more than
\* there were crashes and lost confirmations, of any number.
THEOREM HarvestsOncePerBaseline == Spec => []OncePerBaseline
<1>1. IInv /\ SingleInv => OncePerBaseline
  BY DEF SingleInv, Sole, SendsFollow, OncePerBaseline
<1> QED
  BY <1>1, HarvestInvariant, InitSingle, NextSingle, PTL DEF Spec

-----------------------------------------------------------------------------
(* How much is taken in all *)

\* The configured share of v, in hundredths.
Share(v) == TakePct * v

\* The baseline a call will see.
Base == IF baseline = NoBaseline THEN Capital ELSE baseline

\* What profit is counted from, once harvests have lowered the baseline below it.
Ground == Capital - swallowed

\* What a call under way will have taken in all stays within the share of the
\* highest profit realised, and of what lies above the ground once it has
\* moved the baseline.
WithinShare(x) ==
    /\ h[x].pc \in {"snapped", "nobase"} =>
          h[x].total - h[x].open + harvested <= peakGross
    /\ h[x].pc = "nobase" => baseline = NoBaseline
    /\ h[x].pc \in {"chosen", "submitted", "paid"} =>
          /\ (harvested + h[x].amount) * 100 <= Share(peakGross - Ground)
          /\ (harvested + h[x].amount) * 100
               <= Share(h[x].total - h[x].open + harvested - Ground)
    /\ h[x].pc = "debited" =>
          harvested * 100 <= Share(h[x].total - h[x].open - h[x].amount + harvested - Ground)

\* What has been taken in all is within the share of what the baseline, with
\* the harvests added back, stands above the ground.
BelowBaseline ==
    (\A x \in Harvesters : h[x].pc # "debited") =>
        harvested * 100 <= Share(Base + harvested - Ground)

ShareInv ==
    /\ Realised + harvested <= peakGross
    /\ Undisturbed =>
          /\ harvested * 100 <= Share(peakGross - Ground)
          /\ \A x \in Harvesters : WithinShare(x)
          /\ BelowBaseline

\* A share grows with what it is taken of, and is additive.
LEMMA ShareGrows ==
    ASSUME NEW a \in Int, NEW b \in Int
    PROVE  /\ Share(a) \in Int
           /\ Share(a + b) = Share(a) + Share(b)
           /\ a <= b => Share(a) <= Share(b)
<1>1. TakePct \in Nat
  BY HarvestAssumption
<1>2. TakePct * a \in Int /\ TakePct * (a + b) = TakePct * a + TakePct * b
  BY <1>1
<1>3. ASSUME a <= b PROVE TakePct * a <= TakePct * b
  <2>1. PICK k \in Nat : b = a + k
    <3>1. b - a \in Nat /\ b = a + (b - a)
      BY <1>3
    <3> QED
      BY <3>1
  <2>2. TakePct * k \in Nat /\ TakePct * (a + k) = TakePct * a + TakePct * k
    BY <1>1
  <2>3. TakePct * a \in Int
    BY <1>1
  <2> QED
    BY <2>1, <2>2, <2>3
<1> QED
  BY <1>2, <1>3 DEF Share

\* What evaluate_harvest sends is at most the share of the profit above the
\* baseline: the active-capital floor and the cash only lower it.
LEMMA AmountWithinShare ==
    ASSUME NEW eq \in Int, NEW free \in Int, NEW base \in Int, Amount(eq, free, base) # 0
    PROVE  Amount(eq, free, base) * 100 <= Share(eq - base)
<1> DEFINE whole   == (eq - base) * TakePct
           share   == whole \div 100
           floored == IF eq - share < MinActive THEN Larger(0, eq - MinActive) ELSE share
           capped  == IF floored <= free THEN floored ELSE free
<1>1. TakePct \in Int /\ MinActive \in Int
  BY HarvestAssumption
<1>2. whole \in Int /\ whole = Share(eq - base)
  <2>1. eq - base \in Int
    OBVIOUS
  <2>2. (eq - base) * TakePct = TakePct * (eq - base)
    BY <1>1, <2>1
  <2>3. (eq - base) * TakePct \in Int
    BY <1>1, <2>1
  <2> QED
    BY <2>2, <2>3 DEF Share
<1> HIDE DEF whole
<1>3. share \in Int /\ share * 100 <= whole
  BY <1>2
<1> HIDE DEF share
<1>4. floored \in Int /\ (floored > 0 => floored <= share)
  BY <1>1, <1>3 DEF Larger
<1> HIDE DEF floored
<1>5. capped \in Int /\ (capped > 0 => capped <= share)
  BY <1>3, <1>4
<1> HIDE DEF capped
<1>6. Amount(eq, free, base)
        = IF base > 0 /\ (eq - base) * 100 >= ThresholdPct * base /\ capped > 0
          THEN capped ELSE 0
  BY DEF Amount, capped, floored, share, whole
<1>7. Amount(eq, free, base) = capped /\ capped > 0
  BY <1>6
<1> QED
  BY <1>2, <1>3, <1>5, <1>7

\* The highest gross follows the book.
LEMMA GrossTracked ==
    ASSUME TrackPeaks, peakGross \in Int,
           cash' \in Int, deployed' \in Int, harvested' \in Int
    PROVE  peakGross <= peakGross' /\ Realised' + harvested' <= peakGross'
<1>1. Realised' + harvested' \in Int
  BY DEF Realised
<1> QED
  BY <1>1 DEF TrackPeaks

\* A decision stays within the share.
LEMMA DecideShares ==
    ASSUME IInv, NEW x \in Harvesters, NEW base \in Int, Decide(x, base),
           h[x].total - h[x].open + harvested <= peakGross,
           harvested * 100 <= Share(base + harvested - Ground)
    PROVE  \/ h'[x].pc = "idle"
           \/ /\ h'[x].pc = "chosen"
              /\ (harvested + h'[x].amount) * 100 <= Share(peakGross - Ground)
              /\ (harvested + h'[x].amount) * 100
                   <= Share(h'[x].total - h'[x].open + harvested - Ground)
<1> DEFINE eq == h[x].total - h[x].open
           amount == Amount(eq, h[x].cash, base)
<1>1. /\ h[x].total \in Int /\ h[x].open \in Int /\ h[x].cash \in Int /\ eq \in Int
      /\ harvested \in Nat /\ peakGross \in Int /\ Ground \in Int
      /\ h \in [Harvesters -> Local]
  BY HarvestAssumption DEF IInv, TypeOK, Local, Ground
<1>2. CASE amount = 0
  BY <1>1, <1>2, IdleHolds DEF Decide, Return
<1>3. CASE amount # 0
  <2>1. h' = [h EXCEPT ![x] = [pc |-> "chosen", cash |-> 0, total |-> h[x].total,
                               open |-> h[x].open, amount |-> amount, floor |-> 0]]
    BY <1>3 DEF Decide
  <2>2. /\ h'[x].pc = "chosen" /\ h'[x].amount = amount
        /\ h'[x].total - h'[x].open = eq
    BY <1>1, <2>1
  <2>3. amount \in Nat /\ amount * 100 <= Share(eq - base)
    BY <1>1, <1>3, AmountType, AmountWithinShare
  <2>4. eq + harvested <= peakGross
    BY <1>1
  <2> HIDE DEF eq, amount
  <2>5. Share(eq + harvested - Ground)
          = Share(base + harvested - Ground) + Share(eq - base)
    <3>1. (base + harvested - Ground) + (eq - base) = eq + harvested - Ground
      BY <1>1
    <3>2. base + harvested - Ground \in Int /\ eq - base \in Int
      BY <1>1
    <3>3. Share((base + harvested - Ground) + (eq - base))
            = Share(base + harvested - Ground) + Share(eq - base)
      BY <3>2, ShareGrows
    <3> QED
      BY <3>1, <3>3
  <2>6. Share(eq + harvested - Ground) <= Share(peakGross - Ground)
    <3>1. /\ eq + harvested - Ground \in Int /\ peakGross - Ground \in Int
          /\ eq + harvested - Ground <= peakGross - Ground
      BY <1>1, <2>4
    <3> QED
      BY <3>1, ShareGrows
  <2>7. /\ Share(eq + harvested - Ground) \in Int
        /\ Share(base + harvested - Ground) \in Int /\ Share(eq - base) \in Int
        /\ Share(peakGross - Ground) \in Int
    <3>1. /\ eq + harvested - Ground \in Int /\ base + harvested - Ground \in Int
          /\ eq - base \in Int /\ peakGross - Ground \in Int
      BY <1>1
    <3> QED
      BY <3>1, ShareGrows
  <2>8. (harvested + amount) * 100 <= Share(eq + harvested - Ground)
    BY <1>1, <2>3, <2>5, <2>7
  <2>9. /\ (harvested + amount) * 100 <= Share(peakGross - Ground)
        /\ (harvested + amount) * 100 <= Share(eq + harvested - Ground)
    BY <1>1, <2>3, <2>6, <2>7, <2>8
  <2> QED
    BY <2>2, <2>9
<1> QED
  BY <1>2, <1>3

\* Trading only raises the highest gross.
LEMMA TradeShares ==
    ASSUME IInv, IInv', ShareInv, Trade PROVE ShareInv'
<1>1. /\ TrackPeaks /\ UNCHANGED <<harvested, baseline, h, faults, swallowed>>
      /\ raced \subseteq raced'
      /\ cash' \in Int /\ deployed' \in Int /\ harvested' \in Int /\ peakGross \in Int
  BY DEF IInv, TypeOK, ShareInv, Trade, Enter, Close, Mark, bounds
<1>2. peakGross' \in Int /\ peakGross <= peakGross' /\ Realised' + harvested' <= peakGross'
  BY <1>1, GrossTracked DEF IInv, TypeOK
<1> SUFFICES ASSUME Undisturbed'
             PROVE  /\ harvested' * 100 <= Share(peakGross' - Ground')
                    /\ \A x \in Harvesters : WithinShare(x)'
                    /\ BelowBaseline'
  BY <1>1, <1>2 DEF ShareInv
<1>3. Undisturbed
  BY <1>1 DEF Undisturbed, Sole
<1>4. Ground' = Ground /\ Ground \in Int
  BY <1>1, HarvestAssumption DEF Ground, IInv, TypeOK
<1>5. /\ Share(peakGross - Ground) \in Int /\ Share(peakGross' - Ground') \in Int
      /\ Share(peakGross - Ground) <= Share(peakGross' - Ground')
  <2>1. /\ peakGross - Ground \in Int /\ peakGross' - Ground' \in Int
        /\ peakGross - Ground <= peakGross' - Ground'
    <3>1. peakGross \in Int /\ peakGross' \in Int /\ peakGross <= peakGross'
      BY <1>1, <1>2
    <3>2. \A c, p, q \in Int : p <= q => p - c \in Int /\ q - c \in Int /\ p - c <= q - c
      OBVIOUS
    <3> QED
      BY <1>4, <3>1, <3>2
  <2> QED
    BY <2>1, ShareGrows
<1>6. harvested' * 100 <= Share(peakGross' - Ground')
  BY <1>1, <1>3, <1>5 DEF ShareInv, IInv, TypeOK
<1>7. BelowBaseline'
  BY <1>1, <1>3, <1>4 DEF ShareInv, BelowBaseline, Base
<1>8. ASSUME NEW x \in Harvesters PROVE WithinShare(x)'
  <2>1. h' = h /\ harvested' = harvested /\ baseline' = baseline /\ WithinShare(x)
    BY <1>1, <1>3 DEF ShareInv
  <2>2. /\ h[x].open \in Int /\ h[x].total \in Int /\ h[x].amount \in Nat /\ harvested \in Nat
        /\ peakGross \in Int
    BY <1>1 DEF IInv, TypeOK, Local
  <2> QED
    BY <1>2, <1>5, <1>4, <2>1, <2>2 DEF WithinShare
<1> QED
  BY <1>6, <1>7, <1>8

\* The invariant's first half: a debit is what only moves realised profit to
\* the treasury, the other steps of a call leave the book alone.
LEMMA HarvestingTracked ==
    ASSUME IInv, IInv', ShareInv, NEW x \in Harvesters, Harvesting(x)
    PROVE  Realised' + harvested' <= peakGross' /\ peakGross <= peakGross'
<1>1. /\ peakGross \in Int /\ cash' \in Int /\ deployed' \in Int /\ harvested' \in Int
      /\ Realised + harvested <= peakGross
  BY DEF IInv, TypeOK, ShareInv
<1>2. CASE Debit(x)
  BY <1>1, <1>2, GrossTracked DEF Debit
<1>3. CASE UNCHANGED <<book, peaks>>
  BY <1>1, <1>3 DEF book, peaks, Realised
<1> QED
  BY <1>2, <1>3
     DEF Harvesting, Snapshot, ReadBaseline, InitBaseline, SimulateTransfer, RefuseTransfer,
         SendSol, ConfirmTransfer, OnChainError, ConfirmationTimeout, SetBaseline,
         Weigh, ReadLock, CheckLock, WriteLock, Crash, ghosts

\* No step of a call takes more than the share.
LEMMA HarvestingShares ==
    ASSUME IInv, IInv', SingleInv, ShareInv, NEW x \in Harvesters, Harvesting(x),
           Undisturbed, Undisturbed'
    PROVE  /\ harvested' * 100 <= Share(peakGross' - Ground')
           /\ \A y \in Harvesters : WithinShare(y)'
           /\ BelowBaseline'
<1>0. ~SetBaseline(x) => Ground' = Ground
  BY DEF Harvesting, Snapshot, ReadBaseline, InitBaseline, SimulateTransfer, RefuseTransfer,
         SendSol, ConfirmTransfer, OnChainError, ConfirmationTimeout, Debit,
         Weigh, ReadLock, CheckLock, WriteLock, Crash, ghosts, Ground
<1>1. /\ \A y \in Harvesters \ {x} : h[y].pc = "idle" /\ h'[y] = h[y]
      /\ faults = 0 /\ faults' = 0
  BY Alone DEF Undisturbed
<1>2. /\ h \in [Harvesters -> Local] /\ h[x] \in Local
      /\ h[x].total \in Int /\ h[x].open \in Int /\ h[x].amount \in Nat
      /\ harvested \in Nat /\ peakGross \in Int /\ baseline \in Int
      /\ Ground \in Int /\ Base \in Int /\ swallowed \in Nat
  BY HarvestAssumption DEF IInv, TypeOK, Local, Base, Ground
<1>3. /\ harvested * 100 <= Share(peakGross - Ground)
      /\ WithinShare(x)
      /\ h[x].pc # "debited" => harvested * 100 <= Share(Base + harvested - Ground)
      /\ Realised + harvested <= peakGross
  BY <1>1 DEF ShareInv, BelowBaseline
<1>4. \A y \in Harvesters \ {x} : WithinShare(y)'
  BY <1>1 DEF WithinShare
<1> SUFFICES /\ harvested' * 100 <= Share(peakGross' - Ground')
             /\ WithinShare(x)'
             /\ h'[x].pc # "debited" =>
                   harvested' * 100 <= Share(Base' + harvested' - Ground')
  BY <1>4 DEF BelowBaseline
<1>5. CASE Snapshot(x)
  <2>1. /\ h'[x] = [pc |-> "snapped", cash |-> cash, total |-> TotalEquity,
                    open |-> unrealized, amount |-> 0, floor |-> 0]
        /\ harvested' = harvested /\ peakGross' = peakGross /\ Base' = Base
        /\ h[x].pc # "debited" /\ Ground' = Ground
    BY <1>0, <1>2, <1>5 DEF Snapshot, SetBaseline, book, peaks, Base
  <2>2. TotalEquity - unrealized + harvested <= peakGross
    BY <1>2, <1>3 DEF TotalEquity, Realised, IInv, TypeOK
  <2> QED
    BY <1>3, <2>1, <2>2 DEF WithinShare
<1>6. CASE ReadBaseline(x) \/ InitBaseline(x)
  <2>1. h[x].pc \in {"snapped", "nobase"}
        /\ harvested' = harvested /\ peakGross' = peakGross /\ Ground' = Ground
    BY <1>6 DEF ReadBaseline, InitBaseline, book, ghosts, peaks, Ground
  <2>2. /\ h[x].total - h[x].open + harvested <= peakGross
        /\ harvested * 100 <= Share(Base + harvested - Ground)
    BY <1>3, <2>1 DEF WithinShare
  <2>3. Base' = Base
    BY <1>3, <1>6 DEF ReadBaseline, InitBaseline, WithinShare, Base
  <2>4. CASE Goto(x, "nobase") /\ baseline' = NoBaseline
    <3>1. h'[x].pc = "nobase" /\ h'[x].open = h[x].open /\ h'[x].total = h[x].total
      BY <1>2, <2>4 DEF Goto, Local
    <3> QED
      BY <1>3, <2>1, <2>2, <2>3, <2>4, <3>1 DEF WithinShare
  <2>5. CASE Decide(x, Base)
    <3>1. \/ h'[x].pc = "idle"
          \/ /\ h'[x].pc = "chosen"
             /\ (harvested + h'[x].amount) * 100 <= Share(peakGross - Ground)
             /\ (harvested + h'[x].amount) * 100
                  <= Share(h'[x].total - h'[x].open + harvested - Ground)
      BY <1>2, <2>2, <2>5, DecideShares
    <3> QED
      BY <1>3, <2>1, <2>2, <2>3, <3>1 DEF WithinShare
  <2> QED
    BY <1>3, <1>6, <2>4, <2>5 DEF ReadBaseline, InitBaseline, WithinShare, Base
<1>7. CASE SimulateTransfer(x) \/ ConfirmTransfer(x) \/ SendSol(x)
  <2>1. PICK pc \in {"submitted", "paid"} : Goto(x, pc)
    BY <1>7 DEF SimulateTransfer, ConfirmTransfer, SendSol
  <2>2. /\ harvested' = harvested /\ peakGross' = peakGross /\ Base' = Base
        /\ h[x].pc \in {"chosen", "submitted"} /\ Ground' = Ground
    BY <1>7 DEF SimulateTransfer, ConfirmTransfer, SendSol, book, peaks, ghosts, Base, Ground
  <2>3. /\ h'[x].pc = pc /\ h'[x].total = h[x].total /\ h'[x].amount = h[x].amount
        /\ h'[x].open = h[x].open
    BY <1>2, <2>1 DEF Goto, Local
  <2> QED
    BY <1>3, <2>1, <2>2, <2>3 DEF WithinShare
<1>8. CASE \/ RefuseTransfer(x) \/ OnChainError(x)
           \/ Weigh(x) \/ ReadLock(x) \/ CheckLock(x) \/ WriteLock(x)
  <2>1. /\ harvested' = harvested /\ peakGross' = peakGross /\ Base' = Base
        /\ h[x].pc # "debited" /\ Ground' = Ground
    BY <1>8 DEF RefuseTransfer, OnChainError, Weigh, ReadLock, CheckLock, WriteLock, book,
                peaks, ghosts, Base, Ground
  <2>2. h'[x].pc \in {"idle", "weighed", "raising", "raise"}
    BY <1>2, <1>8, IdleHolds
       DEF RefuseTransfer, OnChainError, Weigh, ReadLock, CheckLock, WriteLock, Return, Goto,
           Local
  <2> QED
    BY <1>3, <2>1, <2>2 DEF WithinShare
<1>9. CASE Debit(x)
  <2> DEFINE amount == h[x].amount
  <2>1. /\ h[x].pc = "paid" /\ harvested' = harvested + amount
        /\ h'[x].pc = "debited" /\ h'[x].total = h[x].total /\ h'[x].amount = amount
        /\ h'[x].open = h[x].open /\ Ground' = Ground
    BY <1>2, <1>9 DEF Debit, Goto, Local, Ground
  <2>2. /\ harvested' * 100 <= Share(peakGross - Ground)
        /\ harvested' * 100 <= Share(h[x].total - h[x].open + harvested - Ground)
    BY <1>3, <2>1 DEF WithinShare
  <2>3. Share(peakGross - Ground) <= Share(peakGross' - Ground)
        /\ Share(peakGross - Ground) \in Int /\ Share(peakGross' - Ground) \in Int
    <3>1. peakGross' \in Int /\ peakGross <= peakGross'
      BY HarvestingTracked DEF IInv, TypeOK
    <3>2. \A c, p, q \in Int : p <= q => p - c \in Int /\ q - c \in Int /\ p - c <= q - c
      OBVIOUS
    <3>3. /\ peakGross - Ground \in Int /\ peakGross' - Ground \in Int
          /\ peakGross - Ground <= peakGross' - Ground
      BY <1>2, <3>1, <3>2
    <3> QED
      BY <3>3, ShareGrows
  <2>4. harvested' * 100 <= Share(peakGross' - Ground)
    BY <1>2, <2>1, <2>2, <2>3
  <2>5. h'[x].total - h'[x].open - h'[x].amount + harvested' - Ground'
          = h[x].total - h[x].open + harvested - Ground
    BY <1>2, <2>1
  <2> QED
    BY <2>1, <2>2, <2>4, <2>5 DEF WithinShare
<1>10. CASE SetBaseline(x)
  <2> DEFINE left  == h[x].total - h[x].open - h[x].amount + harvested - Ground
             above == Base' + harvested' - Ground'
  <2>1. /\ h[x].pc = "debited" /\ baseline' = h[x].total - h[x].amount
        /\ swallowed' = swallowed + Larger(0, -h[x].open)
        /\ harvested' = harvested /\ peakGross' = peakGross /\ h'[x].pc = "rebased"
    BY <1>2, <1>10 DEF SetBaseline, Goto, Local, book, peaks
  <2>2. harvested * 100 <= Share(left)
    BY <1>3, <2>1 DEF WithinShare
  <2>3. Larger(0, -h[x].open) \in Nat /\ -h[x].open <= Larger(0, -h[x].open)
    BY <1>2 DEF Larger
  <2>4. Ground' \in Int /\ Ground' = Ground - Larger(0, -h[x].open)
    BY <1>2, <2>1, <2>3, HarvestAssumption DEF Ground
  <2>5. h[x].total - h[x].amount <= Base' /\ Base' \in Int
    BY <1>2, <2>1, HarvestAssumption DEF Base, NoBaseline
  <2>6. left \in Int /\ above \in Int /\ left <= above
    BY <1>2, <2>1, <2>3, <2>4, <2>5
  <2>7. /\ peakGross - Ground \in Int /\ peakGross - Ground' \in Int
        /\ peakGross - Ground <= peakGross - Ground'
    BY <1>2, <2>3, <2>4
  <2> HIDE DEF left, above
  <2>8. harvested * 100 <= Share(above)
    <3>1. Share(left) \in Int /\ Share(above) \in Int /\ Share(left) <= Share(above)
      BY <2>6, ShareGrows
    <3> QED
      BY <1>2, <2>2, <3>1
  <2>9. harvested' * 100 <= Share(peakGross' - Ground')
    <3>1. /\ Share(peakGross - Ground) \in Int /\ Share(peakGross - Ground') \in Int
          /\ Share(peakGross - Ground) <= Share(peakGross - Ground')
      BY <2>7, ShareGrows
    <3> QED
      BY <1>2, <1>3, <2>1, <3>1
  <2> QED
    BY <2>1, <2>8, <2>9 DEF WithinShare, above
<1>11. CASE ConfirmationTimeout(x) \/ Crash(x)
  BY <1>1, <1>11 DEF ConfirmationTimeout, Crash
<1> QED
  BY <1>5, <1>6, <1>7, <1>8, <1>9, <1>10, <1>11 DEF Harvesting

\* No step breaks the share.
LEMMA NextShares == IInv /\ IInv' /\ SingleInv /\ ShareInv /\ [Next]_vars => ShareInv'
<1> SUFFICES ASSUME IInv, IInv', SingleInv, ShareInv, [Next]_vars PROVE ShareInv'
  OBVIOUS
<1>1. CASE UNCHANGED vars
  BY <1>1 DEF vars, book, peaks, ghosts, bounds, Undisturbed, Sole, ShareInv, BelowBaseline,
              Base, WithinShare, Realised, Ground
<1>2. CASE Trade
  BY <1>2, TradeShares
<1>3. ASSUME NEW x \in Harvesters, Harvesting(x) PROVE ShareInv'
  <2>1. Realised' + harvested' <= peakGross'
    BY <1>3, HarvestingTracked
  <2>2. Undisturbed' => Undisturbed
    BY DisturbedStays
  <2>3. ASSUME Undisturbed'
        PROVE  /\ harvested' * 100 <= Share(peakGross' - Ground')
               /\ \A y \in Harvesters : WithinShare(y)'
               /\ BelowBaseline'
    BY <1>3, <2>2, <2>3, HarvestingShares
  <2> QED
    BY <2>1, <2>3 DEF ShareInv
<1> QED
  BY <1>1, <1>2, <1>3 DEF Next

\* At the start there is no profit and nothing has been harvested.
LEMMA InitShares == Init => ShareInv
<1> SUFFICES ASSUME Init PROVE ShareInv
  OBVIOUS
<1>1. /\ cash = Capital /\ deployed = 0 /\ unrealized = 0 /\ harvested = 0
      /\ peakGross = Capital /\ Base = Capital /\ Ground = Capital /\ Capital \in Int
      /\ \A x \in Harvesters : h[x].pc = "idle"
  BY IdleHolds, HarvestAssumption DEF Init, Base, Ground
<1>2. Capital - Capital = 0 /\ Capital + 0 - Capital = 0 /\ Share(0) = 0
  BY <1>1, HarvestAssumption DEF Share
<1>3. \A x \in Harvesters : WithinShare(x)
  BY <1>1 DEF WithinShare
<1> QED
  BY <1>1, <1>2, <1>3 DEF ShareInv, BelowBaseline, Realised

\* However low positions are marked, what is taken in all by a sole caller
\* that nothing fails is at most the share of the highest profit realised and of
\* the unrealised losses by which harvests lowered the baseline.
THEOREM HarvestedWithinShare == Spec => []HarvestWithinShare
<1>1. IInv /\ ShareInv => HarvestWithinShare
  <2>1. IInv => peakGross - Ground = peakGross - Capital + swallowed
    BY HarvestAssumption DEF IInv, TypeOK, Ground
  <2> QED
    BY <2>1 DEF ShareInv, Undisturbed, Sole, Share, HarvestWithinShare
<1>2. Init => IInv /\ SingleInv /\ ShareInv
  BY InitIInv, InitSingle, InitShares
<1>3. IInv /\ SingleInv /\ ShareInv /\ [Next]_vars => (IInv /\ SingleInv /\ ShareInv)'
  BY NextIInv, NextSingle, NextShares
<1>4. Spec => [](IInv /\ SingleInv /\ ShareInv)
  BY <1>2, <1>3, PTL DEF Spec
<1> QED
  BY <1>1, <1>4, PTL

=============================================================================
