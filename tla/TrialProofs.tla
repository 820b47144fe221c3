----------------------------- MODULE TrialProofs ----------------------------
(**************************************************************************)
(* What a strategy goes through before it risks money: the progression of *)
(* modes, and the replay of history.                                      *)
(**************************************************************************)
EXTENDS Modes, Backtest, FiniteSums

-----------------------------------------------------------------------------
(**************************************************************************)
(* Mode progression for any number of concurrent API requests, any number *)
(* of positions and any initial mode but live.                            *)
(**************************************************************************)

\* A request that would leave the system in live was asked to, or finds it
\* there because somebody asked before.
LiveRequested ==
    \A r \in Changers : change[r].pc # "idle" /\ change[r].target = "live" =>
        \/ chosen # "none"
        \/ change[r].cmd = "live" /\ change[r].pc # "persist"

LInv == InitialMode # "live" /\ ModesTypeOK /\ LiveRequested /\ LiveIsChosen

\* What a request that has counted found closed is still closed, or was opened
\* while it was under way.
CountedClosed ==
    \A r \in Changers : change[r].pc \in {"switch", "persist"} =>
        open[change[r].counted] = 0 \/ change[r].counted \in excused

SInv == ModesTypeOK /\ CountedClosed /\ StrandedOnlyByRace

-----------------------------------------------------------------------------

\* The mode every process starts in is a mode, and no process is changing it.
LEMMA ModesInitTyped == ModesInit => ModesTypeOK
  BY ModesAssumption
  DEF ModesInit, ModesTypeOK, NoChange, Mode

\* Every change of mode and every trade keeps the types.
LEMMA ModesNextTyped == ModesTypeOK /\ [ModesNext]_modesVars => ModesTypeOK'
<1> USE ModesAssumption DEF ModesTypeOK, NoChange, Loaded, ProcessOf, Process, Changers
<1> SUFFICES ASSUME ModesTypeOK, [ModesNext]_modesVars PROVE ModesTypeOK'
  OBVIOUS
<1>1. ASSUME NEW r \in Changers, NEW cmd \in {"advance", "live"}, AdvanceMode(r, cmd)
      PROVE  ModesTypeOK'
  <2>1. mode[ProcessOf(r)] \in Mode
    OBVIOUS
  <2>2. cmd = "live" \/ NextStage[mode[ProcessOf(r)]] \in Mode
    BY <1>1, <2>1 DEF AdvanceMode, NextStage, Mode
  <2> QED
    BY <1>1, <2>1, <2>2 DEF AdvanceMode, Mode
<1>2. ASSUME NEW r \in Changers, NEW m \in Mode, SetMode(r, m) PROVE ModesTypeOK'
  BY <1>2 DEF SetMode
<1>3. ASSUME NEW r \in Changers, Gates(r) PROVE ModesTypeOK'
  BY <1>3 DEF Gates
<1>4. ASSUME NEW r \in Changers, CountOpen(r) PROVE ModesTypeOK'
  <2> DEFINE m == mode[ProcessOf(r)]
  <2>1. m \in Mode
    OBVIOUS
  <2>2. CASE open[m] > 0
    <3>1. change' = [change EXCEPT ![r] = NoChange]
      BY <1>4, <2>2 DEF CountOpen
    <3> QED
      BY <1>4, <3>1 DEF CountOpen
  <2>3. CASE ~(open[m] > 0)
    <3>1. change' = [change EXCEPT ![r].pc = "switch", ![r].counted = m]
      BY <1>4, <2>3 DEF CountOpen
    <3> HIDE DEF m
    <3> QED
      BY <1>4, <2>1, <3>1 DEF CountOpen
  <2> QED
    BY <2>2, <2>3
<1>5. ASSUME NEW r \in Changers, Switch(r) PROVE ModesTypeOK'
  BY <1>5 DEF Switch
<1>6. ASSUME NEW r \in Changers, Persist(r) PROVE ModesTypeOK'
  BY <1>6 DEF Persist
<1>7. ASSUME NEW p \in Process, Start(p) PROVE ModesTypeOK'
  BY <1>7 DEF Start
<1>8. ASSUME OpenPosition PROVE ModesTypeOK'
  BY <1>8 DEF OpenPosition
<1>9. ASSUME ClosePosition PROVE ModesTypeOK'
  BY <1>9 DEF ClosePosition
<1>10. CASE UNCHANGED modesVars
  BY <1>10 DEF modesVars
<1> QED
  BY <1>1, <1>2, <1>3, <1>4, <1>5, <1>6, <1>7, <1>8, <1>9, <1>10 DEF ModesNext

\* Modes, requests and positions keep their types, for any number of requests.
THEOREM ModesWellTyped == ModesSpec => []ModesTypeOK
  BY ModesInitTyped, ModesNextTyped, PTL DEF ModesSpec

-----------------------------------------------------------------------------

\* No step brings a process, or the stored mode, to live unless POST /mode/live
\* was used: the requests under way carry the reason.
LEMMA NextLInv == LInv /\ [ModesNext]_modesVars => LInv'
<1> USE ModesAssumption DEF ModesTypeOK, LiveRequested, LiveIsChosen, Loaded, Process, Changers
<1> SUFFICES ASSUME LInv, [ModesNext]_modesVars PROVE (LiveRequested /\ LiveIsChosen)'
  BY ModesNextTyped DEF LInv
<1>0. InitialMode # "live" /\ ModesTypeOK /\ LiveRequested /\ LiveIsChosen /\ ModesTypeOK'
  BY ModesNextTyped DEF LInv
<1>a. \A r \in Changers : ProcessOf(r) \in Process
  BY DEF ProcessOf
<1>1. ASSUME NEW r \in Changers, NEW cmd \in {"advance", "live"}, AdvanceMode(r, cmd)
      PROVE  (LiveRequested /\ LiveIsChosen)'
  <2> DEFINE from == mode[ProcessOf(r)]
  <2>1. from \in Mode
    BY <1>0, <1>a
  <2>2. cmd = "live" \/ from \in {"backtest", "paper"}
    BY <1>1, <2>1 DEF AdvanceMode, Mode
  <2>3. cmd = "live" \/ NextStage[from] # "live"
    BY <2>2 DEF NextStage
  <2> HIDE DEF from
  <2>4. change'[r].pc = "gates" /\ change'[r].cmd = cmd
        /\ (change'[r].target = "live" => cmd = "live")
    BY <1>0, <1>1, <2>3 DEF AdvanceMode, NoChange, from
  <2>5. \A q \in Changers \ {r} : change'[q] = change[q]
    BY <1>0, <1>1 DEF AdvanceMode
  <2> QED
    BY <1>0, <1>1, <2>4, <2>5 DEF AdvanceMode
<1>2. ASSUME NEW r \in Changers, NEW m \in Mode, SetMode(r, m)
      PROVE  (LiveRequested /\ LiveIsChosen)'
  <2>1. m = "live" => mode["api"] = "live"
    BY <1>0, <1>2 DEF SetMode, Rank, Mode
  <2>2. m = "live" => chosen # "none"
    BY <1>0, <2>1
  <2>3. change'[r].target = m /\ \A q \in Changers \ {r} : change'[q] = change[q]
    BY <1>0, <1>2 DEF SetMode, NoChange
  <2> QED
    BY <1>0, <1>2, <2>2, <2>3 DEF SetMode
<1>3. ASSUME NEW r \in Changers, Gates(r) PROVE (LiveRequested /\ LiveIsChosen)'
  BY <1>0, <1>3 DEF Gates, NoChange
<1>4. ASSUME NEW r \in Changers, CountOpen(r) PROVE (LiveRequested /\ LiveIsChosen)'
  <2>1. \A q \in Changers \ {r} : change'[q] = change[q]
    BY <1>0, <1>4 DEF CountOpen
  <2>2. \/ change'[r].pc = "idle"
        \/ /\ change'[r].pc = "switch" /\ change'[r].cmd = change[r].cmd
           /\ change'[r].target = change[r].target
    BY <1>0, <1>4 DEF CountOpen, NoChange
  <2> QED
    BY <1>0, <1>4, <2>1, <2>2 DEF CountOpen
<1>5. ASSUME NEW r \in Changers, Switch(r) PROVE (LiveRequested /\ LiveIsChosen)'
  <2>1. "none" \notin Mode
    BY DEF Mode
  <2>2. chosen # "none" => chosen' # "none"
    BY <1>0, <1>5, <2>1 DEF Switch
  <2>3. change[r].target = "live" => chosen' # "none"
    BY <1>0, <1>5, <1>a, <2>1, <2>2 DEF Switch
  <2>4. /\ change'[r].target = change[r].target
        /\ \A q \in Changers \ {r} : change'[q] = change[q]
        /\ \A p \in Process : mode'[p] \in {mode[p], change[r].target}
        /\ stored' = stored
    BY <1>0, <1>5 DEF Switch
  <2> QED
    BY <1>0, <2>2, <2>3, <2>4
<1>6. ASSUME NEW r \in Changers, Persist(r) PROVE (LiveRequested /\ LiveIsChosen)'
  BY <1>0, <1>6 DEF Persist, NoChange
<1>7. ASSUME NEW p \in Process, Start(p) PROVE (LiveRequested /\ LiveIsChosen)'
  BY <1>0, <1>7 DEF Start, NoChange
<1>8. ASSUME OpenPosition PROVE (LiveRequested /\ LiveIsChosen)'
  BY <1>0, <1>8 DEF OpenPosition
<1>9. ASSUME ClosePosition PROVE (LiveRequested /\ LiveIsChosen)'
  BY <1>0, <1>9 DEF ClosePosition
<1>10. CASE UNCHANGED modesVars
  BY <1>0, <1>10 DEF modesVars
<1> QED
  BY <1>1, <1>2, <1>3, <1>4, <1>5, <1>6, <1>7, <1>8, <1>9, <1>10 DEF ModesNext

\* Nothing automatic reaches live: unless ASM_INITIAL_MODE is live already, no
\* process runs live and live is not stored before POST /mode/live was used,
\* whatever number of requests and restarts interleave.
THEOREM LiveOnlyWhenChosen ==
  ASSUME InitialMode # "live" PROVE ModesSpec => []LiveIsChosen
<1>1. ModesInit => LInv
  BY ModesInitTyped DEF ModesInit, LInv, LiveRequested, LiveIsChosen, NoChange
<1>2. LInv => LiveIsChosen
  BY DEF LInv
<1> QED
  BY <1>1, <1>2, NextLInv, PTL DEF ModesSpec

-----------------------------------------------------------------------------

\* No step strands a position outside the races named by excused: the mode left
\* behind is the one counted, and nothing was opened in it since.
LEMMA NextSInv == SInv /\ [ModesNext]_modesVars => SInv'
<1> USE ModesAssumption DEF ModesTypeOK, CountedClosed, StrandedOnlyByRace, Loaded,
        Process, Changers
<1> SUFFICES ASSUME SInv, [ModesNext]_modesVars PROVE (CountedClosed /\ StrandedOnlyByRace)'
  BY ModesNextTyped DEF SInv
<1>0. ModesTypeOK /\ CountedClosed /\ StrandedOnlyByRace
  BY DEF SInv
<1>a. \A r \in Changers : ProcessOf(r) \in Process
  BY DEF ProcessOf
<1>1. ASSUME NEW r \in Changers, NEW cmd \in {"advance", "live"}, AdvanceMode(r, cmd)
      PROVE  (CountedClosed /\ StrandedOnlyByRace)'
  <2>1. change'[r].pc = "gates" /\ \A q \in Changers \ {r} : change'[q] = change[q]
    BY <1>0, <1>1 DEF AdvanceMode, NoChange
  <2> QED
    BY <1>0, <1>1, <2>1 DEF AdvanceMode
<1>2. ASSUME NEW r \in Changers, NEW m \in Mode, SetMode(r, m)
      PROVE  (CountedClosed /\ StrandedOnlyByRace)'
  BY <1>0, <1>2 DEF SetMode, NoChange
<1>3. ASSUME NEW r \in Changers, Gates(r) PROVE (CountedClosed /\ StrandedOnlyByRace)'
  BY <1>0, <1>3 DEF Gates, NoChange
<1>4. ASSUME NEW r \in Changers, CountOpen(r)
      PROVE  (CountedClosed /\ StrandedOnlyByRace)'
  <2> DEFINE m == mode[ProcessOf(r)]
  <2>1. open[m] \in Nat
    BY <1>0, <1>a
  <2>2. \A q \in Changers \ {r} : change'[q] = change[q]
    BY <1>0, <1>4 DEF CountOpen
  <2>3. \/ change'[r].pc = "idle"
        \/ change'[r].counted = m /\ open[m] = 0
    <3>1. CASE open[m] > 0
      BY <1>0, <1>4, <3>1 DEF CountOpen, NoChange
    <3>2. CASE ~(open[m] > 0)
      BY <1>0, <1>4, <2>1, <3>2 DEF CountOpen
    <3> QED
      BY <3>1, <3>2
  <2> HIDE DEF m
  <2> QED
    BY <1>0, <1>4, <2>2, <2>3 DEF CountOpen
<1>5. ASSUME NEW r \in Changers, Switch(r) PROVE (CountedClosed /\ StrandedOnlyByRace)'
  BY <1>0, <1>5 DEF Switch
<1>6. ASSUME NEW r \in Changers, Persist(r) PROVE (CountedClosed /\ StrandedOnlyByRace)'
  <2>1. "none" \notin Mode /\ change[r].target \in Mode
    BY <1>0 DEF Mode
  <2>2. /\ stored' = change[r].target /\ open' = open
        /\ excused \subseteq excused'
        /\ change'[r].pc = "idle" /\ \A q \in Changers \ {r} : change'[q] = change[q]
    BY <1>0, <1>6 DEF Persist, NoChange
  <2>3. CountedClosed'
    BY <1>0, <2>2
  <2>4. ASSUME NEW m \in Mode, m \notin excused', open[m] > 0
        PROVE  m = change[r].target
    <3>1. m = Loaded
      BY <1>0, <2>2, <2>4
    <3>2. open[Loaded] # 0
      BY <1>0, <2>4, <3>1
    <3>3. Loaded \in {change[r].counted, change[r].target}
      BY <1>6, <2>4, <3>1, <3>2 DEF Persist
    <3>4. Loaded # change[r].counted
      BY <1>0, <1>6, <2>2, <2>4, <3>1, <3>2 DEF Persist
    <3> QED
      BY <3>1, <3>3, <3>4
  <2> QED
    BY <2>1, <2>2, <2>3, <2>4
<1>7. ASSUME NEW p \in Process, Start(p) PROVE (CountedClosed /\ StrandedOnlyByRace)'
  BY <1>0, <1>7 DEF Start, NoChange
<1>8. ASSUME OpenPosition PROVE (CountedClosed /\ StrandedOnlyByRace)'
  <2> DEFINE m == mode["decision"]
  <2>1. m \in Mode
    BY <1>0
  <2>2. /\ change' = change /\ stored' = stored /\ excused \subseteq excused'
        /\ \A n \in Mode \ {m} : open'[n] = open[n]
        /\ Changing \/ m # Loaded => m \in excused'
    BY <1>0, <1>8, <2>1 DEF OpenPosition
  <2> HIDE DEF m
  <2>3. ASSUME NEW r \in Changers, change'[r].pc \in {"switch", "persist"}
        PROVE  open'[change'[r].counted] = 0 \/ change'[r].counted \in excused'
    <3>1. Changing /\ change[r].counted \in Mode
      BY <1>0, <2>2, <2>3 DEF Changing
    <3> QED
      BY <1>0, <2>2, <2>3, <3>1
  <2>4. ASSUME NEW n \in Mode, n \notin excused', open'[n] > 0
        PROVE  n = Loaded
    BY <1>0, <2>2, <2>4
  <2> QED
    BY <2>2, <2>3, <2>4
<1>9. ASSUME ClosePosition PROVE (CountedClosed /\ StrandedOnlyByRace)'
  <2> DEFINE m == mode["position"]
  <2>1. m \in Mode /\ open[m] \in Nat /\ open[m] > 0
    BY <1>0, <1>9 DEF ClosePosition
  <2>2. /\ change' = change /\ stored' = stored
        /\ \A n \in Mode \ {m} : open'[n] = open[n]
        /\ open'[m] = open[m] - 1
        /\ excused' = IF open[m] = 1 THEN excused \ {m} ELSE excused
    BY <1>0, <1>9, <2>1 DEF ClosePosition
  <2> HIDE DEF m
  <2>3. ASSUME NEW r \in Changers, change'[r].pc \in {"switch", "persist"}
        PROVE  open'[change'[r].counted] = 0 \/ change'[r].counted \in excused'
    <3>1. change[r].counted \in Mode
      BY <1>0
    <3>2. open[change[r].counted] = 0 \/ change[r].counted \in excused
      BY <1>0, <2>2, <2>3
    <3> QED
      BY <2>1, <2>2, <3>1, <3>2
  <2>4. ASSUME NEW n \in Mode, n \notin excused', open'[n] > 0
        PROVE  n = Loaded
    <3>1. n \notin excused /\ open[n] > 0
      BY <1>0, <2>1, <2>2, <2>4
    <3> QED
      BY <1>0, <3>1
  <2> QED
    BY <2>2, <2>3, <2>4
<1>10. CASE UNCHANGED modesVars
  BY <1>0, <1>10 DEF modesVars
<1> QED
  BY <1>1, <1>2, <1>3, <1>4, <1>5, <1>6, <1>7, <1>8, <1>9, <1>10 DEF ModesNext

\* A change of mode never strands an open position but in a race the ghost
\* names: counting the positions of the process's own mode is enough only when
\* nothing is opened meanwhile and that mode is the stored one.
THEOREM NothingStranded == ModesSpec => []StrandedOnlyByRace
<1>1. ModesInit => SInv
  BY ModesInitTyped DEF ModesInit, SInv, CountedClosed, StrandedOnlyByRace, NoChange
<1>2. SInv => StrandedOnlyByRace
  BY DEF SInv
<1> QED
  BY <1>1, <1>2, NextSInv, PTL DEF ModesSpec

-----------------------------------------------------------------------------
(**************************************************************************)
(* The replay for every history, profile, depth and limit.                *)
(**************************************************************************)

\* What a reservation has in the deployed total: the cost of its open position,
\* or the size of the entry being filled.
AtWork ==
    [r \in ResIds |-> IF r \in Open THEN pos[r].cost
                      ELSE IF order # NoOrder /\ order.res = r THEN order.size ELSE 0]

\* Types, also of what is replayed and of the reservations.
Replayed ==
    /\ TypeOK
    /\ tape \in Tapes /\ trader \in Traders /\ depth \in Depths /\ sizing \in SizingModes
    /\ step > 0
    /\ reservation \in [ResIds -> {Unborn, Gone} \cup Live]

\* An event is only handled after its time has come; liquidation follows the
\* last one.
InTime ==
    /\ pc \in {"trade", "fill", "mirror", "ticks"} => ~Ended /\ Event.at <= clock
    /\ pc \in {"liquidate", "done"} => Ended

\* The token of an open position has been seen to trade, and the position is
\* not younger than the clock.
PositionsSeen ==
    \A r \in Open :
        /\ pos[r].opened <= clock /\ pos[r].entry > 0
        /\ \E i \in DOMAIN tape : tape[i].mint = pos[r].mint /\ tape[i].at <= clock

\* The entry under way is the one hold, and has no position yet.
EntryHeld ==
    /\ pc = "fill" <=> order # NoOrder
    /\ order # NoOrder =>
          /\ order.res \in ResIds \ Open /\ order.price > 0
          /\ reservation[order.res].state = "held" /\ reservation[order.res].usd = order.size
    /\ \A r \in Open : reservation[r] # Unborn

\* The deployed total is what entry and positions cost, and the books balance.
Balanced ==
    /\ deployed = SumFunction(AtWork)
    /\ cash + deployed = Capital + realized + exit_fees
    /\ open_positions = Cardinality(Open)
    /\ pending = IF pc = "fill" THEN 1 ELSE 0

\* What a loop has visited it has dealt with.
Visited ==
    /\ pc = "ticks" => \A r \in Open \ (todo \cup unsold) : Spared(r)
    /\ pc = "mark" /\ ~Ended => \A r \in Open \ unsold : Spared(r)
    /\ pc = "liquidate" => Open \ todo \subseteq unsold
    /\ pc \in {"mark", "done"} /\ Ended => Open \subseteq unsold

Core ==
    /\ Replayed /\ InTime /\ PositionsSeen /\ EntryHeld /\ Balanced
    /\ NeverClosesBeforeOpening

ReplayInv == Core /\ Visited

-----------------------------------------------------------------------------
(* Numbers *)

\* A non-empty set of natural numbers has a least element, which Min chooses.
LEMMA MinIsLeast ==
    ASSUME NEW S \in SUBSET Nat, S # {}
    PROVE  Min(S) \in S /\ \A x \in S : Min(S) <= x
<1>1. PICK n \in S : TRUE
  OBVIOUS
<1> DEFINE B == {0 .. k : k \in {x \in S : x <= n}}
<1>2. PICK t \in B : \A u \in SUBSET t : u # t => u \notin B
  <2>1. IsFiniteSet(0 .. n)
    BY <1>1, FS_Interval
  <2>2. B \in SUBSET (SUBSET (0 .. n)) /\ B # {}
    BY <1>1
  <2> HIDE DEF B
  <2> QED
    BY <2>1, <2>2, MinimalSubset
<1>3. PICK k \in S : t = 0 .. k /\ k <= n
  OBVIOUS
<1>4. \A x \in S : k <= x
  <2>1. SUFFICES ASSUME NEW x \in S, x < k PROVE FALSE
    BY <1>3
  <2>2. x <= n
    BY <1>1, <1>3, <2>1
  <2>3. 0 .. x \in B
    BY <2>2
  <2>4. 0 .. x \in SUBSET t
    BY <1>3, <2>1
  <2>5. k \in t /\ k \notin 0 .. x
    BY <1>3, <2>1
  <2>6. 0 .. x # t
    BY <2>5
  <2> QED
    BY <1>2, <2>3, <2>4, <2>6
<1> QED
  BY <1>3, <1>4 DEF Min

\* So does a set of numbers up to n have a greatest one.
LEMMA MaxIsGreatest ==
    ASSUME NEW n \in Nat, NEW S \in SUBSET (1 .. n), S # {}
    PROVE  Max(S) \in S
<1> DEFINE T == {n - x : x \in S}
<1>1. T \in SUBSET Nat /\ T # {}
  <2>1. \A x \in S : n - x \in Nat
    OBVIOUS
  <2>2. PICK x \in S : TRUE
    OBVIOUS
  <2>3. n - x \in T
    BY <2>2
  <2> QED
    BY <2>1, <2>3
<1>2. Min(T) \in T /\ \A x \in T : Min(T) <= x
  <2> HIDE DEF T
  <2> QED
    BY <1>1, MinIsLeast
<1>3. PICK y \in S : Min(T) = n - y
  BY <1>2
<1>4. \A x \in S : y >= x
  BY <1>2, <1>3
<1> QED
  BY <1>4 DEF Max

\* A part of a whole has a part of its cost.
LEMMA ShareOfCost ==
    ASSUME NEW cost \in Nat, NEW all \in Nat \ {0}, NEW part \in 0 .. all
    PROVE  /\ (cost * part) \div all \in 0 .. cost
           /\ part = all => (cost * part) \div all = cost
<1>1. cost * part \in Nat /\ cost * all \in Nat
  OBVIOUS
<1>2. cost * part <= cost * all
  OBVIOUS
<1>3. (cost * all) \div all = cost
  OBVIOUS
<1>4. (cost * part) \div all \in Nat /\ (cost * part) \div all <= (cost * all) \div all
  BY <1>1, <1>2
<1> QED
  BY <1>3, <1>4

\* A percentage of an amount is at most the amount.
LEMMA ShareTaken ==
    ASSUME NEW p, p.amount \in Nat \ {0}, NEW take \in 1 .. 100
    PROVE  /\ Quantity(p, take) \in 0 .. p.amount
           /\ take = 100 => Quantity(p, take) = p.amount
<1>1. take < 100 => (p.amount * take) \div 100 \in 0 .. p.amount
  OBVIOUS
<1> QED
  BY <1>1 DEF Quantity

-----------------------------------------------------------------------------
(* The size of an entry *)

Ratio == Nat \X (Nat \ {0})

\* Ratios multiply to ratios.
LEMMA TimesRatio == ASSUME NEW m \in Ratio, NEW k \in Ratio PROVE Times(m, k) \in Ratio
<1>1. /\ m[1] \in Nat /\ k[1] \in Nat /\ m[2] \in Nat \ {0} /\ k[2] \in Nat \ {0}
  BY DEF Ratio
<1>2. m[1] * k[1] \in Nat /\ m[2] * k[2] \in Nat \ {0}
  BY <1>1
<1> QED
  BY <1>2 DEF Times, Ratio

\* What the combined multiplier is after i gates, when f is that after fewer.
UpTo(gates, f, i) ==
    IF i = 0 THEN One
    ELSE IF gates[i].passed THEN Times(f[i - 1], gates[i].mult) ELSE f[i - 1]

Unfolds(gates, f, n) == \A i \in 0 .. n : f[i] = UpTo(gates, f, i) /\ f[i] \in Ratio

\* The recursion over the gates has a solution, and the combined multiplier is
\* its last value: a first index at which there were none does not exist.
LEMMA CombinedUnfolds ==
    ASSUME NEW gates, NEW n \in Nat, Len(gates) = n, \A i \in 1 .. n : gates[i].mult \in Ratio
    PROVE  \E f : Combined(gates) = f[n] /\ Unfolds(gates, f, n)
<1> DEFINE G(f, i) == IF i = 0 THEN One
                      ELSE IF gates[i].passed THEN Times(f[i - 1], gates[i].mult)
                      ELSE f[i - 1]
           Has(k) == \E f \in [0 .. k -> Ratio] : \A i \in 0 .. k : f[i] = G(f, i)
<1>1. One \in Ratio
  BY DEF One, Ratio
<1>2. ASSUME NEW f, NEW i \in 0 .. n, i > 0 => f[i - 1] \in Ratio PROVE G(f, i) \in Ratio
  BY <1>1, <1>2, TimesRatio
<1>3. ASSUME NEW B \in SUBSET (0 .. n), B # {}
      PROVE  \E k \in B : k = 0 \/ (k > 0 /\ k - 1 \in 0 .. n /\ k - 1 \notin B)
  <2>1. Min(B) \in B /\ \A x \in B : Min(B) <= x
    <3>1. B \in SUBSET Nat
      OBVIOUS
    <3> QED
      BY <1>3, <3>1, MinIsLeast
  <2> DEFINE m == Min(B)
  <2> HIDE DEF m
  <2>2. m \in B /\ m \in 0 .. n /\ \A x \in B : m <= x
    BY <2>1 DEF m
  <2>3. CASE m > 0
    <3>1. m - 1 \in 0 .. n /\ ~(m <= m - 1)
      BY <2>2, <2>3
    <3>2. m - 1 \notin B
      BY <2>2, <3>1
    <3> QED
      BY <2>2, <2>3, <3>1, <3>2
  <2> QED
    BY <2>2, <2>3
<1>4. Has(n)
  <2> DEFINE B == {k \in 0 .. n : ~Has(k)}
  <2>1. SUFFICES ASSUME B # {} PROVE FALSE
    <3> HIDE DEF Has
    <3> QED
      OBVIOUS
  <2>2. PICK k \in B : k = 0 \/ (k > 0 /\ k - 1 \in 0 .. n /\ k - 1 \notin B)
    <3> HIDE DEF B
    <3>1. B \in SUBSET (0 .. n)
      BY DEF B
    <3> QED
      BY <2>1, <3>1, <1>3
  <2>3. CASE k = 0
    <3>1. [i \in 0 .. 0 |-> One] \in [0 .. 0 -> Ratio]
      BY <1>1
    <3>2. \A i \in 0 .. 0 : [j \in 0 .. 0 |-> One][i] = G([j \in 0 .. 0 |-> One], i)
      OBVIOUS
    <3> QED
      BY <2>3, <3>1, <3>2
  <2>4. CASE k > 0 /\ k - 1 \in 0 .. n /\ k - 1 \notin B
    <3>1. PICK f \in [0 .. (k - 1) -> Ratio] : \A i \in 0 .. (k - 1) : f[i] = G(f, i)
      BY <2>4
    <3> DEFINE h == [i \in 0 .. k |-> IF i < k THEN f[i] ELSE G(f, k)]
    <3>2. G(f, k) \in Ratio
      BY <1>2, <2>4
    <3>3. h \in [0 .. k -> Ratio]
      BY <2>4, <3>2
    <3>4. ASSUME NEW i \in 0 .. k PROVE h[i] = G(h, i)
      <4>1. CASE i < k
        <5>1. h[i] = f[i] /\ (i > 0 => h[i - 1] = f[i - 1])
          BY <2>4, <4>1
        <5> QED
          BY <3>1, <4>1, <5>1
      <4>2. CASE i = k
        <5>1. h[i] = G(f, k) /\ h[i - 1] = f[i - 1]
          BY <2>4, <4>2
        <5> QED
          BY <2>4, <4>2, <5>1
      <4> QED
        BY <4>1, <4>2
    <3>5. Has(k)
      BY <3>3, <3>4
    <3> QED
      BY <3>5
  <2> QED
    BY <2>2, <2>3, <2>4
<1> DEFINE upTo == CHOOSE f : f = [i \in 0 .. n |-> G(f, i)]
<1>5. Combined(gates) = upTo[n]
  BY DEF Combined
<1>6. upTo = [i \in 0 .. n |-> G(upTo, i)]
  <2>1. PICK f \in [0 .. n -> Ratio] : \A i \in 0 .. n : f[i] = G(f, i)
    BY <1>4
  <2>2. f = [i \in 0 .. n |-> G(f, i)]
    BY <2>1
  <2> QED
    BY <2>2
<1> HIDE DEF upTo
<1>7. \A i \in 0 .. n : upTo[i] \in Ratio
  <2> DEFINE B == {k \in 0 .. n : upTo[k] \notin Ratio}
  <2>1. SUFFICES ASSUME B # {} PROVE FALSE
    OBVIOUS
  <2>2. PICK k \in B : k = 0 \/ (k > 0 /\ k - 1 \in 0 .. n /\ k - 1 \notin B)
    <3> HIDE DEF B
    <3>1. B \in SUBSET (0 .. n)
      BY DEF B
    <3> QED
      BY <2>1, <3>1, <1>3
  <2>3. k > 0 => upTo[k - 1] \in Ratio
    BY <2>2
  <2>4. upTo[k] = G(upTo, k)
    BY <1>6, <2>2
  <2>5. G(upTo, k) \in Ratio
    BY <1>2, <2>3
  <2> QED
    BY <2>4, <2>5
<1> QED
  BY <1>5, <1>6, <1>7 DEF UpTo, Unfolds

\* So it is a ratio.
LEMMA CombinedRatio ==
    ASSUME NEW gates, NEW n \in Nat, Len(gates) = n, \A i \in 1 .. n : gates[i].mult \in Ratio
    PROVE  Combined(gates) \in Ratio
<1>1. PICK f : Combined(gates) = f[n] /\ Unfolds(gates, f, n)
  BY CombinedUnfolds
<1>2. n \in 0 .. n
  OBVIOUS
<1> QED
  BY <1>1, <1>2 DEF Unfolds

\* A gate answers with the verdict of the first case that applies.
LEMMA FirstApplies ==
    ASSUME NEW cases, NEW n \in Nat \ {0}, DOMAIN cases = 1 .. n, cases[n][1] = TRUE
    PROVE  \E i \in 1 .. n : /\ FirstOf(cases) = cases[i][2] /\ cases[i][1]
                             /\ \A j \in 1 .. (i - 1) : ~cases[j][1]
<1> DEFINE S == {i \in DOMAIN cases : cases[i][1]}
<1>1. S \in SUBSET Nat /\ n \in S
  OBVIOUS
<1>2. Min(S) \in S /\ \A x \in S : Min(S) <= x
  <2> HIDE DEF S
  <2> QED
    BY <1>1, MinIsLeast
<1> DEFINE m == Min(S)
<1>3. FirstOf(cases) = cases[m][2]
  BY DEF FirstOf
<1> HIDE DEF m
<1>4. m \in 1 .. n /\ cases[m][1] /\ \A x \in S : m <= x
  BY <1>2 DEF m
<1>5. ASSUME NEW j \in 1 .. (m - 1) PROVE ~cases[j][1]
  BY <1>4
<1> QED
  BY <1>3, <1>4, <1>5

\* The multipliers of all gates but the last are the trader's, that of the
\* confirmations and a few constants, whatever the verdict.
LEMMA GateMultipliers ==
    ASSUME NEW c, NEW R, {One, <<1, 2>>, <<1, 4>>, <<3, 5>>, <<0, 1>>} \subseteq R,
           c.trader.mult \in R, ConfirmationGate(c).mult \in R, NEW intended, NEW min_position
    PROVE  LET gates == RunEntryGates(c, intended, min_position)
           IN /\ DOMAIN gates = 1 .. 9 /\ Len(gates) = 9
              /\ gates[9] = LiquidityGate(c, intended, min_position)
              /\ \A i \in 1 .. 8 : gates[i].mult \in R
<1>1. /\ \A reason : Refuse(reason).mult \in R
      /\ \A m \in R : Ok(m).mult = m
      /\ One \in R /\ <<1, 2>> \in R /\ <<1, 4>> \in R /\ <<3, 5>> \in R
  BY DEF Refuse, Ok
<1> DEFINE Fine(v) == v.mult \in R
<1>2. ASSUME NEW cases, NEW n \in Nat \ {0}, DOMAIN cases = 1 .. n, cases[n][1] = TRUE,
             \A i \in 1 .. n : Fine(cases[i][2])
      PROVE  Fine(FirstOf(cases))
  <2>1. PICK i \in 1 .. n : FirstOf(cases) = cases[i][2]
    BY <1>2, FirstApplies
  <2> QED
    BY <1>2, <2>1
<1>3. /\ \A reason : Fine(Refuse(reason))
      /\ \A m \in R : Fine(Ok(m))
  BY <1>1
<1> HIDE DEF Fine
<1>4. \A a1, a2, v1, v2, v3 :
         Fine(v1) /\ Fine(v2) /\ Fine(v3)
         => Fine(FirstOf(<<<<a1, v1>>, <<a2, v2>>, <<TRUE, v3>>>>))
  <2> TAKE a1, a2, v1, v2, v3
  <2> HAVE Fine(v1) /\ Fine(v2) /\ Fine(v3)
  <2> DEFINE cases == <<<<a1, v1>>, <<a2, v2>>, <<TRUE, v3>>>>
  <2>1. DOMAIN cases = 1 .. 3 /\ cases[3][1] = TRUE /\ 3 \in Nat \ {0}
    OBVIOUS
  <2>2. \A i \in 1 .. 3 : Fine(cases[i][2])
    OBVIOUS
  <2> HIDE DEF cases
  <2>3. Fine(FirstOf(cases))
    BY <1>2, <2>1, <2>2, Zenon
  <2> QED
    BY <2>3 DEF cases
<1>5. \A a1, a2, a3, v1, v2, v3, v4 :
         Fine(v1) /\ Fine(v2) /\ Fine(v3) /\ Fine(v4)
         => Fine(FirstOf(<<<<a1, v1>>, <<a2, v2>>, <<a3, v3>>, <<TRUE, v4>>>>))
  <2> TAKE a1, a2, a3, v1, v2, v3, v4
  <2> HAVE Fine(v1) /\ Fine(v2) /\ Fine(v3) /\ Fine(v4)
  <2> DEFINE cases == <<<<a1, v1>>, <<a2, v2>>, <<a3, v3>>, <<TRUE, v4>>>>
  <2>1. DOMAIN cases = 1 .. 4 /\ cases[4][1] = TRUE /\ 4 \in Nat \ {0}
    OBVIOUS
  <2>2. \A i \in 1 .. 4 : Fine(cases[i][2])
    OBVIOUS
  <2> HIDE DEF cases
  <2>3. Fine(FirstOf(cases))
    BY <1>2, <2>1, <2>2, Zenon
  <2> QED
    BY <2>3 DEF cases
<1>6. \A a1, a2, a3, a4, v1, v2, v3, v4, v5 :
         Fine(v1) /\ Fine(v2) /\ Fine(v3) /\ Fine(v4) /\ Fine(v5)
         => Fine(FirstOf(<<<<a1, v1>>, <<a2, v2>>, <<a3, v3>>, <<a4, v4>>, <<TRUE, v5>>>>))
  <2> TAKE a1, a2, a3, a4, v1, v2, v3, v4, v5
  <2> HAVE Fine(v1) /\ Fine(v2) /\ Fine(v3) /\ Fine(v4) /\ Fine(v5)
  <2> DEFINE cases == <<<<a1, v1>>, <<a2, v2>>, <<a3, v3>>, <<a4, v4>>, <<TRUE, v5>>>>
  <2>1. DOMAIN cases = 1 .. 5 /\ cases[5][1] = TRUE /\ 5 \in Nat \ {0}
    OBVIOUS
  <2>2. \A i \in 1 .. 5 : Fine(cases[i][2])
    OBVIOUS
  <2> HIDE DEF cases
  <2>3. Fine(FirstOf(cases))
    BY <1>2, <2>1, <2>2, Zenon
  <2> QED
    BY <2>3 DEF cases
<1>7. Fine(TraderGate(c)) /\ Fine(PriceChaseGate(c))
  <2>1. Fine(TraderGate(c))
    BY <1>3, <1>6, Zenon DEF TraderGate
  <2>2. /\ Fine(Refuse("CRITICAL_DATA_UNAVAILABLE")) /\ Fine(Refuse("PRICE_MOVED_TOO_FAR"))
        /\ Fine(Ok(One)) /\ Fine(Ok(<<1, 2>>)) /\ Fine(Ok(<<1, 4>>))
    BY <1>1, <1>3
  <2>3. Fine(PriceChaseGate(c))
    BY <1>6, <2>2, Zenon DEF PriceChaseGate
  <2> QED
    BY <2>1, <2>3
<1>8. Fine(LatencyGate(c)) /\ Fine(MarketCapGate(c)) /\ Fine(TokenSafetyGate(c))
  <2> DEFINE none == c.market_cap <= 0
             small == c.market_cap < 50000
             large == c.market_cap > 500000000
  <2>1. MarketCapGate(c) = FirstOf(<<
    <<none,  Ok(One)>>,
    <<small, Refuse("MARKET_CAP_TOO_LOW")>>,
    <<large, Refuse("MARKET_CAP_TOO_HIGH")>>,
    <<TRUE,  Ok(One)>> >>)
    BY DEF MarketCapGate
  <2> HIDE DEF none, small, large
  <2>2. /\ Fine(Ok(One)) /\ Fine(Ok(<<3, 5>>))
        /\ Fine(Refuse("MARKET_CAP_TOO_LOW")) /\ Fine(Refuse("MARKET_CAP_TOO_HIGH"))
    BY <1>1, <1>3
  <2>3. Fine(FirstOf(<<
    <<none,  Ok(One)>>,
    <<small, Refuse("MARKET_CAP_TOO_LOW")>>,
    <<large, Refuse("MARKET_CAP_TOO_HIGH")>>,
    <<TRUE,  Ok(One)>> >>))
    BY <1>5, <2>2, Zenon
  <2>4. Fine(LatencyGate(c))
    BY <1>3, <1>5, <2>2, Zenon DEF LatencyGate
  <2>5. Fine(TokenSafetyGate(c))
    BY <1>3, <1>5, <2>2, Zenon DEF TokenSafetyGate
  <2> QED
    BY <2>1, <2>3, <2>4, <2>5
<1>9. Fine(TokenAgeGate(c))
  <2> DEFINE aged == FirstOf(<<
         <<c.token_age < MinTokenAge, Refuse("TOKEN_TOO_NEW")>>,
         <<c.token_age < NewTokenAge, Ok(<<1, 2>>)>>,
         <<TRUE,                      Ok(One)>> >>)
  <2>1. TokenAgeGate(c) \in {Ok(One), aged}
    BY DEF TokenAgeGate
  <2>2. Fine(aged)
    BY <1>1, <1>3, <1>4, Zenon
  <2>3. Fine(Ok(One))
    BY <1>1, <1>3
  <2> HIDE DEF aged
  <2> QED
    BY <2>1, <2>2, <2>3
<1>10. Fine(SlippageGate(c))
  <2> DEFINE edge == IF c.trader.edge = 0 THEN 15 ELSE c.trader.edge
             risen == IF c.source_price = 0 THEN 0
                      ELSE Clamp(((c.price - c.source_price) * 10000) \div c.source_price,
                                 0, 1000000)
             slips == c.impact > 300
             eaten == edge * 100 - risen <= c.impact + 35 + 100
  <2>1. SlippageGate(c) = FirstOf(<<
    <<slips, Refuse("EXPECTED_SLIPPAGE_TOO_HIGH")>>,
    <<eaten, Refuse("ALPHA_BELOW_COST")>>,
    <<TRUE,  Ok(One)>> >>)
    BY DEF SlippageGate
  <2> HIDE DEF edge, risen, slips, eaten
  <2>2. /\ Fine(Ok(One)) /\ Fine(Refuse("EXPECTED_SLIPPAGE_TOO_HIGH"))
        /\ Fine(Refuse("ALPHA_BELOW_COST"))
    BY <1>1, <1>3
  <2>3. Fine(FirstOf(<<
    <<slips, Refuse("EXPECTED_SLIPPAGE_TOO_HIGH")>>,
    <<eaten, Refuse("ALPHA_BELOW_COST")>>,
    <<TRUE,  Ok(One)>> >>))
    BY <1>4, <2>2, Zenon
  <2> QED
    BY <2>1, <2>3
<1>11. Fine(ConfirmationGate(c))
  BY DEF Fine
<1> DEFINE gates == RunEntryGates(c, intended, min_position)
<1>12. /\ gates = << TraderGate(c), PriceChaseGate(c), LatencyGate(c), MarketCapGate(c),
                     TokenAgeGate(c), TokenSafetyGate(c), SlippageGate(c),
                     ConfirmationGate(c), LiquidityGate(c, intended, min_position) >>
  BY DEF RunEntryGates
<1> HIDE DEF gates
<1>13. /\ DOMAIN gates = 1 .. 9 /\ Len(gates) = 9
       /\ gates[9] = LiquidityGate(c, intended, min_position)
       /\ \A i \in 1 .. 8 : Fine(gates[i])
  BY <1>7, <1>8, <1>9, <1>10, <1>11, <1>12
<1> QED
  BY <1>13 DEF Fine, gates

\* The liquidity gate lets a size pass that is allowed, and otherwise asks for
\* the allowed part of it.
LEMMA LiquidityVerdicts ==
    ASSUME NEW c, c.liquidity \in Nat, NEW intended \in Int, NEW min_position,
           NEW v, v = LiquidityGate(c, intended, min_position)
    PROVE  \/ ~v.passed /\ v.mult = <<0, 1>>
           \/ v.mult = One /\ intended <= Allowed(c)
           \/ v.mult = <<Allowed(c), intended>> /\ intended > Allowed(c)
<1> DEFINE cases == <<
       <<c.liquidity < 25000,             Refuse("LOW_LIQUIDITY")>>,
       <<intended <= Allowed(c),          Ok(One)>>,
       <<Allowed(c) < min_position,       Refuse("POSITION_TOO_LARGE_FOR_LIQUIDITY")>>,
       <<TRUE,                            Ok(<<Allowed(c), intended>>)>> >>
<1>1. v = FirstOf(cases)
  BY DEF LiquidityGate
<1>2. DOMAIN cases = 1 .. 4 /\ cases[4][1] = TRUE /\ 4 \in Nat \ {0}
  OBVIOUS
<1>3. /\ cases[1][2] = Refuse("LOW_LIQUIDITY") /\ cases[2][2] = Ok(One)
      /\ cases[3][2] = Refuse("POSITION_TOO_LARGE_FOR_LIQUIDITY")
      /\ cases[4][2] = Ok(<<Allowed(c), intended>>)
      /\ cases[2][1] = (intended <= Allowed(c))
  OBVIOUS
<1>4. Allowed(c) \in Nat
  BY DEF Allowed
<1> HIDE DEF cases
<1>5. PICK i \in 1 .. 4 : /\ FirstOf(cases) = cases[i][2] /\ cases[i][1]
                          /\ \A j \in 1 .. (i - 1) : ~cases[j][1]
  BY <1>2, FirstApplies, Zenon
<1>6. i \in 3 .. 4 => ~cases[2][1]
  <2>1. i \in 3 .. 4 => 2 \in 1 .. (i - 1)
    OBVIOUS
  <2> QED
    BY <1>5, <2>1
<1>7. i = 1 \/ i = 2 \/ i = 3 \/ i = 4
  OBVIOUS
<1>8. \A reason : ~Refuse(reason).passed /\ Refuse(reason).mult = <<0, 1>>
  BY DEF Refuse
<1>9. \A m : Ok(m).mult = m
  BY DEF Ok
<1>10. CASE i = 1 \/ i = 3
  BY <1>1, <1>3, <1>5, <1>8, <1>10
<1>11. CASE i = 2
  <2>1. intended <= Allowed(c)
    <3>1. cases[2][1]
      BY <1>5, <1>11
    <3> QED
      BY <1>3, <3>1
  <2>2. v.mult = One
    BY <1>1, <1>3, <1>5, <1>9, <1>11
  <2> QED
    BY <2>1, <2>2
<1>12. CASE i = 4
  <2>1. ~(intended <= Allowed(c))
    <3>1. ~cases[2][1]
      BY <1>6, <1>12
    <3> QED
      BY <1>3, <3>1
  <2>2. v.mult = <<Allowed(c), intended>>
    BY <1>1, <1>3, <1>5, <1>9, <1>12
  <2> QED
    BY <1>4, <2>1, <2>2
<1> QED
  BY <1>7, <1>10, <1>11, <1>12

\* Every gate's multiplier is a ratio, whatever its verdict.
LEMMA GateRatios ==
    ASSUME NEW c, c.trader.mult \in Ratio, c.liquidity \in Nat,
           NEW intended \in Int, NEW min_position
    PROVE  LET gates == RunEntryGates(c, intended, min_position)
           IN Len(gates) = 9 /\ \A i \in 1 .. 9 : gates[i].mult \in Ratio
<1> DEFINE gates == RunEntryGates(c, intended, min_position)
<1>1. /\ {One, <<1, 2>>, <<1, 4>>, <<3, 5>>, <<0, 1>>} \subseteq Ratio
      /\ ConfirmationGate(c).mult \in Ratio
  BY DEF One, Ratio, ConfirmationGate, Ok
<1>2. /\ DOMAIN gates = 1 .. 9 /\ Len(gates) = 9
      /\ gates[9] = LiquidityGate(c, intended, min_position)
      /\ \A i \in 1 .. 8 : gates[i].mult \in Ratio
  BY <1>1, GateMultipliers
<1> HIDE DEF gates
<1>3. gates[9].mult \in Ratio
  <2>1. Allowed(c) \in Nat
    BY DEF Allowed
  <2>2. \/ gates[9].mult = <<0, 1>> \/ gates[9].mult = One
        \/ gates[9].mult = <<Allowed(c), intended>> /\ intended > Allowed(c)
    BY <1>2, LiquidityVerdicts
  <2>3. intended > Allowed(c) => <<Allowed(c), intended>> \in Ratio
    BY <2>1 DEF Ratio
  <2> QED
    BY <1>1, <2>2, <2>3
<1>4. \A i \in 1 .. 9 : i \in 1 .. 8 \/ i = 9
  OBVIOUS
<1> QED
  BY <1>2, <1>3, <1>4 DEF gates

SizingMode == {"fixed", "portfolio_pct", "source_proportional", "confidence_weighted", "kelly"}

\* The size before multipliers and ceilings is in whole dollars.
LEMMA BaseSizeType ==
    ASSUME NEW c, c.trader \in Profile, c.source_usd \in Nat,
           NEW pf, pf.equity \in Int, NEW m \in SizingMode
    PROVE  BaseSize(c, pf, m, rules) \in Int
<1>1. /\ rules.base \in Nat /\ rules.cap \in Nat /\ rules.min \in Nat
  BY LedgerAssumption, BacktestAssumption DEF rules
<1>2. BasePct(pf, rules) \in Int /\ Cap(pf, rules) \in Int
  BY <1>1 DEF BasePct, Cap
<1>3. \A v, lo, hi \in Int : Clamp(v, lo, hi) \in Int
  BY DEF Clamp, Smaller
<1>4. Kelly(c, pf, rules) \in Int
  <2> DEFINE win == c.trader.win_rate
             edge == 100 * win - ((100 - win) * 3500) \div 60
  <2>1. win \in Int
    BY DEF Profile
  <2>2. edge \in Int
    BY <2>1
  <2>3. Clamp(edge \div 4, 0, rules.cap) \in Int
    <3>1. edge \div 4 \in Int /\ 0 \in Int /\ rules.cap \in Int
      BY <1>1, <2>2
    <3> HIDE DEF edge
    <3> QED
      BY <1>3, <3>1, Zenon
  <2>4. (pf.equity * Clamp(edge \div 4, 0, rules.cap)) \div 10000 \in Int
    BY <2>3
  <2>5. BasePct(pf, rules) \div 2 \in Int
    BY <1>2
  <2> QED
    BY <2>4, <2>5 DEF Kelly
<1>5. BaseSize(c, pf, m, rules) \in Int
  <2>1. CASE pf.equity <= 0
    BY <2>1 DEF BaseSize
  <2>2. CASE ~(pf.equity <= 0)
    <3>1. CASE m = "fixed"
      BY <1>1, <2>2, <3>1 DEF BaseSize
    <3>2. CASE m = "portfolio_pct"
      BY <1>2, <2>2, <3>2 DEF BaseSize
    <3>3. CASE m = "source_proportional"
      <4> DEFINE share == Clamp((100 * c.source_usd) \div c.trader.avg_usd, 25, 300)
      <4>1. CASE c.trader.avg_usd > 0
        <5>1. (100 * c.source_usd) \div c.trader.avg_usd \in Int /\ 25 \in Int /\ 300 \in Int
          BY <4>1 DEF Profile
        <5>2. share \in Int
          BY <1>3, <5>1
        <5> HIDE DEF share
        <5>3. (BasePct(pf, rules) * share) \div 100 \in Int
          BY <1>2, <5>2
        <5>4. BaseSize(c, pf, m, rules) = (BasePct(pf, rules) * share) \div 100
          BY <2>2, <3>3, <4>1 DEF BaseSize, share
        <5> QED
          BY <5>3, <5>4
      <4>2. CASE ~(c.trader.avg_usd > 0)
        BY <1>2, <2>2, <3>3, <4>2 DEF BaseSize
      <4> QED
        BY <4>1, <4>2
    <3>4. CASE m = "confidence_weighted"
      <4>1. /\ Weight(c.trader.composite) \in Int /\ Weight(c.trader.confidence) \in Int
            /\ Weight(c.trader.copyability) \in Int
        <5>1. /\ c.trader.composite \in Int /\ c.trader.confidence \in Int
              /\ c.trader.copyability \in Int
          BY DEF Profile
        <5> QED
          BY <5>1 DEF Weight, Clamp, Smaller
      <4>2. (BasePct(pf, rules) * Weight(c.trader.composite) * Weight(c.trader.confidence)
               * Weight(c.trader.copyability)) \div 1000000 \in Int
        BY <1>2, <4>1
      <4> QED
        BY <2>2, <3>4, <4>2 DEF BaseSize
    <3>5. CASE m = "kelly"
      BY <1>4, <2>2, <3>5 DEF BaseSize
    <3> QED
      BY <3>1, <3>2, <3>3, <3>4, <3>5 DEF SizingMode
  <2> QED
    BY <2>1, <2>2
<1> QED
  BY <1>5

\* The final size is nothing or at least the minimum, and within the ceilings.
LEMMA FinalSizeType ==
    ASSUME NEW c, c.trader \in Profile, c.source_usd \in Nat,
           NEW pf, pf.equity \in Int, pf.cash \in Int,
           NEW mult \in Ratio, NEW m \in SizingMode
    PROVE  /\ FinalSize(c, pf, mult, m, rules) \in Nat
           /\ FinalSize(c, pf, mult, m, rules)
                \in {0, Smaller(Scaled(BaseSize(c, pf, m, rules), mult),
                                Smaller(Cap(pf, rules), pf.cash))}
<1>1. rules.cap \in Nat /\ rules.min \in Nat
  BY LedgerAssumption, BacktestAssumption DEF rules
<1>2. Cap(pf, rules) \in Int
  BY <1>1 DEF Cap
<1> DEFINE base == BaseSize(c, pf, m, rules)
<1>3. base \in Int
  BY BaseSizeType
<1> HIDE DEF base
<1>4. Scaled(base, mult) \in Int
  <2>1. mult[1] \in Nat /\ mult[2] \in Nat \ {0}
    BY DEF Ratio
  <2> QED
    BY <1>3, <2>1 DEF Scaled
<1> DEFINE size == Smaller(Scaled(base, mult), Smaller(Cap(pf, rules), pf.cash))
<1>5. size \in Int
  BY <1>2, <1>4 DEF Smaller
<1>6. FinalSize(c, pf, mult, m, rules) = IF size < rules.min THEN 0 ELSE size
  BY DEF FinalSize, base
<1> HIDE DEF size
<1>7. /\ FinalSize(c, pf, mult, m, rules) \in Nat
      /\ FinalSize(c, pf, mult, m, rules) \in {0, size}
  BY <1>1, <1>5, <1>6
<1> QED
  BY <1>7 DEF size, base

\* So is the size of an approved entry.
LEMMA EntrySizeType ==
    ASSUME NEW c, c.trader \in Profile, c.source_usd \in Nat, c.liquidity \in Nat,
           NEW pf, pf.equity \in Int, pf.cash \in Int, NEW m \in SizingMode
    PROVE  EvaluateEntry(c, pf, m, rules).size \in Nat
<1> DEFINE provisional == FinalSize(c, pf, One, m, rules)
           gates == RunEntryGates(c, provisional, rules.min)
           size == FinalSize(c, pf, Combined(gates), m, rules)
<1>1. provisional \in Int
  <2>1. One \in Ratio
    BY DEF One, Ratio
  <2> QED
    BY <2>1, FinalSizeType
<1>2. Combined(gates) \in Ratio
  <2>1. c.trader.mult \in Ratio
    BY DEF Profile, Ratio
  <2> HIDE DEF provisional
  <2>2. Len(gates) = 9 /\ \A i \in 1 .. 9 : gates[i].mult \in Ratio
    BY <1>1, <2>1, GateRatios
  <2> HIDE DEF gates
  <2> QED
    BY <2>2, CombinedRatio
<1> HIDE DEF gates
<1>3. size \in Nat
  BY <1>2, FinalSizeType
<1>4. EvaluateEntry(c, pf, m, rules).size \in {0, size}
  BY DEF EvaluateEntry, Rejected, gates
<1> QED
  BY <1>3, <1>4

-----------------------------------------------------------------------------
(* The size against the book *)

\* Multipliers that make nothing larger.
Shrinking == {m \in Ratio : m[1] <= m[2]}

\* A product of such multipliers is one.
LEMMA TimesShrinks ==
    ASSUME NEW m \in Shrinking, NEW k \in Shrinking PROVE Times(m, k) \in Shrinking
<1>1. /\ m[1] \in Nat /\ m[2] \in Nat \ {0} /\ m[1] <= m[2]
      /\ k[1] \in Nat /\ k[2] \in Nat \ {0} /\ k[1] <= k[2]
  BY DEF Shrinking, Ratio
<1>2. m[1] * k[1] <= m[2] * k[1] /\ m[2] * k[1] <= m[2] * k[2]
  BY <1>1
<1>3. Times(m, k)[1] <= Times(m, k)[2]
  <2>1. m[1] * k[1] \in Int /\ m[2] * k[1] \in Int /\ m[2] * k[2] \in Int
    BY <1>1
  <2> QED
    BY <1>2, <2>1 DEF Times
<1> QED
  BY <1>3, TimesRatio DEF Shrinking

\* Where every gate passes and none but the last can enlarge, the combined
\* multiplier is the last gate's, shrunk.
LEMMA CombinedShrinks ==
    ASSUME NEW gates, Len(gates) = 9, \A i \in 1 .. 9 : gates[i].passed,
           \A i \in 1 .. 8 : gates[i].mult \in Shrinking, gates[9].mult \in Ratio
    PROVE  \E m \in Shrinking : Combined(gates) = Times(m, gates[9].mult)
<1>1. \A i \in 1 .. 9 : gates[i].mult \in Ratio
  <2>1. \A i \in 1 .. 9 : i \in 1 .. 8 \/ i = 9
    OBVIOUS
  <2> QED
    BY <2>1 DEF Shrinking
<1>2. PICK f : Combined(gates) = f[9] /\ Unfolds(gates, f, 9)
  BY <1>1, CombinedUnfolds
<1>3. f[0] \in Shrinking
  BY <1>2 DEF Unfolds, UpTo, One, Shrinking, Ratio
<1>4. \A i \in 1 .. 9 : f[i] = Times(f[i - 1], gates[i].mult)
  BY <1>2 DEF Unfolds, UpTo
<1>5. \A i \in 1 .. 8 : f[i - 1] \in Shrinking => f[i] \in Shrinking
  BY <1>4, TimesShrinks
<1>6. f[1] \in Shrinking /\ f[2] \in Shrinking
  BY <1>3, <1>5
<1>7. f[3] \in Shrinking /\ f[4] \in Shrinking
  BY <1>5, <1>6
<1>8. f[5] \in Shrinking /\ f[6] \in Shrinking
  BY <1>5, <1>7
<1>9. f[7] \in Shrinking /\ f[8] \in Shrinking
  BY <1>5, <1>8
<1> QED
  BY <1>2, <1>4, <1>9

\* What fits the book, or is cut to what fits, still does after shrinking.
LEMMA ShrunkFits ==
    ASSUME NEW base \in Nat \ {0}, NEW allowed \in Nat, NEW m \in Shrinking, NEW k,
           (k = One /\ base <= allowed) \/ k = <<allowed, base>>
    PROVE  Scaled(base, Times(m, k)) <= allowed
<1>1. m[1] \in Nat /\ m[2] \in Nat \ {0} /\ m[1] <= m[2]
  BY DEF Shrinking, Ratio
<1>2. ASSUME NEW x \in Nat, NEW d \in Nat \ {0}, x <= allowed * d PROVE x \div d <= allowed
  <2>1. (allowed * d) \div d = allowed
    OBVIOUS
  <2>2. x \div d <= (allowed * d) \div d
    BY <1>2
  <2> QED
    BY <2>1, <2>2
<1>3. CASE k = One /\ base <= allowed
  <2> DEFINE x == base * m[1]
  <2>1. Scaled(base, Times(m, k)) = x \div m[2]
    BY <1>1, <1>3 DEF Scaled, Times, One
  <2>2. base * m[1] <= allowed * m[1] /\ allowed * m[1] <= allowed * m[2]
    BY <1>1, <1>3
  <2>3. x \in Nat /\ x <= allowed * m[2]
    BY <1>1, <2>2
  <2> HIDE DEF x
  <2> QED
    BY <1>1, <1>2, <2>1, <2>3
<1>4. CASE k = <<allowed, base>>
  <2> DEFINE x == base * (m[1] * allowed)  d == m[2] * base
  <2>1. Scaled(base, Times(m, k)) = x \div d
    BY <1>4 DEF Scaled, Times
  <2>2. x \in Nat /\ d \in Nat \ {0}
    BY <1>1
  <2>3. x <= allowed * d
    <3> DEFINE all == base * allowed
    <3>1. x = m[1] * all /\ allowed * d = m[2] * all /\ all \in Nat
      BY <1>1
    <3> HIDE DEF all, x, d
    <3>2. m[1] * all <= m[2] * all
      BY <1>1, <3>1
    <3> QED
      BY <3>1, <3>2
  <2> HIDE DEF x, d
  <2> QED
    BY <1>2, <2>1, <2>2, <2>3
<1> QED
  BY <1>3, <1>4

\* Sizing modes whose size is a part of base_position_pct, or capped by itself.
UnderCeiling == {"portfolio_pct", "confidence_weighted", "kelly"}

\* With a base below the ceiling they size no entry above it.
LEMMA BaseBelowCap ==
    ASSUME NEW c, c.trader \in Profile, NEW pf, pf.equity \in Int,
           NEW m \in UnderCeiling, BaseBp <= CapBp, pf.equity > 0
    PROVE  BaseSize(c, pf, m, rules) <= Cap(pf, rules)
<1>1. rules.base \in Nat /\ rules.cap \in Nat /\ rules.base <= rules.cap
  BY BacktestAssumption DEF rules
<1>2. /\ BasePct(pf, rules) \in Nat /\ Cap(pf, rules) \in Nat
      /\ BasePct(pf, rules) <= Cap(pf, rules)
  <2>1. /\ pf.equity * rules.base \in Nat /\ pf.equity * rules.cap \in Nat
        /\ pf.equity * rules.base <= pf.equity * rules.cap
    BY <1>1
  <2> QED
    BY <2>1 DEF BasePct, Cap
<1>3. CASE m = "portfolio_pct"
  BY <1>2, <1>3 DEF BaseSize
<1>4. CASE m = "confidence_weighted"
  <2> DEFINE b == BasePct(pf, rules)
             u == Weight(c.trader.composite)
             v == Weight(c.trader.confidence)
             w == Weight(c.trader.copyability)
  <2>1. u \in 20 .. 100 /\ v \in 20 .. 100 /\ w \in 20 .. 100
    <3>1. /\ c.trader.composite \in Int /\ c.trader.confidence \in Int
          /\ c.trader.copyability \in Int
      BY DEF Profile
    <3> QED
      BY <3>1 DEF Weight, Clamp, Smaller
  <2>2. BaseSize(c, pf, m, rules) = (b * u * v * w) \div 1000000
    BY <1>4 DEF BaseSize
  <2>3. b \in Nat /\ b <= Cap(pf, rules)
    BY <1>2
  <2> HIDE DEF b, u, v, w
  <2>4. b * u \in Nat /\ b * u <= 100 * b
    BY <2>1, <2>3
  <2>5. b * u * v \in Nat /\ b * u * v <= 10000 * b
    <3>1. b * u * v \in Nat /\ b * u * v <= 100 * (b * u)
      BY <2>1, <2>4
    <3> QED
      BY <2>3, <2>4, <3>1
  <2>6. b * u * v * w \in Nat /\ b * u * v * w <= 1000000 * b
    <3>1. b * u * v * w \in Nat /\ b * u * v * w <= 100 * (b * u * v)
      BY <2>1, <2>5
    <3> QED
      BY <2>3, <2>5, <3>1
  <2>7. (b * u * v * w) \div 1000000 <= b
    BY <2>3, <2>6
  <2> QED
    BY <1>2, <2>2, <2>3, <2>6, <2>7
<1>5. CASE m = "kelly"
  <2> DEFINE win == c.trader.win_rate
             edge == 100 * win - ((100 - win) * 3500) \div 60
             share == Clamp(edge \div 4, 0, rules.cap)
  <2>1. share \in Nat /\ share <= rules.cap
    <3>1. win \in Int
      BY DEF Profile
    <3>2. edge \div 4 \in Int
      BY <3>1
    <3> HIDE DEF edge
    <3> QED
      BY <1>1, <3>2 DEF Clamp, Smaller
  <2>2. BaseSize(c, pf, m, rules) \in {BasePct(pf, rules) \div 2, (pf.equity * share) \div 10000}
    BY <1>5 DEF BaseSize, Kelly
  <2> HIDE DEF share
  <2>3. /\ pf.equity * share \in Nat /\ pf.equity * rules.cap \in Nat
        /\ pf.equity * share <= pf.equity * rules.cap
    BY <1>1, <2>1
  <2>4. (pf.equity * share) \div 10000 <= Cap(pf, rules)
    BY <2>3 DEF Cap
  <2>5. BasePct(pf, rules) \div 2 <= Cap(pf, rules)
    BY <1>2
  <2> QED
    BY <2>2, <2>4, <2>5
<1> QED
  BY <1>3, <1>4, <1>5 DEF UnderCeiling

\* An entry sized below the ceilings fits the book, however much the other
\* gates shrink it: the gate's cut is of the size it saw.
LEMMA EntryFits ==
    ASSUME NEW c, c.trader \in Profile, c.trader.mult \in Shrinking,
           c.confirmations \in 0 .. 1, c.source_usd \in Nat, c.liquidity \in Nat,
           NEW pf, pf.equity \in Int, pf.cash \in Int, NEW m \in SizingMode,
           pf.equity > 0 => /\ BaseSize(c, pf, m, rules) <= Cap(pf, rules)
                            /\ BaseSize(c, pf, m, rules) <= pf.cash
    PROVE  100 * EvaluateEntry(c, pf, m, rules).size <= c.liquidity
<1> DEFINE base == BaseSize(c, pf, m, rules)
           provisional == FinalSize(c, pf, One, m, rules)
           gates == RunEntryGates(c, provisional, rules.min)
           mult == Combined(gates)
           size == FinalSize(c, pf, mult, m, rules)
<1>1. base \in Int /\ Cap(pf, rules) \in Int /\ (~(pf.equity > 0) => base = 0)
  <2>1. base \in Int
    BY BaseSizeType
  <2>2. Cap(pf, rules) \in Int
    <3>1. rules.cap \in Nat
      BY BacktestAssumption DEF rules
    <3> QED
      BY <3>1 DEF Cap
  <2>3. ASSUME ~(pf.equity > 0) PROVE base = 0
    BY <2>3 DEF BaseSize
  <2> HIDE DEF base
  <2> QED
    BY <2>1, <2>2, <2>3
<1>2. EvaluateEntry(c, pf, m, rules).size # 0 =>
        /\ EvaluateEntry(c, pf, m, rules).size = size
        /\ ~(provisional <= 0) /\ AllPassed(gates)
  BY DEF EvaluateEntry, Rejected
<1>3. provisional \in Nat /\ (provisional > 0 => provisional = base /\ base \in Nat \ {0})
  <2>1. Scaled(base, One) = base
    BY <1>1 DEF Scaled, One
  <2>2. /\ provisional \in Nat
        /\ provisional \in {0, Smaller(Scaled(base, One), Smaller(Cap(pf, rules), pf.cash))}
    <3>1. One \in Ratio
      BY DEF One, Ratio
    <3> QED
      BY <3>1, FinalSizeType
  <2> HIDE DEF base, provisional
  <2>3. provisional > 0 => pf.equity > 0
    BY <1>1, <2>1, <2>2 DEF Smaller
  <2> QED
    BY <1>1, <2>1, <2>2, <2>3 DEF Smaller, base
<1>4. /\ DOMAIN gates = 1 .. 9 /\ Len(gates) = 9
      /\ gates[9] = LiquidityGate(c, provisional, rules.min)
      /\ \A i \in 1 .. 8 : gates[i].mult \in Shrinking
  <2>1. /\ {One, <<1, 2>>, <<1, 4>>, <<3, 5>>, <<0, 1>>} \subseteq Shrinking
        /\ ConfirmationGate(c).mult \in Shrinking
    BY DEF One, Shrinking, Ratio, ConfirmationGate, Ok
  <2> HIDE DEF provisional
  <2> QED
    BY <2>1, GateMultipliers
<1>5. /\ Len(gates) = 9 /\ \A i \in 1 .. 9 : gates[i].mult \in Ratio
  <2>1. c.trader.mult \in Ratio
    BY DEF Shrinking
  <2> HIDE DEF provisional
  <2> QED
    BY <1>3, <2>1, GateRatios
<1>6. Allowed(c) \in Nat /\ 100 * Allowed(c) <= c.liquidity
  BY DEF Allowed
<1>7. ASSUME provisional > 0, AllPassed(gates) PROVE size <= Allowed(c)
  <2>1. base \in Nat \ {0} /\ provisional = base
    BY <1>3, <1>7
  <2>2. \/ gates[9].mult = One /\ base <= Allowed(c)
        \/ gates[9].mult = <<Allowed(c), base>>
    <3>1. gates[9].passed
      BY <1>4, <1>7 DEF AllPassed
    <3> HIDE DEF gates, base, provisional
    <3> QED
      BY <1>4, <2>1, <3>1, LiquidityVerdicts
  <2>3. PICK k \in Shrinking : mult = Times(k, gates[9].mult)
    <3>1. \A i \in 1 .. 9 : gates[i].passed
      BY <1>4, <1>7 DEF AllPassed
    <3> HIDE DEF gates
    <3> QED
      BY <1>4, <1>5, <3>1, CombinedShrinks
  <2>4. Scaled(base, mult) <= Allowed(c)
    <3> HIDE DEF base, mult, gates
    <3> QED
      BY <1>6, <2>1, <2>2, <2>3, ShrunkFits
  <2>5. mult \in Ratio
    <3> HIDE DEF gates
    <3> QED
      BY <1>5, CombinedRatio
  <2> HIDE DEF mult
  <2>6. size \in {0, Smaller(Scaled(base, mult), Smaller(Cap(pf, rules), pf.cash))}
    BY <2>5, FinalSizeType
  <2>7. Scaled(base, mult) \in Int
    <3>1. mult[1] \in Nat /\ mult[2] \in Nat \ {0}
      BY <2>5 DEF Ratio
    <3> HIDE DEF base
    <3> QED
      BY <1>1, <3>1 DEF Scaled
  <2> HIDE DEF base, size
  <2> QED
    BY <1>1, <1>6, <2>4, <2>6, <2>7 DEF Smaller
<1> DEFINE e == EvaluateEntry(c, pf, m, rules).size
<1>8. e \in Nat
  BY EntrySizeType
<1>9. e # 0 => e <= Allowed(c)
  BY <1>2, <1>3, <1>7
<1> HIDE DEF e
<1>10. 100 * e <= c.liquidity
  BY <1>6, <1>8, <1>9
<1> QED
  BY <1>10 DEF e

-----------------------------------------------------------------------------
(* Exits *)

\* What the market has to say in a replay: nothing of the book or the source.
Quiet(in) == in.sold = 0 /\ in.book = "unknown"

\* The rules and their order.
LEMMA RulesInOrder ==
    /\ DOMAIN Rules = 1 .. 7
    /\ Rules[1] = "stop_loss" /\ Rules[2] = "liquidity_deterioration"
    /\ Rules[3] = "trader_degraded" /\ Rules[4] = "trailing_stop" /\ Rules[5] = "take_profit"
    /\ Rules[6] = "mirror" /\ Rules[7] = "time_exit"
  BY DEF Rules

\* A trailing stop that is armed and reached.
Trails(p, price) ==
    /\ p.peak > 0 /\ p.entry > 0
    /\ p.armed /\ DroppedBy(p, price, TrailingStopPct)

\* What the rules that matter here ask.
LEMMA WhenRulesApply ==
    ASSUME NEW p, NEW price, NEW in, NEW now
    PROVE  /\ Applies("stop_loss", p, price, in, now) <=> GainAtMost(p, price, -StopLossPct)
           /\ Trails(p, price) => Applies("trailing_stop", p, price, in, now)
           /\ Applies("take_profit", p, price, in, now) <=> Rungs(p, price) # {}
           /\ Applies("mirror", p, price, in, now) <=> in.sold > 0
<1>1. Applies("stop_loss", p, price, in, now) <=> GainAtMost(p, price, -StopLossPct)
  BY DEF Applies
<1>2. Trails(p, price) => Applies("trailing_stop", p, price, in, now)
  BY DEF Applies, Trails
<1>3. Applies("take_profit", p, price, in, now) <=> Rungs(p, price) # {}
  BY DEF Applies
<1>4. Applies("mirror", p, price, in, now) <=> in.sold > 0
  BY DEF Applies
<1> QED
  BY <1>1, <1>2, <1>3, <1>4

\* The rule that decides is the first that applies, and what it asks to sell is
\* a percentage, all of it if a loss is to be capped; a rung of the ladder is
\* named only when it is taken.
LEMMA IntentType ==
    ASSUME NEW p, NEW price, NEW in, Quiet(in), NEW now,
           NEW intent, intent = EvaluateExits(p, price, in, now), intent # NoIntent
    PROVE  /\ intent.take \in 1 .. 100 /\ intent.rung \in {0} \cup DOMAIN Ladder
           /\ intent.reason \in Reasons
           /\ GainAtMost(p, price, -StopLossPct) \/ Trails(p, price) => intent.take = 100
<1> DEFINE applying == {i \in DOMAIN Rules : Applies(Rules[i], p, price, in, now)}
           m == Min(applying)
           rung == Min(Rungs(p, price))
<1>1. applying # {} /\ applying \in SUBSET (1 .. 7)
  BY RulesInOrder DEF EvaluateExits
<1>2. m \in applying /\ m \in 1 .. 7 /\ \A i \in applying : m <= i
  <2> HIDE DEF applying
  <2>1. applying \in SUBSET Nat
    BY <1>1
  <2> QED
    BY <1>1, <2>1, MinIsLeast
<1>3. intent = CASE Rules[m] = "take_profit" ->
                      [reason |-> Rules[m], take |-> Ladder[rung][2], rung |-> rung]
                 [] Rules[m] = "mirror" ->
                      [reason |-> Rules[m], take |-> Min({in.sold, 100}), rung |-> 0]
                 [] OTHER -> [reason |-> Rules[m], take |-> 100, rung |-> 0]
  BY DEF EvaluateExits
<1>4. Applies(Rules[m], p, price, in, now)
  BY <1>2
<1>5. GainAtMost(p, price, -StopLossPct) \/ Trails(p, price) => m \in 1 .. 4
  <2>1. GainAtMost(p, price, -StopLossPct) => 1 \in applying
    BY WhenRulesApply, RulesInOrder
  <2>2. Trails(p, price) => 4 \in applying
    BY WhenRulesApply, RulesInOrder
  <2> HIDE DEF applying, m
  <2>3. \A i \in 1 .. 4 : i \in applying => m \in 1 .. 4
    BY <1>2
  <2> QED
    BY <2>1, <2>2, <2>3
<1> HIDE DEF applying, m, rung
<1>6. CASE Rules[m] \notin {"take_profit", "mirror"}
  <2>1. Rules[m] \in Reasons
    BY <1>2, RulesInOrder DEF Reasons
  <2>2. intent = [reason |-> Rules[m], take |-> 100, rung |-> 0]
    BY <1>3, <1>6
  <2> QED
    BY <2>1, <2>2
<1>7. CASE Rules[m] = "take_profit"
  <2>1. Rungs(p, price) # {}
    BY <1>4, <1>7, WhenRulesApply
  <2>2. rung \in DOMAIN Ladder
    <3>1. Rungs(p, price) \in SUBSET DOMAIN Ladder
      BY DEF Rungs
    <3>2. DOMAIN Ladder \in SUBSET Nat
      BY ExitRulesAssumption
    <3> QED
      BY <2>1, <3>1, <3>2, MinIsLeast DEF rung
  <2>3. Ladder[rung][2] \in 1 .. 100
    <3>1. Ladder[rung] \in Int \X (1 .. 100)
      BY <2>2, ExitRulesAssumption
    <3> QED
      BY <3>1
  <2>4. m \notin 1 .. 4
    BY <1>7, RulesInOrder
  <2>5. intent = [reason |-> "take_profit", take |-> Ladder[rung][2], rung |-> rung]
    BY <1>3, <1>7
  <2>6. intent.take \in 1 .. 100 /\ intent.rung \in {0} \cup DOMAIN Ladder
        /\ intent.reason \in Reasons
    BY <1>2, <1>7, <2>2, <2>3, <2>5, RulesInOrder DEF Reasons
  <2> QED
    BY <1>5, <2>4, <2>6
<1>8. CASE Rules[m] = "mirror"
  BY <1>4, <1>8, WhenRulesApply DEF Quiet
<1> QED
  BY <1>6, <1>7, <1>8

\* When nothing applies to a position worth something, no loss is to be capped.
LEMMA NoIntentSpares ==
    ASSUME NEW p, ~(p.amount <= 0), NEW price, ~(price <= 0), NEW in, NEW now,
           EvaluateExits(p, price, in, now) = NoIntent
    PROVE  ~GainAtMost(p, price, -StopLossPct) /\ ~Trails(p, price)
<1> DEFINE applying == {i \in DOMAIN Rules : Applies(Rules[i], p, price, in, now)}
           rule == Rules[Min(applying)]
           rung == Min(Rungs(p, price))
<1>1. ASSUME applying # {} PROVE FALSE
  <2>1. EvaluateExits(p, price, in, now) =
           CASE rule = "take_profit" -> [reason |-> rule, take |-> Ladder[rung][2], rung |-> rung]
             [] rule = "mirror" -> [reason |-> rule, take |-> Min({in.sold, 100}), rung |-> 0]
             [] OTHER -> [reason |-> rule, take |-> 100, rung |-> 0]
    BY <1>1 DEF EvaluateExits
  <2>2. Min(applying) \in 1 .. 7
    <3>1. applying \in SUBSET (1 .. 7)
      BY RulesInOrder
    <3> HIDE DEF applying
    <3>2. applying \in SUBSET Nat
      BY <3>1
    <3> QED
      BY <1>1, <3>1, <3>2, MinIsLeast
  <2>3. rule # "none"
    <3> HIDE DEF applying
    <3> QED
      BY <2>2, RulesInOrder
  <2> HIDE DEF rule, rung
  <2>4. EvaluateExits(p, price, in, now).reason = rule
    BY <2>1
  <2> QED
    BY <2>3, <2>4 DEF NoIntent
<1>2. GainAtMost(p, price, -StopLossPct) => 1 \in applying
  BY WhenRulesApply, RulesInOrder
<1>3. Trails(p, price) => 4 \in applying
  BY WhenRulesApply, RulesInOrder
<1> QED
  BY <1>1, <1>2, <1>3

-----------------------------------------------------------------------------
(* What the provider knows *)

\* A history is a sequence of trades.
LEMMA TapeTyped ==
    ASSUME Replayed
    PROVE  /\ Len(tape) \in Nat \ {0} /\ DOMAIN tape = 1 .. Len(tape)
           /\ \A i \in DOMAIN tape : tape[i] \in Trade
           /\ Copied \in Wallets
<1>1. tape \in Seq(Trade) /\ Len(tape) > 0
  BY BacktestAssumption DEF Replayed
<1>2. Len(tape) \in Nat \ {0} /\ DOMAIN tape = 1 .. Len(tape)
      /\ \A i \in DOMAIN tape : tape[i] \in Trade
  BY <1>1
<1> QED
  BY <1>2 DEF Copied, Trade

\* A token that somebody traded by then has a price.
LEMMA PriceKnown ==
    ASSUME Replayed, NEW m, NEW when,
           \E i \in DOMAIN tape : tape[i].mint = m /\ tape[i].at <= when
    PROVE  Price(m, when) \in Nat \ {0}
<1>1. Len(tape) \in Nat /\ DOMAIN tape = 1 .. Len(tape)
      /\ \A i \in DOMAIN tape : tape[i] \in Trade
  BY TapeTyped
<1>2. Observed(m, when) \in SUBSET (1 .. Len(tape)) /\ Observed(m, when) # {}
  BY <1>1 DEF Observed
<1>3. Max(Observed(m, when)) \in DOMAIN tape
  BY <1>1, <1>2, MaxIsGreatest
<1> QED
  BY <1>1, <1>3 DEF Price, LastSeen, Trade

\* While the history lasts, the event is one of its trades.
LEMMA EventTyped ==
    ASSUME Replayed, ~Ended
    PROVE  Event \in Trade /\ \E i \in DOMAIN tape : tape[i] = Event
<1>1. Len(tape) \in Nat /\ DOMAIN tape = 1 .. Len(tape)
      /\ \A i \in DOMAIN tape : tape[i] \in Trade
  BY TapeTyped
<1>2. step \in Nat \ {0} /\ step <= 2 * Len(tape)
  BY <1>1 DEF Replayed, TypeOK, Ended
<1>3. (step + 1) \div 2 \in 1 .. Len(tape)
  BY <1>1, <1>2
<1> QED
  BY <1>1, <1>3 DEF Event

\* The price of an open position's token is known.
LEMMA OpenPriced ==
    ASSUME Core, NEW r \in Open
    PROVE  /\ pos[r] \in Position /\ r \in ResIds
           /\ Price(pos[r].mint, clock) \in Nat \ {0}
<1>1. pos[r] \in Position /\ r \in ResIds
  BY DEF Core, Replayed, TypeOK, Open, NoPosition
<1> QED
  BY <1>1, PriceKnown DEF Core, PositionsSeen

\* The impact is at least 5 and at most 9900 basis points.
Impacts == 5 .. 9900

LEMMA ImpactInRange ==
    ASSUME NEW usd \in Int, depth \in Nat \ {0}
    PROVE  Impact(usd) \in Impacts
<1> DEFINE v == (12000 * usd) \div depth
<1>1. v \in Int
  OBVIOUS
<1>2. Impact(usd) = Clamp(v, 5, 9900)
  BY DEF Impact
<1> HIDE DEF v
<1>3. Clamp(v, 5, 9900) \in 5 .. 9900
  BY <1>1 DEF Clamp, Smaller
<1> QED
  BY <1>2, <1>3 DEF Impacts

-----------------------------------------------------------------------------
(* What is at work *)

AtWorkOK == AtWork \in [ResIds -> Nat]

\* Costs and holds are natural numbers.
LEMMA AtWorkNat == Replayed => AtWorkOK
<1> SUFFICES ASSUME Replayed, NEW r \in ResIds PROVE AtWork[r] \in Nat
  BY DEF AtWork, AtWorkOK
<1>1. r \in Open => pos[r].cost \in Nat
  BY DEF Replayed, TypeOK, Open, NoPosition, Position
<1>2. order # NoOrder => order.size \in Nat
  BY DEF Replayed, TypeOK, ApprovedOrder
<1> QED
  BY <1>1, <1>2 DEF AtWork

\* When what one reservation has at work changes, the total does by as much.
LEMMA OneCostMoves ==
    ASSUME Replayed, Replayed', NEW r \in ResIds,
           \A x \in ResIds \ {r} : AtWork'[x] = AtWork[x]
    PROVE  /\ SumFunction(AtWork)' = SumFunction(AtWork) - AtWork[r] + AtWork'[r]
           /\ SumFunction(AtWork) \in Nat /\ AtWork[r] \in Nat /\ AtWork'[r] \in Nat
           /\ AtWork[r] <= SumFunction(AtWork)
<1>1. AtWork \in [ResIds -> Nat] /\ AtWork' \in [ResIds -> Nat]
  <2>1. Replayed' => AtWorkOK'
    BY AtWorkNat, PTL
  <2> QED
    BY <2>1, AtWorkNat DEF AtWorkOK
<1>2. IsFiniteSet(ResIds)
  BY LedgerAssumption
<1> DEFINE f == AtWork  g == AtWork'
<1>3. SumFunction(AtWork) = SumFunctionOnSet(f, ResIds)
      /\ SumFunction(AtWork)' = SumFunctionOnSet(g, ResIds)
  BY DEF SumFunction, AtWork
<1> HIDE DEF f, g
<1>4. /\ SumFunctionOnSet(f, ResIds) \in Nat /\ f[r] <= SumFunctionOnSet(f, ResIds)
      /\ SumFunctionOnSet(g, ResIds) = SumFunctionOnSet(f, ResIds) - f[r] + g[r]
  <2>1. f \in [ResIds -> Nat] /\ g \in [ResIds -> Nat] /\ \A x \in ResIds \ {r} : g[x] = f[x]
    BY <1>1 DEF f, g
  <2>2. f[r] = (IF r \in ResIds THEN f[r] ELSE 0) /\ g[r] = (IF r \in ResIds THEN g[r] ELSE 0)
    OBVIOUS
  <2> QED
    BY <1>2, <2>1, <2>2, SumMoves
<1> QED
  BY <1>1, <1>3, <1>4 DEF f, g

\* What one open position cost is part of the deployed total.
LEMMA CostDeployed == ASSUME Core, NEW r \in Open PROVE pos[r].cost <= deployed
<1>1. r \in ResIds /\ AtWork[r] = pos[r].cost
  BY DEF Open, AtWork
<1>2. AtWork \in [ResIds -> Nat] /\ IsFiniteSet(ResIds)
  BY AtWorkNat, LedgerAssumption DEF Core, AtWorkOK
<1> DEFINE f == AtWork
<1>3. SumFunction(AtWork) = SumFunctionOnSet(f, ResIds)
  BY DEF SumFunction, AtWork
<1> HIDE DEF f
<1>4. f[r] <= SumFunctionOnSet(f, ResIds)
  <2>1. f \in [ResIds -> Nat] /\ f[r] = (IF r \in ResIds THEN f[r] ELSE 0)
    BY <1>1, <1>2 DEF f
  <2> QED
    BY <1>1, <1>2, <2>1, SumMoves
<1> QED
  BY <1>1, <1>3, <1>4 DEF Core, Balanced, f

-----------------------------------------------------------------------------
(* Visiting a position *)

\* What a visit may do to position r and the books.
Touched(r) ==
    /\ pos' \in [ResIds -> Position \cup {NoPosition}]
    /\ \A x \in ResIds \ {r} : pos'[x] = pos[x]
    /\ r \in Open' =>
          /\ pos'[r].mint = pos[r].mint /\ pos'[r].opened = pos[r].opened
          /\ pos'[r].entry = pos[r].entry /\ pos'[r].peak >= pos'[r].entry
          /\ pos'[r].cost <= pos[r].cost
    /\ deployed' = deployed - pos[r].cost + (IF r \in Open' THEN pos'[r].cost ELSE 0)
    /\ cash' + deployed' - realized' - exit_fees' = cash + deployed - realized - exit_fees
    /\ open_positions' = open_positions - (IF r \in Open' THEN 0 ELSE 1)
    /\ UNCHANGED <<equity, hwm, pending, reservation>>
    /\ {cash, deployed, realized, realized_today}' \subseteq Int /\ exit_fees' \in Nat
    /\ trades' \subseteq ClosedTrade /\ NeverClosesBeforeOpening'

\* The holding p is of the position q: marks may have changed it.
MarkOf(p, q) ==
    /\ p \in Position /\ p.peak >= p.entry
    /\ p.mint = q.mint /\ p.wallet = q.wallet /\ p.amount = q.amount /\ p.cost = q.cost
    /\ p.entry = q.entry /\ p.opened = q.opened

\* An intent that closes something.
Selling(intent) ==
    /\ intent.take \in 1 .. 100 /\ intent.rung \in {0} \cup DOMAIN Ladder
    /\ intent.reason \in Reasons

\* Storing the marks, without a sale, touches nothing else.
LEMMA MarksTouch ==
    ASSUME Core, NEW r \in Open, NEW p, MarkOf(p, pos[r]), pos' = [pos EXCEPT ![r] = p],
           UNCHANGED <<ledgerVars, trades, realized, exit_fees, clock>>
    PROVE  Touched(r) /\ r \in Open'
<1> USE DEF MarkOf
<1>1. /\ pos \in [ResIds -> Position \cup {NoPosition}] /\ r \in ResIds /\ pos[r] \in Position
      /\ {equity, cash, deployed, realized_today, hwm, realized} \subseteq Int
      /\ {open_positions, exit_fees} \subseteq Nat /\ trades \subseteq ClosedTrade
  BY OpenPriced DEF Core, Replayed, TypeOK
<1>2. pos' \in [ResIds -> Position \cup {NoPosition}] /\ pos'[r] = p
  BY <1>1
<1>3. r \in Open'
  BY <1>1, <1>2 DEF Open, Position
<1>4. p.cost \in Int /\ deployed' = deployed /\ pos[r].cost = p.cost
  BY DEF Position, ledgerVars
<1>5. NeverClosesBeforeOpening'
  BY DEF Core, NeverClosesBeforeOpening
<1> QED
  BY <1>1, <1>2, <1>3, <1>4, <1>5 DEF Touched, ledgerVars

\* A close releases what the sold part cost, and nothing disappears: not even
\* in the dust clamp, since the total is never below a position's cost.
LEMMA SaleTouches ==
    ASSUME Core, NEW r \in Open, NEW p, MarkOf(p, pos[r]), NEW intent, Selling(intent),
           Sold(r, p, intent), UNCHANGED clock
    PROVE  /\ Touched(r)
           /\ intent.take = 100 => r \notin Open'
           /\ r \in Open' => /\ pos'[r].armed = p.armed /\ pos'[r].peak = p.peak
                             /\ pos'[r].entry = p.entry
<1> USE DEF MarkOf
<1> DEFINE qty == Quantity(p, intent.take)
           mark == Price(p.mint, clock)
           cost == CostOf(p, qty)
           rest == p.amount - qty
<1>1. /\ pos \in [ResIds -> Position \cup {NoPosition}] /\ r \in ResIds /\ pos[r] \in Position
      /\ {equity, cash, deployed, realized_today, hwm, realized} \subseteq Int
      /\ {open_positions, exit_fees, clock} \subseteq Nat /\ trades \subseteq ClosedTrade
      /\ mark \in Nat \ {0} /\ depth \in Nat \ {0} /\ Fee \in Nat
  BY OpenPriced, BacktestAssumption DEF Core, Replayed, TypeOK
<1>2. p.amount \in Nat \ {0} /\ p.cost \in Nat /\ p.cost <= deployed /\ p.opened \in Nat
  BY CostDeployed DEF Position
<1>3. qty \in 0 .. p.amount /\ qty > 0 /\ (intent.take = 100 => qty = p.amount)
  BY <1>2, ShareTaken DEF Selling, Sold
<1> HIDE DEF qty, mark
<1>4. cost \in 0 .. p.cost /\ (qty = p.amount => cost = p.cost)
  BY <1>2, <1>3, ShareOfCost DEF CostOf
<1>5. PICK impact \in Quote(p.mint, Usd(qty, mark), clock) :
        LET proceeds == Usd(qty, (mark * (10000 - impact)) \div 10000)
            pnl == proceeds - (p.cost * qty) \div p.amount - Fee
        IN /\ ReleasePosition(p.mint, p.wallet, cost, pnl, proceeds, rest = 0)
           /\ realized' = realized + pnl /\ exit_fees' = exit_fees + Fee
  BY DEF Sold, qty, mark
<1> DEFINE proceeds == Usd(qty, (mark * (10000 - impact)) \div 10000)
           pnl == proceeds - cost - Fee
<1>6. impact \in 5 .. 9900
  <2> DEFINE u == Usd(qty, mark)
  <2>1. u \in Int
    BY <1>1, <1>2, <1>3 DEF Usd
  <2>2. impact = Impact(u)
    BY DEF Quote
  <2>3. depth \in Nat \ {0}
    BY <1>1
  <2> HIDE DEF u
  <2>4. Impact(u) \in Impacts
    BY <2>1, <2>3, ImpactInRange
  <2> QED
    BY <2>2, <2>4 DEF Impacts
<1>7. proceeds \in Int
  <2>1. mark * (10000 - impact) \in Int
    BY <1>1, <1>6
  <2>2. (mark * (10000 - impact)) \div 10000 \in Int
    BY <2>1
  <2>3. qty * ((mark * (10000 - impact)) \div 10000) \in Int
    BY <1>2, <1>3, <2>2
  <2> QED
    BY <2>3 DEF Usd
<1>8. /\ ReleasePosition(p.mint, p.wallet, cost, pnl, proceeds, rest = 0)
      /\ realized' = realized + pnl /\ exit_fees' = exit_fees + Fee
  BY <1>5 DEF CostOf
<1> HIDE DEF cost, proceeds
<1>9. pnl \in Int
  BY <1>1, <1>2, <1>4, <1>7
<1>10. deployed' = deployed - cost
  <2>1. deployed' = Clamped(deployed - cost)
    BY <1>8 DEF ReleasePosition
  <2>2. deployed - cost \in Int /\ deployed - cost >= 0 /\ Dollar \in Nat
    BY <1>1, <1>2, <1>4, LedgerAssumption
  <2> QED
    BY <2>1, <2>2 DEF Clamped
<1>11. /\ cash' = cash + proceeds /\ realized_today' = realized_today + pnl
       /\ open_positions' = IF rest = 0 THEN open_positions - 1 ELSE open_positions
       /\ UNCHANGED <<equity, hwm, pending, reservation>>
  BY <1>8 DEF ReleasePosition, marks
<1>12. /\ {cash, deployed, realized, realized_today}' \subseteq Int /\ exit_fees' \in Nat
       /\ cash' + deployed' - realized' - exit_fees' = cash + deployed - realized - exit_fees
  <2>1. cash' \in Int /\ deployed' \in Int /\ realized_today' \in Int
    BY <1>1, <1>2, <1>4, <1>7, <1>9, <1>10, <1>11
  <2>2. realized' \in Int /\ exit_fees' \in Nat
    BY <1>1, <1>8, <1>9
  <2>3. cash' + deployed' - realized' - exit_fees' = cash + deployed - realized - exit_fees
    BY <1>1, <1>2, <1>4, <1>7, <1>8, <1>10, <1>11
  <2> QED
    BY <2>1, <2>2, <2>3
<1>13. /\ trades' = trades \cup {[res |-> r, opened |-> p.opened, closed |-> clock,
                                  reason |-> intent.reason, rung |-> intent.rung]}
       /\ pos' = [pos EXCEPT ![r] = IF rest = 0 THEN NoPosition
                     ELSE [p EXCEPT !.amount = rest, !.cost = @ - cost,
                                    !.rungs = @ \cup ({intent.rung} \ {0})]]
  BY DEF Sold, cost, qty
<1>14. trades' \subseteq ClosedTrade /\ NeverClosesBeforeOpening'
  <2>1. intent.rung \in Nat
    BY ExitRulesAssumption DEF Selling
  <2>2. [res |-> r, opened |-> p.opened, closed |-> clock,
         reason |-> intent.reason, rung |-> intent.rung] \in ClosedTrade
    BY <1>1, <1>2, <2>1 DEF Selling, ClosedTrade
  <2>3. p.opened <= clock
    BY DEF Core, PositionsSeen
  <2> QED
    BY <1>1, <1>13, <2>2, <2>3 DEF Core, NeverClosesBeforeOpening
<1>15. CASE rest = 0
  <2>1. pos' = [pos EXCEPT ![r] = NoPosition]
    BY <1>13, <1>15
  <2>2. r \notin Open' /\ pos' \in [ResIds -> Position \cup {NoPosition}]
    BY <1>1, <2>1 DEF Open, NoPosition
  <2>3. cost = p.cost
    BY <1>2, <1>3, <1>4, <1>15
  <2> QED
    BY <1>1, <1>2, <1>10, <1>11, <1>12, <1>14, <1>15, <2>1, <2>2, <2>3 DEF Touched
<1>16. CASE rest # 0
  <2> DEFINE q == [p EXCEPT !.amount = rest, !.cost = @ - cost,
                            !.rungs = @ \cup ({intent.rung} \ {0})]
  <2>1. pos' = [pos EXCEPT ![r] = q]
    BY <1>13, <1>16
  <2>2. rest \in Nat \ {0} /\ p.cost - cost \in Nat /\ intent.take # 100
    BY <1>2, <1>3, <1>4, <1>16
  <2>3. q.rungs \in SUBSET DOMAIN Ladder
    BY DEF Selling, Position
  <2>4. /\ q \in Position /\ q.amount = rest /\ q.cost = p.cost - cost /\ q.mint = p.mint
        /\ q.opened = p.opened /\ q.entry = p.entry /\ q.peak = p.peak /\ q.armed = p.armed
    BY <2>2, <2>3 DEF Position
  <2> HIDE DEF q
  <2>5. pos'[r] = q /\ r \in Open' /\ pos' \in [ResIds -> Position \cup {NoPosition}]
    BY <1>1, <2>1, <2>2, <2>4 DEF Open
  <2> QED
    BY <1>1, <1>2, <1>4, <1>10, <1>11, <1>12, <1>14, <1>16, <2>1, <2>2, <2>4, <2>5 DEF Touched
<1> QED
  BY <1>15, <1>16

\* A close, whether it comes to something or not: told to sell everything, it
\* leaves no position or one that could not be sold.
LEMMA CloseTouches ==
    ASSUME Core, NEW r \in Open, NEW p, MarkOf(p, pos[r]), NEW intent, Selling(intent),
           Close(r, p, intent), UNCHANGED clock
    PROVE  /\ Touched(r)
           /\ \A x \in ResIds \ {r} : x \in unsold' <=> x \in unsold
           /\ intent.take = 100 /\ r \in Open' => r \in unsold'
           /\ r \in Open' => /\ pos'[r].armed = p.armed /\ pos'[r].peak = p.peak
                             /\ pos'[r].entry = p.entry
<1>1. CASE Sold(r, p, intent)
  <2>1. /\ Touched(r)
        /\ intent.take = 100 => r \notin Open'
        /\ r \in Open' => /\ pos'[r].armed = p.armed /\ pos'[r].peak = p.peak
                          /\ pos'[r].entry = p.entry
    BY <1>1, SaleTouches
  <2>2. unsold' = unsold \ {r}
    BY <1>1 DEF Sold
  <2> QED
    BY <2>1, <2>2
<1>2. CASE NotSold(r, p, intent)
  <2>1. Touched(r) /\ r \in Open'
    BY <1>2, MarksTouch DEF NotSold
  <2>2. pos'[r] = p
    BY <1>2, OpenPriced DEF NotSold, Core, Replayed, TypeOK
  <2>3. intent.take = 100 => r \in unsold'
    <3>1. p.amount \in Nat \ {0}
      BY DEF MarkOf, Position
    <3>2. intent.take = 100 => Quantity(p, intent.take) > 0
      BY <3>1 DEF Quantity
    <3> QED
      BY <1>2, <3>2 DEF NotSold
  <2>4. \A x \in ResIds \ {r} : x \in unsold' <=> x \in unsold
    BY <1>2 DEF NotSold
  <2> QED
    BY <2>1, <2>2, <2>3, <2>4
<1> QED
  BY <1>1, <1>2 DEF Close

\* The position a loop visits next is open.
LEMMA VisitsOpen ==
    ASSUME Core, NEW loop, NEW r \in ResIds, Visit(loop, r)
    PROVE  r \in todo /\ r \in Open
<1>1. todo \in SUBSET Open
  BY DEF Core, Replayed, TypeOK
<1>2. todo \in SUBSET Nat /\ todo # {}
  BY <1>1, BacktestAssumption DEF Visit, Open
<1>3. r \in todo
  BY <1>2, MinIsLeast DEF Visit
<1> QED
  BY <1>1, <1>3

\* A visit that touches one position only keeps everything else true.
LEMMA VisitKeeps ==
    ASSUME Core, NEW loop, NEW r \in ResIds, Visit(loop, r), Touched(r)
    PROVE  Core' /\ Open' \ {r} = Open \ {r}
<1> USE DEF Visit
<1>1. r \in Open /\ r \in todo
  BY VisitsOpen
<1>2. Open \in SUBSET ResIds /\ Open' \in SUBSET ResIds
  BY DEF Open
<1>3. Open' \ {r} = Open \ {r}
  BY DEF Open, Touched
<1>4. \A x \in Open' : pos'[x].mint = pos[x].mint /\ pos'[x].opened = pos[x].opened
                       /\ pos'[x].entry = pos[x].entry /\ x \in Open
  BY <1>1, <1>2, <1>3 DEF Touched
<1>5. Replayed'
  <2>1. {equity, cash, deployed, realized_today, hwm, realized}' \subseteq Int
    BY DEF Core, Replayed, TypeOK, Touched
  <2>2. {open_positions, pending, clock, step, exit_fees}' \subseteq Nat
    <3>1. open_positions' \in Nat
      <4>1. open_positions = Cardinality(Open) /\ IsFiniteSet(Open)
        BY <1>2, LedgerAssumption, FS_Subset DEF Core, Balanced
      <4>2. Cardinality(Open) \in Nat /\ Cardinality(Open \ {r}) = Cardinality(Open) - 1
            /\ Cardinality(Open \ {r}) \in Nat
        BY <1>1, <4>1, FS_CardinalityType, FS_RemoveElement
      <4> QED
        BY <4>1, <4>2 DEF Touched
    <3> QED
      BY <3>1 DEF Core, Replayed, TypeOK, Touched
  <2>3. todo' \subseteq Open'
    BY <1>3 DEF Core, Replayed, TypeOK
  <2>4. \A x \in Open' : pos'[x].peak >= pos'[x].entry
    <3> SUFFICES ASSUME NEW x \in Open' PROVE pos'[x].peak >= pos'[x].entry
      OBVIOUS
    <3>1. CASE x = r
      BY <3>1 DEF Touched
    <3>2. CASE x # r
      <4>1. pos'[x] = pos[x] /\ x \in Open
        BY <1>2, <1>4, <3>2 DEF Touched
      <4> QED
        BY <4>1 DEF Core, Replayed, TypeOK
    <3> QED
      BY <3>1, <3>2
  <2>5. KeysTypeOK'
    BY DEF Core, Replayed, TypeOK, KeysTypeOK, keyVars
  <2>6. TypeOK'
    BY <2>1, <2>2, <2>3, <2>4, <2>5 DEF Core, Replayed, TypeOK, Touched
  <2> QED
    BY <2>6 DEF Core, Replayed, Touched, replay
<1>6. InTime'
  BY DEF Core, InTime, Event, Ended, replay
<1>7. PositionsSeen'
  BY <1>4 DEF Core, PositionsSeen, replay
<1>8. EntryHeld'
  BY <1>4, <1>2 DEF Core, EntryHeld, Touched
<1>9. Balanced'
  <2>1. \A x \in ResIds \ {r} : AtWork'[x] = AtWork[x]
    BY <1>3 DEF AtWork, Touched
  <2>2. AtWork[r] = pos[r].cost /\ AtWork'[r] = IF r \in Open' THEN pos'[r].cost ELSE 0
    BY <1>1 DEF AtWork, Core, EntryHeld
  <2>3. /\ SumFunction(AtWork)' = SumFunction(AtWork) - AtWork[r] + AtWork'[r]
        /\ SumFunction(AtWork) \in Nat /\ AtWork[r] \in Nat /\ AtWork'[r] \in Nat
    BY <1>5, <2>1, OneCostMoves DEF Core
  <2>4. deployed' = SumFunction(AtWork)'
    BY <2>2, <2>3 DEF Core, Balanced, Touched
  <2>5. cash' + deployed' = Capital + realized' + exit_fees'
    <3>1. /\ cash \in Int /\ deployed \in Int /\ realized \in Int /\ exit_fees \in Int
          /\ cash' \in Int /\ deployed' \in Int /\ realized' \in Int /\ exit_fees' \in Int
          /\ Capital \in Int
      BY LedgerAssumption DEF Core, Replayed, TypeOK, Touched
    <3>2. cash + deployed = Capital + realized + exit_fees
      BY DEF Core, Balanced
    <3>3. cash' + deployed' - realized' - exit_fees'
            = cash + deployed - realized - exit_fees
      BY DEF Touched
    <3> HIDE DEF Visit
    <3>4. Capital = cash + deployed - realized - exit_fees
      BY <3>1, <3>2
    <3>5. Capital = cash' + deployed' - realized' - exit_fees'
      BY <3>3, <3>4
    <3> QED
      BY <3>1, <3>5
  <2>6. open_positions' = Cardinality(Open')
    <3>1. IsFiniteSet(Open) /\ Cardinality(Open) \in Nat
      BY <1>2, LedgerAssumption, FS_Subset, FS_CardinalityType
    <3>2. Cardinality(Open \ {r}) = Cardinality(Open) - 1
      BY <1>1, <3>1, FS_RemoveElement
    <3>3. CASE r \in Open'
      <4>1. Open' = Open
        BY <1>1, <1>3, <3>3
      <4> QED
        BY <3>1, <3>3, <4>1 DEF Core, Balanced, Touched
    <3>4. CASE r \notin Open'
      <4>1. Open' = Open \ {r}
        BY <1>3, <3>4
      <4> QED
        BY <3>1, <3>2, <3>4, <4>1 DEF Core, Balanced, Touched
    <3> QED
      BY <3>3, <3>4
  <2> QED
    BY <2>4, <2>5, <2>6 DEF Core, Balanced, Touched
<1> QED
  BY <1>3, <1>5, <1>6, <1>7, <1>8, <1>9 DEF Core, Touched

-----------------------------------------------------------------------------
(* The steps *)

Places == {"advance", "trade", "fill", "mirror", "ticks", "mark", "liquidate", "done"}

\* A step that touches no position, no entry and no money, but for the mark.
Plain ==
    /\ UNCHANGED <<money, counters, reservation, realized_today, keyVars, replay, order, pos,
                   trades, realized, exit_fees>>
    /\ {equity, hwm}' \subseteq Int
    /\ clock' \in Nat /\ clock' >= clock /\ step' \in Nat \ {0}
    /\ pc' \in Places /\ (pc' = "fill" <=> pc = "fill")
    /\ todo' \subseteq Open

\* Such a step keeps everything but what depends on the time.
LEMMA PlainKeeps == ASSUME Core, Plain, InTime' PROVE Core'
<1> USE DEF Plain
<1>1. Open' = Open
  BY DEF Open
<1>2. Replayed'
  <2>1. KeysTypeOK'
    BY DEF Core, Replayed, TypeOK, KeysTypeOK, keyVars
  <2>2. TypeOK'
    BY <1>1, <2>1 DEF Core, Replayed, TypeOK, money, counters, Places
  <2> QED
    BY <2>2 DEF Core, Replayed, replay
<1>3. PositionsSeen'
  <2> SUFFICES ASSUME NEW r \in Open
      PROVE  /\ pos[r].opened <= clock' /\ pos[r].entry > 0
             /\ \E i \in DOMAIN tape : tape[i].mint = pos[r].mint /\ tape[i].at <= clock'
    BY <1>1 DEF PositionsSeen, replay
  <2>1. clock \in Nat /\ pos[r].opened <= clock /\ pos[r].entry > 0 /\ pos[r].opened \in Nat
    BY OpenPriced DEF Core, Replayed, TypeOK, PositionsSeen, Position
  <2>2. PICK i \in DOMAIN tape : tape[i].mint = pos[r].mint /\ tape[i].at <= clock
    BY DEF Core, PositionsSeen
  <2>3. tape[i].at \in Nat
    BY <2>2, TapeTyped DEF Core, Trade
  <2> QED
    BY <2>1, <2>2, <2>3
<1>4. EntryHeld'
  BY <1>1 DEF Core, EntryHeld
<1>5. Balanced'
  <2>1. SumFunction(AtWork)' = SumFunction(AtWork)
    BY <1>1 DEF AtWork
  <2> QED
    BY <1>1, <2>1 DEF Core, Balanced, money, counters
<1>6. NeverClosesBeforeOpening'
  BY DEF Core, NeverClosesBeforeOpening
<1> QED
  BY <1>2, <1>3, <1>4, <1>5, <1>6 DEF Core

\* What the lemmas on the steps need of Core.
LEMMA CoreTyped ==
    ASSUME Core
    PROVE  /\ {equity, cash, deployed, realized_today, hwm, realized} \subseteq Int
           /\ {open_positions, pending, clock, exit_fees} \subseteq Nat /\ step \in Nat \ {0}
           /\ pc \in Places /\ todo \subseteq Open
           /\ DetectionLatency \in Nat /\ Capital \in Nat
           /\ Open \in SUBSET ResIds
           /\ ~Ended => Event \in Trade
<1>1. DetectionLatency \in Nat /\ Capital \in Nat
  BY BacktestAssumption, LedgerAssumption
<1>2. ~Ended => Event \in Trade
  BY EventTyped DEF Core
<1>3. Open \in SUBSET ResIds
  BY DEF Open
<1> QED
  BY <1>1, <1>2, <1>3 DEF Core, Replayed, TypeOK, Places

\* The clock is set to the time of the event or stays ahead of it.
LEMMA NextEventKeeps == ASSUME Core, NextEvent PROVE Core' /\ Visited'
<1> USE DEF NextEvent
<1>1. Event.at \in Nat /\ clock \in Nat
  BY CoreTyped DEF Trade
<1>2. clock' \in Nat /\ clock' >= clock /\ Event.at <= clock'
  BY <1>1 DEF AdvanceClock
<1>3. Event' = Event /\ Ended' = Ended /\ Open' = Open
  BY DEF Event, Ended, Open, replay
<1>4. InTime'
  BY <1>2, <1>3 DEF InTime
<1>5. Plain
  BY <1>2, CoreTyped DEF Plain, Places, ledgerVars, money, counters, marks
<1> QED
  BY <1>3, <1>4, <1>5, PlainKeeps DEF Visited

\* The replay is over.
LEMMA LastEventKeeps == ASSUME Core, LastEvent PROVE Core' /\ Visited'
<1> USE DEF LastEvent
<1>1. Ended' = Ended /\ Open' = Open
  BY DEF Ended, Open, replay
<1>2. InTime'
  BY <1>1 DEF InTime
<1>3. Plain
  BY CoreTyped DEF Plain, Places, ledgerVars, money, counters, marks
<1> QED
  BY <1>1, <1>2, <1>3, PlainKeeps DEF Visited

\* A sale of a source, and a purchase nobody copies.
LEMMA TradeKeeps == ASSUME Core, SourceSells \/ Skip PROVE Core' /\ Visited'
<1> USE DEF SourceSells, Skip
<1>1. Event' = Event /\ Ended' = Ended /\ Open' = Open
  BY DEF Event, Ended, Open, replay
<1>2. InTime'
  BY <1>1 DEF Core, InTime
<1>3. Plain
  BY CoreTyped DEF Plain, Places, ledgerVars, money, counters, marks
<1> QED
  BY <1>1, <1>2, <1>3, PlainKeeps DEF Visited

\* A loop is over: everything in it has been visited.
LEMMA EndOfLoopKeeps == ASSUME Core, Visited, EndOfLoop PROVE Core' /\ Visited'
<1> USE DEF EndOfLoop
<1>1. Event' = Event /\ Ended' = Ended /\ Open' = Open
  BY DEF Event, Ended, Open, replay
<1>2. InTime'
  BY <1>1 DEF Core, InTime
<1>3. Plain
  BY CoreTyped DEF Plain, Places, ledgerVars, money, counters, marks
<1>4. Visited'
  <2>1. CASE pc = "mirror"
    BY <1>1, <2>1 DEF Visited
  <2>2. CASE pc = "ticks"
    <3>1. ~Ended /\ \A r \in Open \ unsold : Spared(r)
      BY <2>2 DEF Core, InTime, Visited
    <3>2. \A r \in Open \ unsold : Spared(r)'
      BY <3>1 DEF Spared, Stale, LastSeen, Observed, Price, replay
    <3> QED
      BY <1>1, <2>2, <3>1, <3>2 DEF Visited
  <2>3. CASE pc = "liquidate"
    BY <1>1, <2>3 DEF Core, InTime, Visited
  <2> QED
    BY <2>1, <2>2, <2>3
<1> QED
  BY <1>2, <1>3, <1>4, PlainKeeps

\* What the open positions have gained is a number.
LEMMA GainTyped == ASSUME Core PROVE SumFunction(Gain) \in Int
<1> DEFINE f == Gain
<1>1. f \in [ResIds -> Int]
  <2> SUFFICES ASSUME NEW r \in Open
      PROVE  Usd(pos[r].amount, Price(pos[r].mint, clock)) - pos[r].cost \in Int
    BY DEF Gain
  <2>1. /\ pos[r].amount \in Nat /\ pos[r].cost \in Nat
        /\ Price(pos[r].mint, clock) \in Nat
    BY OpenPriced DEF Position
  <2> QED
    BY <2>1 DEF Usd
<1>2. SumFunction(Gain) = SumFunctionOnSet(f, ResIds)
  BY DEF SumFunction, Gain
<1> HIDE DEF f
<1>3. SumFunctionOnSet(f, ResIds) \in Int
  BY <1>1, LedgerAssumption, SumInt
<1> QED
  BY <1>2, <1>3

\* Marking the book changes no position; then the next event, or the end.
LEMMA MarkBookKeeps == ASSUME Core, Visited, MarkBook PROVE Core' /\ Visited'
<1> USE DEF MarkBook
<1>1. Open' = Open /\ tape' = tape
  BY DEF Open, replay
<1>2. \/ Ended /\ pc' = "done" /\ step' = step
      \/ ~Ended /\ pc' = "advance" /\ step' = step + 1
  OBVIOUS
<1>3. Ended => Ended'
  BY <1>1, <1>2 DEF Ended
<1>4. InTime'
  BY <1>2, <1>3 DEF InTime
<1>5. Plain
  <2>1. {equity, hwm}' \subseteq Int
    BY GainTyped, CoreTyped DEF Mark
  <2> QED
    BY <1>2, <2>1, CoreTyped DEF Plain, Places, Mark, money, counters
<1>6. Visited'
  BY <1>1, <1>2 DEF Visited
<1> QED
  BY <1>4, <1>5, <1>6, PlainKeeps

\* Nothing at all happens.
LEMMA StutterKeeps == ASSUME Core, Visited, UNCHANGED vars PROVE Core' /\ Visited'
<1> USE DEF vars, btVars, replay, keyVars
<1>1. Open' = Open /\ Ended' = Ended /\ Event' = Event
  BY DEF Open, Ended, Event
<1>2. InTime'
  BY <1>1 DEF Core, InTime
<1>3. Plain
  BY CoreTyped DEF Plain, ledgerVars, money, counters, marks
<1>4. Visited'
  BY <1>1 DEF Visited, Spared, Stale, LastSeen, Observed, Price
<1> QED
  BY <1>2, <1>3, <1>4, PlainKeeps

\* The entry under way.
LEMMA OrderTyped ==
    ASSUME Core, pc = "fill"
    PROVE  /\ order \in ApprovedOrder /\ order # NoOrder /\ order.res \in ResIds \ Open
           /\ order.price > 0 /\ order.size \in Nat /\ order.price \in Nat
           /\ reservation[order.res] \in Live
           /\ reservation[order.res].state = "held" /\ reservation[order.res].usd = order.size
           /\ ~Ended /\ Event \in Trade
<1>1. /\ order \in ApprovedOrder /\ order # NoOrder /\ order.res \in ResIds \ Open
      /\ order.price > 0
      /\ reservation[order.res].state = "held" /\ reservation[order.res].usd = order.size
  BY DEF Core, Replayed, TypeOK, EntryHeld
<1>2. order.size \in Nat /\ order.price \in Nat
  BY <1>1 DEF ApprovedOrder
<1>3. reservation[order.res] \in Live
  BY <1>1 DEF Core, Replayed, Unborn, Gone
<1>4. ~Ended /\ Event \in Trade
  BY CoreTyped DEF Core, InTime
<1> QED
  BY <1>1, <1>2, <1>3, <1>4

\* The hold of an entry that failed is given back.
LEMMA FillFailsKeeps == ASSUME Core, FillFails PROVE Core' /\ Visited'
<1> USE DEF FillFails
<1> DEFINE res == order.res
<1>1. /\ order \in ApprovedOrder /\ order # NoOrder /\ res \in ResIds \ Open
      /\ reservation[res].usd = order.size /\ order.size \in Nat
      /\ ~Ended /\ Event \in Trade
  BY OrderTyped
<1>2. Open' = Open /\ Event' = Event /\ Ended' = Ended
  BY DEF Open, Event, Ended, replay
<1>3. /\ deployed' = deployed - order.size /\ cash' = cash + order.size /\ pending' = pending - 1
      /\ reservation' = [reservation EXCEPT ![res] = Gone]
      /\ UNCHANGED <<equity, hwm, realized_today, open_positions>>
  BY <1>1 DEF Release, marks
<1>4. pending = 1
  BY DEF Core, Balanced
<1>5. reservation' \in [ResIds -> {Unborn, Gone} \cup Live]
      /\ \A x \in Open : reservation'[x] = reservation[x]
  BY <1>1, <1>3 DEF Core, Replayed
<1>6. Replayed'
  <2>1. KeysTypeOK'
    BY DEF Core, Replayed, TypeOK, KeysTypeOK, keyVars
  <2>2. TypeOK'
    BY <1>1, <1>2, <1>3, <1>4, <2>1 DEF Core, Replayed, TypeOK
  <2> QED
    BY <1>5, <2>2 DEF Core, Replayed, replay
<1>7. InTime'
  BY <1>2 DEF Core, InTime
<1>8. PositionsSeen'
  BY <1>2 DEF Core, PositionsSeen, replay
<1>9. EntryHeld'
  BY <1>2, <1>5 DEF Core, EntryHeld
<1>10. Balanced'
  <2>1. \A x \in ResIds \ {res} : AtWork'[x] = AtWork[x]
    BY <1>1, <1>2 DEF AtWork
  <2>2. AtWork[res] = order.size /\ AtWork'[res] = 0
    BY <1>1, <1>2 DEF AtWork
  <2>3. SumFunction(AtWork)' = SumFunction(AtWork) - AtWork[res] + AtWork'[res]
        /\ SumFunction(AtWork) \in Nat
    BY <1>1, <1>6, <2>1, OneCostMoves DEF Core
  <2>4. deployed' = SumFunction(AtWork)'
    BY <1>1, <1>3, <2>2, <2>3 DEF Core, Balanced
  <2>5. cash' + deployed' = Capital + realized' + exit_fees'
    BY <1>1, <1>3, CoreTyped DEF Core, Balanced
  <2> QED
    BY <1>2, <1>3, <1>4, <2>4, <2>5 DEF Core, Balanced
<1>11. NeverClosesBeforeOpening'
  BY DEF Core, NeverClosesBeforeOpening
<1>12. Visited'
  BY <1>2 DEF Visited
<1> QED
  BY <1>6, <1>7, <1>8, <1>9, <1>10, <1>11, <1>12 DEF Core

\* The entry becomes a position: what it costs was held already.
LEMMA FillKeeps == ASSUME Core, Fill PROVE Core' /\ Visited'
<1> USE DEF Fill
<1> DEFINE res == order.res
           p == [mint |-> Event.mint, wallet |-> Copied,
                 amount |-> Amount(order.size, order.price),
                 cost |-> order.size, entry |-> order.price, peak |-> order.price,
                 armed |-> FALSE, rungs |-> {}, opened |-> clock]
<1>1. /\ order \in ApprovedOrder /\ order # NoOrder /\ res \in ResIds \ Open
      /\ order.size \in Nat /\ order.price \in Nat /\ order.price > 0
      /\ reservation[res] \in Live /\ reservation[res].usd = order.size
      /\ ~Ended /\ Event \in Trade
  BY OrderTyped
<1>2. p \in Position /\ p.amount > 0
  <2>1. (order.size * 10000) \div order.price \in Int
    BY <1>1
  <2>2. Amount(order.size, order.price) \in Nat \ {0}
    BY <2>1 DEF Amount
  <2>3. Event.mint \in Mints /\ Copied \in Wallets /\ clock \in Nat
    BY <1>1, TapeTyped, CoreTyped DEF Core, Trade
  <2> QED
    BY <1>1, <2>2, <2>3 DEF Position
<1>3. pos' = [pos EXCEPT ![res] = p] /\ pos \in [ResIds -> Position \cup {NoPosition}]
  BY DEF Core, Replayed, TypeOK
<1>4. /\ p.mint = Event.mint /\ p.opened = clock /\ p.entry = order.price
      /\ p.peak = order.price /\ p.cost = order.size
  OBVIOUS
<1> HIDE DEF p
<1>5. /\ pos' \in [ResIds -> Position \cup {NoPosition}] /\ pos'[res] = p
      /\ \A x \in ResIds \ {res} : pos'[x] = pos[x]
  BY <1>1, <1>2, <1>3
<1>6. Open' = Open \cup {res} /\ Event' = Event /\ Ended' = Ended
  BY <1>1, <1>2, <1>5 DEF Open, Event, Ended, replay
<1>7. /\ deployed' = deployed /\ cash' = cash /\ pending' = pending - 1
      /\ open_positions' = open_positions + 1
      /\ reservation' = [reservation EXCEPT ![res].state = "committed", ![res].usd = order.size]
      /\ UNCHANGED <<equity, hwm, realized_today>>
  BY <1>1, CoreTyped DEF Commit, marks
<1>8. pending = 1
  BY DEF Core, Balanced
<1>9. /\ reservation' \in [ResIds -> {Unborn, Gone} \cup Live]
      /\ \A x \in Open' : reservation'[x] # Unborn
  <2> DEFINE q == [reservation[res] EXCEPT !.state = "committed", !.usd = order.size]
  <2>1. q \in Live /\ q.state = "committed"
    BY <1>1 DEF Live
  <2>2. reservation' = [reservation EXCEPT ![res] = q]
    BY <1>7
  <2>3. q # Unborn
    BY <2>1 DEF Unborn
  <2> HIDE DEF q
  <2> QED
    BY <1>1, <1>6, <2>1, <2>2, <2>3 DEF Core, Replayed, EntryHeld, Open
<1>10. Replayed'
  <2>1. KeysTypeOK'
    BY DEF Core, Replayed, TypeOK, KeysTypeOK, keyVars
  <2>2. \A x \in Open' : pos'[x].peak >= pos'[x].entry
    <3>1. \A x \in Open : pos'[x] = pos[x]
      BY <1>1, <1>5, CoreTyped
    <3>2. p.peak >= p.entry
      BY <1>1, <1>4
    <3> QED
      BY <1>5, <1>6, <3>1, <3>2 DEF Core, Replayed, TypeOK
  <2>3. TypeOK'
    BY <1>1, <1>5, <1>6, <1>7, <1>8, <2>1, <2>2 DEF Core, Replayed, TypeOK
  <2> QED
    BY <1>9, <2>3 DEF Core, Replayed, replay
<1>11. InTime'
  BY <1>6 DEF Core, InTime
<1>12. PositionsSeen'
  <2> SUFFICES ASSUME NEW x \in Open'
      PROVE  /\ pos'[x].opened <= clock /\ pos'[x].entry > 0
             /\ \E i \in DOMAIN tape : tape[i].mint = pos'[x].mint /\ tape[i].at <= clock
    BY DEF PositionsSeen, replay
  <2>1. CASE x = res
    <3>1. \E i \in DOMAIN tape : tape[i] = Event
      BY <1>1, EventTyped DEF Core
    <3>2. Event.at <= clock /\ clock <= clock
      BY CoreTyped DEF Core, InTime
    <3> QED
      BY <1>1, <1>4, <1>5, <2>1, <3>1, <3>2
  <2>2. CASE x # res
    <3>1. x \in Open /\ pos'[x] = pos[x]
      BY <1>5, <1>6, <2>2, CoreTyped
    <3> QED
      BY <3>1 DEF Core, PositionsSeen
  <2> QED
    BY <2>1, <2>2
<1>13. EntryHeld'
  BY <1>9 DEF EntryHeld
<1>14. Balanced'
  <2>1. \A x \in ResIds \ {res} : AtWork'[x] = AtWork[x]
    BY <1>1, <1>5, <1>6 DEF AtWork
  <2>2. AtWork[res] = order.size /\ AtWork'[res] = order.size
    BY <1>1, <1>4, <1>5, <1>6 DEF AtWork
  <2>3. SumFunction(AtWork)' = SumFunction(AtWork) - AtWork[res] + AtWork'[res]
        /\ SumFunction(AtWork) \in Nat
    BY <1>1, <1>10, <2>1, OneCostMoves DEF Core
  <2>4. deployed' = SumFunction(AtWork)'
    BY <1>1, <1>7, <2>2, <2>3 DEF Core, Balanced
  <2>5. Cardinality(Open') = Cardinality(Open) + 1
    <3>1. IsFiniteSet(Open)
      BY CoreTyped, LedgerAssumption, FS_Subset
    <3> QED
      BY <1>1, <1>6, <3>1, FS_AddElement
  <2> QED
    BY <1>7, <1>8, <2>4, <2>5 DEF Core, Balanced
<1>15. NeverClosesBeforeOpening'
  BY DEF Core, NeverClosesBeforeOpening
<1>16. Visited'
  BY <1>6 DEF Visited
<1> QED
  BY <1>10, <1>11, <1>12, <1>13, <1>14, <1>15, <1>16 DEF Core

\* What the decision engine sees at a time the event has come.
LEMMA CandidateTyped ==
    ASSUME Core, ~Ended, NEW now \in Nat, Event.at <= now,
           NEW c, c = Candidate(now)
    PROVE  /\ c.trader \in Profile /\ c.source_usd \in Nat /\ c.liquidity \in Nat
           /\ c.price \in Nat \ {0} /\ c.impact \in Impacts
           /\ c.trader = trader /\ c.liquidity = depth /\ c.confirmations = 0
<1> DEFINE bare == [action |-> "buy", trader |-> trader, source_price |-> Event.price,
                    source_usd |-> depth \div 40, age |-> now - Event.at,
                    stale |-> Stale(Event.mint, now), price |-> Price(Event.mint, now),
                    liquidity |-> depth,
                    market_cap |-> 0,
                    token_age |-> now - FirstSeen(Event.mint, now).at,
                    risk |-> [unknown |-> FALSE, honeypot |-> FALSE, score |-> 15],
                    insider |-> FALSE, sol_price |-> 150, impact |-> 0, confirmations |-> 0]
           size == FinalSize(bare, Portfolio, One, sizing, rules)
<1>1. depth \in Nat \ {0} /\ trader \in Profile /\ sizing \in SizingMode
  BY BacktestAssumption DEF Core, Replayed, SizingMode
<1>2. Price(Event.mint, now) \in Nat \ {0}
  <2>1. \E i \in DOMAIN tape : tape[i].mint = Event.mint /\ tape[i].at <= now
    BY EventTyped DEF Core
  <2> QED
    BY <2>1, PriceKnown DEF Core
<1>3. depth \div 40 \in Nat
  BY <1>1
<1>4. c = [bare EXCEPT !.impact = Impact(size)]
  BY DEF Candidate
<1>5. size \in Int
  <2>1. bare.trader \in Profile /\ bare.source_usd \in Nat
    BY <1>1, <1>3
  <2>2. Portfolio.equity \in Int /\ Portfolio.cash \in Int
    BY CoreTyped DEF Portfolio
  <2>3. One \in Ratio
    BY DEF One, Ratio
  <2> HIDE DEF bare
  <2>4. size \in Nat
    BY <1>1, <2>1, <2>2, <2>3, FinalSizeType
  <2> HIDE DEF size
  <2> QED
    BY <2>4
<1> HIDE DEF size
<1>6. Impact(size) \in Impacts
  BY <1>1, <1>5, ImpactInRange
<1>7. /\ c.trader = trader /\ c.source_usd = depth \div 40 /\ c.liquidity = depth
      /\ c.price = Price(Event.mint, now) /\ c.impact = Impact(size) /\ c.confirmations = 0
  BY <1>4
<1> HIDE DEF bare
<1> QED
  BY <1>1, <1>2, <1>3, <1>6, <1>7

\* What a price becomes with a mark-up is still a price.
LEMMA PriceStays ==
    ASSUME NEW price \in Nat \ {0}, NEW impact \in Impacts
    PROVE  (price * (10000 + impact + 14)) \div 10000 \in Nat \ {0}
<1> DEFINE k == 10000 + impact + 14
<1>1. k \in Nat /\ k >= 10000
  BY DEF Impacts
<1> HIDE DEF k
<1>2. price * k \in Nat /\ price * k >= k
  BY <1>1
<1> DEFINE v == price * k
<1> HIDE DEF v
<1>3. v \in Nat /\ v >= 10000
  BY <1>1, <1>2 DEF v
<1>4. v \div 10000 \in Nat \ {0}
  BY <1>3
<1> QED
  BY <1>4 DEF v, k

\* An entry is refused, or its size is held.
LEMMA SourceBuysKeeps == ASSUME Core, SourceBuys PROVE Core' /\ Visited'
<1> DEFINE now == AdvanceClock(Event.at + DetectionLatency)
           c == Candidate(now)
           size == EvaluateEntry(c, Portfolio, sizing, rules).size
<1>1. /\ pc = "trade" /\ clock' = now
      /\ IF size > 0 /\ Grantable(Event.mint, Copied, size)
         THEN /\ \E r \in ResIds :
                    /\ NextRes(r) /\ Reserve(r, Event.mint, Copied, size)
                    /\ order' = [size |-> size, res |-> r,
                                 price |-> (c.price * (10000 + c.impact + 14)) \div 10000]
              /\ pc' = "fill" /\ UNCHANGED todo
         ELSE /\ pc' = "ticks" /\ todo' = Open
              /\ UNCHANGED <<ledgerVars, order>>
      /\ UNCHANGED <<keyVars, replay, step, pos, trades, realized, exit_fees, unsold>>
  BY DEF SourceBuys
<1>2. ~Ended /\ Event.at <= clock /\ Event \in Trade /\ clock \in Nat
  BY <1>1, CoreTyped DEF Core, InTime
<1>3. now \in Nat /\ now >= clock /\ Event.at <= now
  BY <1>2, CoreTyped DEF AdvanceClock, Trade
<1> HIDE DEF now
<1>4. /\ c.trader \in Profile /\ c.source_usd \in Nat /\ c.liquidity \in Nat
      /\ c.price \in Nat \ {0} /\ c.impact \in Impacts
  BY <1>2, <1>3, CandidateTyped
<1> HIDE DEF c
<1>5. size \in Nat
  <2>1. Portfolio.equity \in Int /\ Portfolio.cash \in Int
    BY CoreTyped DEF Portfolio
  <2>2. sizing \in SizingMode
    BY BacktestAssumption DEF Core, Replayed, SizingMode
  <2> QED
    BY <1>4, <2>1, <2>2, EntrySizeType
<1> HIDE DEF size
<1>6. Open' = Open /\ Event' = Event /\ Ended' = Ended
  BY <1>1 DEF Open, Event, Ended, replay
<1>7. InTime'
  BY <1>1, <1>2, <1>3, <1>6 DEF InTime
<1>8. CASE ~(size > 0 /\ Grantable(Event.mint, Copied, size))
  <2>1. Plain
    BY <1>1, <1>3, <1>8, CoreTyped DEF Plain, Places, ledgerVars, money, counters, marks
  <2> QED
    BY <1>1, <1>6, <1>7, <1>8, <2>1, PlainKeeps DEF Visited
<1>9. CASE size > 0 /\ Grantable(Event.mint, Copied, size)
  <2> DEFINE price == (c.price * (10000 + c.impact + 14)) \div 10000
  <2>1. price \in Nat \ {0}
    BY <1>4, PriceStays
  <2>2. PICK r \in ResIds : /\ Reserve(r, Event.mint, Copied, size)
                            /\ order' = [size |-> size, res |-> r, price |-> price]
    BY <1>1, <1>9
  <2> HIDE DEF price
  <2>3. r \in ResIds \ Open
    BY <2>2 DEF Reserve, Core, EntryHeld
  <2>4. order = NoOrder /\ pending = 0
    BY <1>1 DEF Core, EntryHeld, Balanced
  <2>5. /\ order' \in ApprovedOrder /\ order' # NoOrder
        /\ order'.res = r /\ order'.size = size /\ order'.price > 0
    BY <1>5, <2>1, <2>2 DEF ApprovedOrder, NoOrder
  <2> DEFINE q == [state |-> "held", mint |-> Event.mint, wallet |-> Copied, usd |-> size]
  <2>6. q \in Live /\ q # Unborn /\ q.state = "held" /\ q.usd = size
    BY <1>2, <1>5, TapeTyped DEF Live, Unborn, Core, Trade
  <2>7. /\ deployed' = deployed + size /\ cash' = cash - size /\ pending' = pending + 1
        /\ reservation' = [reservation EXCEPT ![r] = q]
        /\ UNCHANGED <<equity, hwm, realized_today, open_positions>>
    BY <2>2 DEF Reserve, marks
  <2> HIDE DEF q
  <2>8. /\ reservation' \in [ResIds -> {Unborn, Gone} \cup Live]
        /\ reservation'[r] = q /\ \A x \in Open : reservation'[x] = reservation[x]
    BY <2>3, <2>6, <2>7 DEF Core, Replayed
  <2>9. Replayed'
    <3>1. KeysTypeOK'
      BY <1>1 DEF Core, Replayed, TypeOK, KeysTypeOK, keyVars
    <3>2. TypeOK'
      BY <1>1, <1>3, <1>5, <1>6, <1>9, <2>4, <2>5, <2>7, <3>1 DEF Core, Replayed, TypeOK
    <3> QED
      BY <1>1, <2>8, <3>2 DEF Core, Replayed, replay
  <2>10. PositionsSeen'
    <3> SUFFICES ASSUME NEW x \in Open
        PROVE  /\ pos[x].opened <= now /\ pos[x].entry > 0
               /\ \E i \in DOMAIN tape : tape[i].mint = pos[x].mint /\ tape[i].at <= now
      BY <1>1, <1>6 DEF PositionsSeen, replay
    <3>1. pos[x].opened <= clock /\ pos[x].entry > 0 /\ pos[x].opened \in Nat
      BY OpenPriced DEF Core, PositionsSeen, Position
    <3>2. PICK i \in DOMAIN tape : tape[i].mint = pos[x].mint /\ tape[i].at <= clock
      BY DEF Core, PositionsSeen
    <3>3. tape[i].at \in Nat
      BY <3>2, TapeTyped DEF Core, Trade
    <3> QED
      BY <1>2, <1>3, <3>1, <3>2, <3>3
  <2>11. EntryHeld'
    BY <1>1, <1>6, <1>9, <2>3, <2>5, <2>6, <2>8 DEF Core, EntryHeld
  <2>12. Balanced'
    <3>1. \A x \in ResIds \ {r} : AtWork'[x] = AtWork[x]
      BY <1>1, <1>6, <2>4, <2>5 DEF AtWork
    <3>2. AtWork[r] = 0 /\ AtWork'[r] = size
      BY <1>6, <2>3, <2>4, <2>5 DEF AtWork
    <3>3. SumFunction(AtWork)' = SumFunction(AtWork) - AtWork[r] + AtWork'[r]
          /\ SumFunction(AtWork) \in Nat
      BY <2>9, <3>1, OneCostMoves DEF Core
    <3>4. deployed' = SumFunction(AtWork)'
      BY <1>5, <2>7, <3>2, <3>3 DEF Core, Balanced
    <3>5. cash' + deployed' = Capital + realized' + exit_fees'
      BY <1>1, <1>5, <2>7, CoreTyped DEF Core, Balanced
    <3> QED
      BY <1>1, <1>6, <1>9, <2>4, <2>7, <3>4, <3>5 DEF Core, Balanced
  <2>13. NeverClosesBeforeOpening'
    BY <1>1 DEF Core, NeverClosesBeforeOpening
  <2>14. Visited'
    BY <1>1, <1>9 DEF Visited
  <2> QED
    BY <1>7, <2>9, <2>10, <2>11, <2>12, <2>13, <2>14 DEF Core
<1> QED
  BY <1>8, <1>9

\* An open position is a holding of itself.
LEMMA OwnMarks == ASSUME Core, NEW r \in Open PROVE MarkOf(pos[r], pos[r])
BY OpenPriced DEF MarkOf, Core, Replayed, TypeOK

\* What is said of the other positions is not disturbed.
LEMMA OthersSpared ==
    ASSUME NEW r, NEW x \in Open, x # r, Touched(r), UNCHANGED <<clock, replay>>, Spared(x)
    PROVE  Spared(x)'
<1>1. pos'[x] = pos[x]
  BY DEF Touched, Open
<1> QED
  BY <1>1 DEF Spared, Stale, LastSeen, Observed, Price, replay

\* A mirrored sale is an exit like any other.
LEMMA MirrorKeeps ==
    ASSUME Core, NEW r \in ResIds, Mirror(r) PROVE Core' /\ Visited' /\ Touched(r)
<1> DEFINE intent == [reason |-> "mirror", rung |-> 0,
                      take |-> IF Event.action = "sell" THEN 100 ELSE 50]
<1>1. /\ Visit("mirror", r) /\ Close(r, pos[r], intent) /\ UNCHANGED clock
      /\ pc' = "mirror"
  BY DEF Mirror, Visit
<1>2. r \in Open
  BY <1>1, VisitsOpen
<1>3. Selling(intent)
  <2>1. "mirror" \in Reasons
    BY RulesInOrder DEF Reasons
  <2> QED
    BY <2>1 DEF Selling
<1> HIDE DEF intent
<1>4. Touched(r)
  BY <1>1, <1>2, <1>3, OwnMarks, CloseTouches
<1> QED
  BY <1>1, <1>4, VisitKeeps DEF Visited

\* Liquidation sells all of a position, or nobody would buy it.
LEMMA LiquidateKeeps ==
    ASSUME Core, Visited, NEW r \in ResIds, Liquidate(r) PROVE Core' /\ Visited' /\ Touched(r)
<1> DEFINE intent == [reason |-> "manual", rung |-> 0, take |-> 100]
<1>1. /\ Visit("liquidate", r) /\ Close(r, pos[r], intent) /\ UNCHANGED clock
      /\ pc = "liquidate" /\ pc' = "liquidate" /\ todo' = todo \ {r}
  BY DEF Liquidate, Visit
<1>2. r \in Open
  BY <1>1, VisitsOpen
<1>3. Selling(intent) /\ intent.take = 100
  BY DEF Selling, Reasons
<1> HIDE DEF intent
<1>4. /\ Touched(r)
      /\ \A x \in ResIds \ {r} : x \in unsold' <=> x \in unsold
      /\ r \in Open' => r \in unsold'
  BY <1>1, <1>2, <1>3, OwnMarks, CloseTouches
<1>5. Core' /\ Open' \ {r} = Open \ {r}
  BY <1>1, <1>4, VisitKeeps
<1>6. Open' \ todo' \subseteq unsold'
  <2> SUFFICES ASSUME NEW x \in Open', x \notin todo', x # r PROVE x \in unsold'
    BY <1>4
  <2>1. x \in Open \ todo /\ x \in ResIds
    BY <1>1, <1>5, CoreTyped
  <2> QED
    BY <1>1, <1>4, <2>1 DEF Visited
<1> QED
  BY <1>1, <1>4, <1>5, <1>6 DEF Visited

\* Updating the marks does not touch what is held.
LEMMA MarksUpdated ==
    ASSUME NEW q \in Position, q.peak >= q.entry, NEW price \in Nat,
           NEW p, p = UpdateMarks(q, price)
    PROVE  MarkOf(p, q)
<1> DEFINE peak == IF price > q.peak THEN price ELSE q.peak
           armed == q.armed \/ GainAtLeast(q, peak, TrailingArmPct)
<1>1. p = [q EXCEPT !.peak = peak, !.armed = armed]
  BY DEF UpdateMarks
<1>2. peak \in Nat /\ peak >= q.entry
  BY DEF Position
<1>3. armed \in BOOLEAN
  BY DEF Position, GainAtLeast
<1> HIDE DEF peak, armed
<1> QED
  BY <1>1, <1>2, <1>3 DEF MarkOf, Position

\* An evaluation takes the stop that is reached, whatever else it finds.
LEMMA EvaluateKeeps ==
    ASSUME Core, Visited, NEW r \in ResIds, Evaluate(r) PROVE Core' /\ Visited' /\ Touched(r)
<1>1. /\ Visit("ticks", r) /\ pc = "ticks" /\ pc' = "ticks" /\ todo' = todo \ {r}
      /\ UNCHANGED <<clock, replay>>
  BY DEF Evaluate, Visit
<1>2. r \in Open /\ pos[r] \in Position /\ pos[r].peak >= pos[r].entry
      /\ pos[r].entry > 0 /\ Price(pos[r].mint, clock) \in Nat \ {0}
  BY <1>1, VisitsOpen, OpenPriced DEF Core, Replayed, TypeOK, PositionsSeen
<1> DEFINE mark == Price(pos[r].mint, clock)
           p == UpdateMarks(pos[r], mark)
           intent == EvaluateExits(p, mark, MarketSide, clock)
           Safe == ~GainAtMost(p, mark, -StopLossPct) /\ ~Trails(p, mark)
<1>3. MarkOf(p, pos[r])
  BY <1>2, MarksUpdated
<1>4. \/ Stale(pos[r].mint, clock)
         /\ UNCHANGED <<ledgerVars, pos, trades, realized, exit_fees, unsold>>
      \/ intent = NoIntent /\ pos' = [pos EXCEPT ![r] = p]
         /\ UNCHANGED <<ledgerVars, trades, realized, exit_fees, unsold>>
      \/ intent # NoIntent /\ Close(r, p, intent)
  BY <1>3 DEF Evaluate, MarkOf
<1> HIDE DEF p, intent, mark
<1>5. SUFFICES /\ Touched(r)
               /\ \A x \in ResIds \ {r} : x \in unsold' <=> x \in unsold
               /\ r \in Open' \ unsold' => Spared(r)'
  <2>1. Core' /\ Open' \ {r} = Open \ {r}
    BY <1>1, <1>5, VisitKeeps
  <2>2. ASSUME NEW x \in Open' \ (todo' \cup unsold'), x # r PROVE Spared(x)'
    <3>1. x \in Open \ (todo \cup unsold)
      BY <1>1, <1>5, <2>1, <2>2, CoreTyped
    <3> QED
      BY <1>1, <1>5, <2>2, <3>1, OthersSpared DEF Visited
  <2>3. \A x \in Open' \ (todo' \cup unsold') : Spared(x)'
    BY <1>5, <2>2
  <2> QED
    BY <1>1, <1>5, <2>1, <2>3 DEF Visited
<1>6. ASSUME r \in Open', pos'[r].mint = pos[r].mint, pos'[r].armed = p.armed,
             pos'[r].peak = p.peak, pos'[r].entry = p.entry, Safe
      PROVE  Spared(r)'
  <2>1. p.entry > 0 /\ p.peak > 0
    BY <1>2, <1>3 DEF MarkOf, Position
  <2>2. Price(pos[r].mint, clock)' = mark
    BY <1>1, <1>6 DEF Price, LastSeen, Observed, replay, mark
  <2>3. ~GainAtMost(pos'[r], mark, -StopLossPct)
    BY <1>6 DEF GainAtMost
  <2>4. pos'[r].armed => ~DroppedBy(pos'[r], mark, TrailingStopPct)
    BY <1>6, <2>1 DEF Trails, DroppedBy
  <2> QED
    BY <2>2, <2>3, <2>4 DEF Spared
<1>7. CASE /\ Stale(pos[r].mint, clock)
           /\ UNCHANGED <<ledgerVars, pos, trades, realized, exit_fees, unsold>>
  <2>1. pos' = [pos EXCEPT ![r] = pos[r]]
    BY <1>7 DEF Core, Replayed, TypeOK
  <2>2. Touched(r)
    BY <1>1, <1>2, <1>7, <2>1, OwnMarks, MarksTouch
  <2>3. Spared(r)'
    BY <1>1, <1>7 DEF Spared, Stale, LastSeen, Observed, replay
  <2> QED
    BY <1>7, <2>2, <2>3
<1>8. CASE /\ intent = NoIntent /\ pos' = [pos EXCEPT ![r] = p]
           /\ UNCHANGED <<ledgerVars, trades, realized, exit_fees, unsold>>
  <2>1. Touched(r) /\ r \in Open'
    BY <1>1, <1>2, <1>3, <1>8, MarksTouch
  <2>2. pos'[r] = p
    BY <1>8 DEF Core, Replayed, TypeOK
  <2>3. Safe
    <3>1. ~(p.amount <= 0) /\ ~(mark <= 0)
      BY <1>2, <1>3 DEF MarkOf, Position, mark
    <3> QED
      BY <1>8, <3>1, NoIntentSpares DEF intent
  <2> QED
    BY <1>3, <1>6, <1>8, <2>1, <2>2, <2>3 DEF MarkOf
<1>9. CASE intent # NoIntent /\ Close(r, p, intent)
  <2>1. /\ Selling(intent)
        /\ GainAtMost(p, mark, -StopLossPct) \/ Trails(p, mark) => intent.take = 100
    <3>1. Quiet(MarketSide)
      BY DEF Quiet, MarketSide
    <3> QED
      BY <1>9, <3>1, IntentType DEF intent, Selling
  <2>2. /\ Touched(r)
        /\ \A x \in ResIds \ {r} : x \in unsold' <=> x \in unsold
        /\ intent.take = 100 /\ r \in Open' => r \in unsold'
        /\ r \in Open' => /\ pos'[r].armed = p.armed /\ pos'[r].peak = p.peak
                          /\ pos'[r].entry = p.entry
    BY <1>1, <1>2, <1>3, <1>9, <2>1, CloseTouches
  <2>3. r \in Open' \ unsold' => Safe
    BY <2>1, <2>2
  <2>4. r \in Open' => pos'[r].mint = pos[r].mint
    BY <2>2 DEF Touched
  <2> HIDE DEF Safe
  <2> QED
    BY <1>6, <2>2, <2>3, <2>4
<1> QED
  BY <1>4, <1>7, <1>8, <1>9

\* At the start nothing is open and all the money is cash.
LEMMA ReplayStarts == Init => ReplayInv
<1> SUFFICES ASSUME Init PROVE ReplayInv
  OBVIOUS
<1> USE DEF Init
<1>1. Open = {}
  BY DEF Open, NoPosition
<1>2. /\ equity = Capital /\ cash = Capital /\ hwm = Capital /\ deployed = 0
      /\ realized_today = 0 /\ open_positions = 0 /\ pending = 0
      /\ reservation = [r \in ResIds |-> Unborn]
      /\ Capital \in Nat
  BY LedgerAssumption DEF LedgerInit, Fresh
<1>3. Replayed
  <2>1. KeysTypeOK
    BY DEF KeysTypeOK, SystemState
  <2>2. TypeOK
    BY <1>1, <1>2, <2>1 DEF TypeOK
  <2> QED
    BY <1>2, <2>2 DEF Replayed
<1>4. InTime
  BY DEF InTime
<1>5. PositionsSeen /\ EntryHeld /\ NeverClosesBeforeOpening
  BY <1>1 DEF PositionsSeen, EntryHeld, NeverClosesBeforeOpening
<1>6. Balanced
  <2> DEFINE f == AtWork
  <2>1. \A r \in ResIds : f[r] = 0
    BY <1>1 DEF AtWork
  <2>2. SumFunction(AtWork) = SumFunctionOnSet(f, ResIds)
    BY DEF SumFunction, AtWork
  <2> HIDE DEF f
  <2>3. SumFunctionOnSet(f, ResIds) = 0
    BY <2>1, LedgerAssumption, SumZero
  <2>4. Cardinality(Open) = 0
    BY <1>1, FS_EmptySet
  <2> QED
    BY <1>2, <2>2, <2>3, <2>4 DEF Balanced
<1>7. Visited
  BY DEF Visited
<1> QED
  BY <1>3, <1>4, <1>5, <1>6, <1>7 DEF ReplayInv, Core

\* The invariant of the replay: the deployed total is what the entry under way
\* and the open positions cost, cash and deployed are what the result says, no
\* position is younger than the clock, and what a loop has visited it has dealt
\* with.
THEOREM BacktestInvariant == Spec => []ReplayInv
<1>1. Init => ReplayInv
  BY ReplayStarts
<1>2. ReplayInv /\ [Next]_vars => ReplayInv'
  <2> SUFFICES ASSUME Core, Visited, [Next]_vars PROVE Core' /\ Visited'
    BY DEF ReplayInv
  <2>1. CASE NextEvent
    BY <2>1, NextEventKeeps
  <2>2. CASE LastEvent
    BY <2>2, LastEventKeeps
  <2>3. CASE SourceSells \/ Skip
    BY <2>3, TradeKeeps
  <2>4. CASE SourceBuys
    BY <2>4, SourceBuysKeeps
  <2>5. CASE Fill
    BY <2>5, FillKeeps
  <2>6. CASE FillFails
    BY <2>6, FillFailsKeeps
  <2>7. CASE \E r \in ResIds : Mirror(r) \/ Evaluate(r) \/ Liquidate(r)
    BY <2>7, MirrorKeeps, EvaluateKeeps, LiquidateKeeps
  <2>8. CASE EndOfLoop
    BY <2>8, EndOfLoopKeeps
  <2>9. CASE MarkBook
    BY <2>9, MarkBookKeeps
  <2>10. CASE UNCHANGED vars
    BY <2>10, StutterKeeps
  <2> QED
    BY <2>1, <2>2, <2>3, <2>4, <2>5, <2>6, <2>7, <2>8, <2>9, <2>10 DEF Next
<1> QED
  BY <1>1, <1>2, PTL DEF Spec

\* Every open position is worth something and its peak is no lower than its
\* entry; every trade has its reason.
THEOREM ReplayTypeOK == Spec => []TypeOK
<1>1. ReplayInv => TypeOK
  BY DEF ReplayInv, Core, Replayed
<1> QED
  BY <1>1, BacktestInvariant, PTL

\* run(): the clock never runs backwards, so no trade is closed before it was
\* opened, however late the detection.
THEOREM ReplayNeverRewinds == Spec => []NeverClosesBeforeOpening
<1>1. ReplayInv => NeverClosesBeforeOpening
  BY DEF ReplayInv, Core
<1> QED
  BY <1>1, BacktestInvariant, PTL

\* The book and the result agree but for the fees: no dust clamp and no partial
\* sale loses money between them.
THEOREM ReplayBooksAgree == Spec => []BooksAgree
<1>1. ReplayInv => BooksAgree
  BY DEF ReplayInv, Core, Balanced, BooksAgree
<1> QED
  BY <1>1, BacktestInvariant, PTL

\* After every event, no fresh price leaves a stop or an armed trailing stop
\* standing, but for a sale that failed.
THEOREM ReplayTakesStops == Spec => []StopsAreTaken
<1>1. ReplayInv => StopsAreTaken
  BY DEF ReplayInv, Visited, StopsAreTaken
<1> QED
  BY <1>1, BacktestInvariant, PTL

\* At the end only positions nobody would buy are open.
THEOREM ReplaySellsOut == Spec => []OnlyUnsellableStaysOpen
<1>1. ReplayInv => OnlyUnsellableStaysOpen
  BY DEF ReplayInv, Core, InTime, Visited, OnlyUnsellableStaysOpen
<1> QED
  BY <1>1, BacktestInvariant, PTL

\* A trade finds cash for an entry at the ceiling.
CashEnough == pc = "trade" => Cap(Portfolio, rules) <= cash

\* What is under way fits the book as what is open does.
Fits == FitsTheBook /\ (order # NoOrder => 100 * order.size <= depth)

\* An entry is made only where it fits, a fill costs what was held, and a sale
\* leaves no position dearer than it was.
LEMMA NextFits ==
    ASSUME SizingModes \subseteq UnderCeiling, BaseBp <= CapBp,
           \A t \in Traders : t.mult \in Shrinking,
           ReplayInv, ReplayInv', CashEnough, Fits, [Next]_vars
    PROVE  Fits'
<1> USE DEF ReplayInv
<1>1. /\ depth \in Nat \ {0} /\ trader \in Profile /\ trader.mult \in Shrinking
      /\ sizing \in UnderCeiling /\ sizing \in SizingMode
  BY BacktestAssumption DEF Core, Replayed, SizingMode
<1>2. CASE NextEvent \/ LastEvent \/ SourceSells \/ Skip \/ EndOfLoop \/ MarkBook
           \/ UNCHANGED vars
  <2>1. UNCHANGED <<order, pos, depth>>
    BY <1>2 DEF NextEvent, LastEvent, SourceSells, Skip, EndOfLoop, MarkBook, vars, btVars, replay
  <2> QED
    BY <2>1 DEF Fits, FitsTheBook, Open
<1>3. CASE SourceBuys
  <2> DEFINE now == AdvanceClock(Event.at + DetectionLatency)
             c == Candidate(now)
             size == EvaluateEntry(c, Portfolio, sizing, rules).size
  <2>1. /\ pc = "trade" /\ UNCHANGED <<pos, depth>>
        /\ order' # NoOrder => order' = order \/ order'.size = size
    BY <1>3 DEF SourceBuys, replay
  <2>2. ~Ended /\ Event.at <= clock /\ Event \in Trade /\ clock \in Nat
    BY <2>1, CoreTyped DEF Core, InTime
  <2>3. now \in Nat /\ Event.at <= now
    BY <2>2, CoreTyped DEF AdvanceClock, Trade
  <2> HIDE DEF now
  <2>4. /\ c.trader = trader /\ c.source_usd \in Nat /\ c.liquidity = depth
        /\ c.confirmations \in 0 .. 1
    BY <2>2, <2>3, CandidateTyped
  <2>5. Portfolio.equity \in Int /\ Portfolio.cash \in Int /\ Portfolio.cash = cash
    BY CoreTyped DEF Portfolio
  <2> HIDE DEF c
  <2>6. ASSUME Portfolio.equity > 0
        PROVE  /\ BaseSize(c, Portfolio, sizing, rules) <= Cap(Portfolio, rules)
               /\ BaseSize(c, Portfolio, sizing, rules) <= Portfolio.cash
    <3>1. BaseSize(c, Portfolio, sizing, rules) <= Cap(Portfolio, rules)
      BY <1>1, <2>4, <2>5, <2>6, BaseBelowCap
    <3>2. Cap(Portfolio, rules) <= Portfolio.cash
      BY <2>1, <2>5 DEF CashEnough
    <3>3. BaseSize(c, Portfolio, sizing, rules) \in Int /\ Cap(Portfolio, rules) \in Int
      <4>1. BaseSize(c, Portfolio, sizing, rules) \in Int
        BY <1>1, <2>4, <2>5, BaseSizeType
      <4> QED
        BY <2>5, <4>1, BacktestAssumption DEF Cap, rules
    <3> QED
      BY <2>5, <3>1, <3>2, <3>3
  <2>7. 100 * size <= depth
    BY <1>1, <2>4, <2>5, <2>6, EntryFits
  <2> HIDE DEF size
  <2> QED
    BY <2>1, <2>7 DEF Fits, FitsTheBook, Open
<1>4. CASE Fill
  <2>1. /\ order # NoOrder /\ order.res \in ResIds
        /\ pos \in [ResIds -> Position \cup {NoPosition}]
    BY <1>4, OrderTyped DEF Fill, Core, Replayed, TypeOK
  <2>2. /\ UNCHANGED depth /\ order' = NoOrder
        /\ \A x \in ResIds \ {order.res} : pos'[x] = pos[x]
        /\ pos'[order.res].cost = order.size
    BY <1>4, <2>1 DEF Fill, replay
  <2> QED
    BY <2>1, <2>2 DEF Fits, FitsTheBook, Open
<1>5. CASE FillFails
  <2>1. UNCHANGED <<pos, depth>> /\ order' = NoOrder
    BY <1>5 DEF FillFails, replay
  <2> QED
    BY <2>1 DEF Fits, FitsTheBook, Open
<1>6. ASSUME NEW r \in ResIds, Mirror(r) \/ Evaluate(r) \/ Liquidate(r) PROVE Fits'
  <2>1. PICK loop : Visit(loop, r)
    BY <1>6 DEF Mirror, Evaluate, Liquidate
  <2>2. UNCHANGED <<order, depth>> /\ r \in Open
    BY <2>1, VisitsOpen DEF Visit, replay
  <2>3. Touched(r)
    BY <1>6, MirrorKeeps, EvaluateKeeps, LiquidateKeeps
  <2>4. ASSUME NEW x \in Open' PROVE 100 * pos'[x].cost <= depth
    <3>1. CASE x = r
      <4>1. /\ pos'[r].cost <= pos[r].cost /\ pos'[r].cost \in Nat /\ pos[r].cost \in Nat
            /\ 100 * pos[r].cost <= depth
        <5>1. pos'[r] \in Position /\ pos[r] \in Position
          BY <2>2, <2>3, <2>4, <3>1, OpenPriced DEF Touched, Open, NoPosition, Core
        <5> QED
          BY <2>2, <2>3, <2>4, <3>1, <5>1 DEF Touched, Position, Fits, FitsTheBook
      <4> QED
        BY <1>1, <3>1, <4>1
    <3>2. CASE x # r
      BY <2>3, <2>4, <3>2 DEF Touched, Open, Fits, FitsTheBook
    <3> QED
      BY <3>1, <3>2
  <2> QED
    BY <2>2, <2>4 DEF Fits, FitsTheBook
<1> QED
  BY <1>2, <1>3, <1>4, <1>5, <1>6 DEF Next

\* "Shrink to fit the book" is kept for every history, depth, capital and
\* limit by the sizing modes that stay under the ceiling, with a base below
\* it, trader multipliers that do not enlarge and cash for one more entry.
THEOREM EntriesFitTheBook ==
    ASSUME SizingModes \subseteq UnderCeiling, BaseBp <= CapBp,
           \A t \in Traders : t.mult \in Shrinking
    PROVE  Spec /\ []CashEnough => []FitsTheBook
<1>1. Init => Fits
  BY DEF Init, Fits, FitsTheBook, Open, NoPosition
<1>2. ReplayInv /\ ReplayInv' /\ CashEnough /\ Fits /\ [Next]_vars => Fits'
  BY NextFits
<1>3. Fits => FitsTheBook
  BY DEF Fits
<1> QED
  BY <1>1, <1>2, <1>3, BacktestInvariant, PTL DEF Spec

=============================================================================
