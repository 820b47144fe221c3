-------------------------- MODULE SignalPathProofs --------------------------
(***************************************************************************)
(* The hot path with any number of workers, source transactions,           *)
(* notifications and restarts.                                             *)
(***************************************************************************)
EXTENDS SignalPath, SequenceTheorems, TLAPS

-----------------------------------------------------------------------------
(* Types of the hot path *)

\* The breaker's fields keep their types under every step of a call.
LEMMA BreakerTyped ==
    BreakerTypeOK /\ [BreakerNext]_breakerVars => BreakerTypeOK'
<1> SUFFICES ASSUME BreakerTypeOK, [BreakerNext]_breakerVars PROVE BreakerTypeOK'
  OBVIOUS
<1> USE BreakerAssumption DEF BreakerTypeOK, Results, Phase, To
<1>1. ASSUME NEW c \in Callers, Begin(c) \/ Hangup(c) PROVE BreakerTypeOK'
  BY <1>1 DEF Begin, Hangup
<1>2. ASSUME NEW c \in Callers, Answer(c) \/ Rejected(c) PROVE BreakerTypeOK'
  BY <1>2 DEF Answer, Rejected, RecordSuccess, Fail
<1>3. ASSUME NEW c \in Callers, NoAnswer(c) PROVE BreakerTypeOK'
  BY <1>3 DEF NoAnswer, RecordFailure, Fail
<1>4. CASE Cooldown \/ UNCHANGED breakerVars
  BY <1>4 DEF Cooldown, breakerVars
<1> QED
  BY <1>1, <1>2, <1>3, <1>4 DEF BreakerNext

\* What a crash leaves of the breaker: nothing, but whom to blame.
Restarted ==
    /\ failures' = 0 /\ opened' = "closed" /\ blame' = blame
    /\ call' = [c \in Callers |-> "idle"]

\* The hot path uses the breaker by its own steps, and loses it in a crash.
LEMMA BreakerSteps == [Next]_vars => [BreakerNext]_breakerVars \/ Restarted
<1> SUFFICES ASSUME [Next]_vars PROVE [BreakerNext]_breakerVars \/ Restarted
  OBVIOUS
<1>1. ASSUME NEW w \in Workers, Handle(w) \/ Provider(w) PROVE [BreakerNext]_breakerVars
  <2>1. w \in Callers
    BY SignalAssumption
  <2>2. Begin(w) \/ Hangup(w) \/ Answer(w) \/ Rejected(w) \/ NoAnswer(w) \/ UNCHANGED breakerVars
    BY <1>1 DEF Handle, Provider, Take, ClaimSignature, Unusable, Parse, Firehose, Discard,
                ClaimTrade, ReadTrader, Copy, GiveUp, SignalExit, Raises
  <2> QED
    BY <2>1, <2>2 DEF BreakerNext
<1>2. CASE Crash
  BY <1>2 DEF Crash, Restarted
<1>3. CASE \/ \E t \in Txs : Land(t) \/ Deliver(t)
           \/ Tick \/ RefreshRead \/ RefreshApply \/ BudgetDiscard
           \/ \E x \in Wallets : BudgetSuspend(x)
           \/ UNCHANGED vars
  BY <1>3 DEF Land, Deliver, Tick, RefreshRead, RefreshApply, BudgetDiscard, BudgetSuspend, vars
<1>4. CASE Cooldown
  BY <1>4 DEF BreakerNext
<1> QED
  BY <1>1, <1>2, <1>3, <1>4 DEF Next

\* A restarted breaker is a new one.
LEMMA RestartKeeps == BreakerTypeOK /\ Restarted => BreakerTypeOK'
  BY BreakerAssumption DEF BreakerTypeOK, Restarted, Results, Phase

WorkerState == [tx : Txs \cup {0}, at : Stage, fresh : BOOLEAN]

\* A busy worker handles a transaction.
WorkersTyped ==
    /\ worker \in [Workers -> WorkerState]
    /\ \A w \in Workers : worker[w].at # "idle" => Tx(w) \in Txs

QueueTyped == queue \in Seq(Txs) /\ Len(queue) <= QueueSize

ClocksTyped ==
    /\ age \in [Txs -> -1 .. MaxAge]
    /\ delivered \in 0 .. MaxDeliveries
    /\ claim \in [Txs -> 0 .. TTL] /\ tradeClaim \in [Txs -> 0 .. TTL]
    /\ crashes \in 0 .. MaxCrashes

TradersTyped ==
    /\ mirrored \subseteq Wallets
    /\ status \in [Wallets -> {"followed", "candidate", "suspended"}]
    /\ watched \subseteq Wallets /\ poll \subseteq Wallets /\ traffic \subseteq Wallets
    /\ cut \in Wallets \cup {NoWallet}

CopiesTyped == copies \in [Txs -> Nat] /\ undated \subseteq Txs

TypeInv ==
    /\ BreakerTypeOK /\ WorkersTyped /\ QueueTyped /\ ClocksTyped /\ TradersTyped /\ CopiesTyped

LEMMA BoundsTyped ==
    /\ QueueSize \in Nat /\ QueueSize > 0
    /\ Gate \in Nat /\ TTL \in Nat /\ MaxAge \in Nat /\ MaxDeliveries \in Nat
    /\ MaxCrashes \in Nat /\ Gate < TTL /\ Gate < MaxAge
  BY SignalAssumption

LEMMA IdleTyped == Idle \in WorkerState /\ Idle.at = "idle"
  BY DEF Idle, WorkerState, Stage

LEMMA InitTypeInv == Init => TypeInv
<1> SUFFICES ASSUME Init PROVE TypeInv
  OBVIOUS
<1>1. BreakerTypeOK
  BY BreakerAssumption DEF Init, BreakerInit, BreakerTypeOK, Results, Phase
<1>2. WorkersTyped
  BY IdleTyped DEF Init, WorkersTyped
<1>3. QueueTyped
  BY BoundsTyped, EmptySeq DEF Init, QueueTyped
<1>4. ClocksTyped
  BY BoundsTyped DEF Init, ClocksTyped
<1>5. TradersTyped
  BY DEF Init, TradersTyped
<1>6. CopiesTyped
  BY DEF Init, CopiesTyped
<1> QED
  BY <1>1, <1>2, <1>3, <1>4, <1>5, <1>6 DEF TypeInv

\* One worker at a time changes what it does.
LEMMA OneWorker ==
    ASSUME WorkersTyped, NEW w \in Workers, NEW new \in WorkerState,
           worker' = [worker EXCEPT ![w] = new],
           new.at # "idle" => new.tx \in Txs
    PROVE  /\ WorkersTyped'
           /\ worker'[w] = new
           /\ \A v \in Workers : v # w => worker'[v] = worker[v]
<1>1. /\ worker' \in [Workers -> WorkerState] /\ worker'[w] = new
      /\ \A v \in Workers : v # w => worker'[v] = worker[v]
  BY DEF WorkersTyped
<1>2. \A v \in Workers : worker'[v].at # "idle" => worker'[v].tx \in Txs
  BY <1>1 DEF WorkersTyped, Tx
<1> QED
  BY <1>1, <1>2 DEF WorkersTyped, Tx

\* Each step of w puts w into one of these states; the others stay in theirs.
LEMMA WorkerSteps ==
    ASSUME WorkersTyped, QueueTyped, NEW w \in Workers, Handle(w)
    PROVE  \/ Finish(w)
           \/ Take(w)
           \/ ClaimSignature(w) /\ claim[Tx(w)] = 0 /\ Step(w, "claim", "fetch")
           \/ Parse(w)
           \/ /\ worker[w].at \in {"trade", "read"}
              /\ \E there \in {"discard", "read", "copy", "lookup"} :
                    worker' = [worker EXCEPT ![w].at = there]
  BY DEF Handle, ClaimSignature, Unusable, Firehose, Discard, ClaimTrade, ReadTrader, Copy,
         GiveUp, SignalExit, Raises, Step

LEMMA NextWorkers == WorkersTyped /\ QueueTyped /\ [Next]_vars => WorkersTyped'
<1> SUFFICES ASSUME WorkersTyped, QueueTyped, [Next]_vars PROVE WorkersTyped'
  OBVIOUS
<1>1. CASE worker' = worker
  BY <1>1 DEF WorkersTyped, Tx
<1>2. ASSUME NEW w \in Workers, Handle(w) PROVE WorkersTyped'
  <2>1. worker[w] \in WorkerState /\ (worker[w].at # "idle" => worker[w].tx \in Txs)
    BY DEF WorkersTyped, Tx
  <2>2. CASE Finish(w)
    BY <2>2, IdleTyped, OneWorker DEF Finish
  <2>3. CASE Take(w)
    <3> DEFINE new == [tx |-> Head(queue), at |-> "claim", fresh |-> FALSE]
    <3>1. Head(queue) \in Txs
      BY <2>3, HeadTailProperties DEF Take, QueueTyped
    <3>2. new \in WorkerState /\ new.tx \in Txs
      BY <3>1 DEF WorkerState, Stage
    <3>3. worker' = [worker EXCEPT ![w] = new]
      BY <2>3 DEF Take
    <3> HIDE DEF new
    <3> QED
      BY <3>2, <3>3, OneWorker
  <2>4. ASSUME NEW there \in Stage, worker[w].at # "idle",
               worker' = [worker EXCEPT ![w].at = there]
        PROVE  WorkersTyped'
    <3> DEFINE new == [worker[w] EXCEPT !.at = there]
    <3>1. new \in WorkerState /\ new.tx = worker[w].tx
      BY <2>1 DEF WorkerState
    <3>2. worker' = [worker EXCEPT ![w] = new]
      BY <2>4
    <3>3. new.tx \in Txs
      BY <2>1, <2>4, <3>1
    <3> HIDE DEF new
    <3> QED
      BY <3>1, <3>2, <3>3, OneWorker
  <2>5. CASE Parse(w)
    <3>0. PICK dated \in BOOLEAN :
             worker' = [worker EXCEPT ![w].at = "trade",
                                      ![w].fresh = dated => age[Tx(w)] <= Gate]
      BY <2>5 DEF Parse
    <3> DEFINE seen == dated => age[Tx(w)] <= Gate
               new  == [worker[w] EXCEPT !.at = "trade", !.fresh = seen]
    <3>1. seen \in BOOLEAN
      OBVIOUS
    <3>2. worker' = [worker EXCEPT ![w] = new] /\ worker[w].at = "fetch"
      BY <2>5, <3>0 DEF Parse
    <3> HIDE DEF seen
    <3>3. new \in WorkerState /\ new.tx = worker[w].tx
      BY <2>1, <3>1 DEF WorkerState, Stage
    <3>4. new.tx \in Txs
      BY <2>1, <3>2, <3>3
    <3> HIDE DEF new
    <3> QED
      BY <3>2, <3>3, <3>4, OneWorker
  <2> QED
    BY <1>2, <2>2, <2>3, <2>4, <2>5, WorkerSteps DEF Step, Stage
<1>3. CASE Crash
  <2>1. worker' = [w \in Workers |-> Idle]
    BY <1>3 DEF Crash
  <2> QED
    BY <2>1, IdleTyped DEF WorkersTyped
<1>4. ASSUME NEW w \in Workers, Provider(w) PROVE worker' = worker
  BY <1>4 DEF Provider, signalVars
<1>5. CASE \/ \E t \in Txs : Land(t) \/ Deliver(t)
           \/ Tick \/ RefreshRead \/ RefreshApply \/ BudgetDiscard
           \/ \E x \in Wallets : BudgetSuspend(x)
           \/ Cooldown /\ UNCHANGED signalVars
           \/ UNCHANGED vars
  BY <1>1, <1>5 DEF Land, Deliver, Tick, RefreshRead, RefreshApply, BudgetDiscard,
                    BudgetSuspend, signalVars, vars
<1> QED
  BY <1>1, <1>2, <1>3, <1>4, <1>5 DEF Next

\* The queue is cut at its head before it grows past its size.
LEMMA NextQueue == QueueTyped /\ [Next]_vars => QueueTyped'
<1> SUFFICES ASSUME QueueTyped, [Next]_vars PROVE QueueTyped'
  OBVIOUS
<1>1. CASE queue' = queue
  BY <1>1 DEF QueueTyped
<1>2. ASSUME NEW t \in Txs, Deliver(t) PROVE QueueTyped'
  <2> DEFINE kept == IF Len(queue) = QueueSize THEN Tail(queue) ELSE queue
  <2>1. queue \in Seq(Txs) /\ Len(queue) \in Nat /\ Len(queue) <= QueueSize
    BY LenProperties DEF QueueTyped
  <2>2. kept \in Seq(Txs) /\ Len(kept) \in Nat /\ Len(kept) < QueueSize
    <3>1. CASE Len(queue) = QueueSize
      <4>1. queue # <<>>
        BY <3>1, BoundsTyped, EmptySeq
      <4> QED
        BY <2>1, <3>1, <4>1, BoundsTyped, HeadTailProperties, LenProperties
    <3>2. CASE Len(queue) # QueueSize
      BY <2>1, <3>2, BoundsTyped
    <3> QED
      BY <3>1, <3>2
  <2>3. queue' = Append(kept, t)
    BY <1>2 DEF Deliver
  <2> HIDE DEF kept
  <2>4. queue' \in Seq(Txs) /\ Len(queue') = Len(kept) + 1
    BY <2>2, <2>3, AppendProperties
  <2> QED
    BY <2>2, <2>4, BoundsTyped DEF QueueTyped
<1>3. ASSUME NEW w \in Workers, Take(w) PROVE QueueTyped'
  <2>1. queue' = Tail(queue) /\ queue # <<>>
    BY <1>3 DEF Take
  <2>2. /\ queue' \in Seq(Txs) /\ Len(queue') = Len(queue) - 1
        /\ Len(queue) \in Nat /\ Len(queue) <= QueueSize
    BY <2>1, HeadTailProperties, LenProperties DEF QueueTyped
  <2> QED
    BY <2>2, BoundsTyped DEF QueueTyped
<1>4. CASE Crash
  BY <1>4, BoundsTyped, EmptySeq DEF Crash, QueueTyped
<1>5. ASSUME NEW w \in Workers, Handle(w), ~Take(w) PROVE queue' = queue
  BY <1>5 DEF Handle, ClaimSignature, Unusable, Parse, Firehose, Discard, ClaimTrade,
              ReadTrader, Copy, GiveUp, SignalExit, Raises
<1>6. ASSUME NEW w \in Workers, Provider(w) PROVE queue' = queue
  BY <1>6 DEF Provider, signalVars
<1>7. CASE \/ \E t \in Txs : Land(t)
           \/ Tick \/ RefreshRead \/ RefreshApply \/ BudgetDiscard
           \/ \E x \in Wallets : BudgetSuspend(x)
           \/ Cooldown /\ UNCHANGED signalVars
           \/ UNCHANGED vars
  BY <1>1, <1>7 DEF Land, Tick, RefreshRead, RefreshApply, BudgetDiscard, BudgetSuspend,
                    signalVars, vars
<1> QED
  BY <1>1, <1>2, <1>3, <1>4, <1>5, <1>6, <1>7 DEF Next

LEMMA NextClocks == WorkersTyped /\ ClocksTyped /\ [Next]_vars => ClocksTyped'
<1> SUFFICES ASSUME WorkersTyped, ClocksTyped, [Next]_vars PROVE ClocksTyped'
  OBVIOUS
<1>1. CASE UNCHANGED <<age, delivered, claim, tradeClaim, crashes>>
  BY <1>1 DEF ClocksTyped
<1>2. ASSUME NEW t \in Txs, Land(t) PROVE ClocksTyped'
  BY <1>2, BoundsTyped DEF Land, ClocksTyped
<1>3. ASSUME NEW t \in Txs, Deliver(t) PROVE ClocksTyped'
  BY <1>3, BoundsTyped DEF Deliver, ClocksTyped
<1>4. CASE Tick
  <2>1. \A ttl \in [Txs -> 0 .. TTL] : Less(ttl) \in [Txs -> 0 .. TTL]
    BY BoundsTyped DEF Less
  <2>2. age' \in [Txs -> -1 .. MaxAge]
    <3>1. \A t \in Txs : age[t] \in -1 .. MaxAge
      BY DEF ClocksTyped
    <3>2. \A t \in Txs : (IF age[t] \in 0 .. MaxAge - 1 THEN age[t] + 1 ELSE age[t])
                            \in -1 .. MaxAge
      BY <3>1, BoundsTyped
    <3> QED
      BY <1>4, <3>2 DEF Tick
  <2> QED
    BY <1>4, <2>1, <2>2 DEF Tick, ClocksTyped
<1>5. ASSUME NEW w \in Workers, ClaimSignature(w) PROVE ClocksTyped'
  BY <1>5, BoundsTyped DEF ClaimSignature, ClocksTyped, WorkersTyped
<1>6. ASSUME NEW w \in Workers, ClaimTrade(w) PROVE ClocksTyped'
  BY <1>6, BoundsTyped DEF ClaimTrade, ClocksTyped, WorkersTyped
<1>7. CASE Crash
  BY <1>7, BoundsTyped DEF Crash, ClocksTyped
<1>8. ASSUME NEW w \in Workers, Handle(w), ~ClaimSignature(w), ~ClaimTrade(w), ~Raises(w)
      PROVE  ClocksTyped'
  BY <1>1, <1>8 DEF Handle, Take, Unusable, Parse, Firehose, Discard, ReadTrader, Copy, GiveUp,
                    SignalExit
<1>9. ASSUME NEW w \in Workers, Provider(w) PROVE ClocksTyped'
  BY <1>1, <1>9 DEF Provider, signalVars
<1>10. CASE \/ RefreshRead \/ RefreshApply \/ BudgetDiscard
            \/ \E x \in Wallets : BudgetSuspend(x)
            \/ Cooldown /\ UNCHANGED signalVars
            \/ UNCHANGED vars
  BY <1>1, <1>10 DEF RefreshRead, RefreshApply, BudgetDiscard, BudgetSuspend, signalVars, vars
<1>11. ASSUME NEW w \in Workers, Raises(w) PROVE ClocksTyped'
  BY <1>11, BoundsTyped DEF Raises, ClocksTyped, WorkersTyped
<1> QED
  BY <1>2, <1>3, <1>4, <1>5, <1>6, <1>7, <1>8, <1>9, <1>10, <1>11 DEF Next

\* A busy worker's wallet is one of the wallets.
LEMMA WalletExists ==
    ASSUME WorkersTyped, NEW w \in Workers, worker[w].at # "idle"
    PROVE  Wallet(w) \in Wallets
  BY SignalAssumption DEF WorkersTyped, Wallet

LEMMA NextTraders == WorkersTyped /\ TradersTyped /\ [Next]_vars => TradersTyped'
<1> SUFFICES ASSUME WorkersTyped, TradersTyped, [Next]_vars PROVE TradersTyped'
  OBVIOUS
<1>1. CASE UNCHANGED <<mirrored, status, watched, poll, traffic, cut>>
  BY <1>1 DEF TradersTyped
<1>2. ASSUME NEW w \in Workers,
             Firehose(w) \/ ClaimTrade(w) \/ Discard(w) \/ SignalExit(w) \/ Raises(w)
      PROVE  TradersTyped'
  <2>1. Wallet(w) \in Wallets
    BY <1>2, WalletExists DEF Firehose, ClaimTrade, Discard, SignalExit, Raises
  <2> QED
    BY <1>2, <2>1 DEF Firehose, ClaimTrade, Discard, SignalExit, Raises, TradersTyped
<1>3. CASE RefreshRead \/ RefreshApply \/ BudgetDiscard \/ Crash
  BY <1>3 DEF RefreshRead, RefreshApply, BudgetDiscard, Crash, Watchlist, TradersTyped
<1>4. ASSUME NEW x \in Wallets, BudgetSuspend(x) PROVE TradersTyped'
  BY <1>4 DEF BudgetSuspend, TradersTyped
<1>5. ASSUME NEW w \in Workers, Handle(w),
             ~Firehose(w), ~ClaimTrade(w), ~Discard(w), ~SignalExit(w), ~Raises(w)
      PROVE  TradersTyped'
  BY <1>1, <1>5 DEF Handle, Take, ClaimSignature, Unusable, Parse, ReadTrader, Copy, GiveUp
<1>6. ASSUME NEW w \in Workers, Provider(w) PROVE TradersTyped'
  BY <1>1, <1>6 DEF Provider, signalVars
<1>7. CASE \/ \E t \in Txs : Land(t) \/ Deliver(t)
           \/ Tick
           \/ Cooldown /\ UNCHANGED signalVars
           \/ UNCHANGED vars
  BY <1>1, <1>7 DEF Land, Deliver, Tick, signalVars, vars
<1> QED
  BY <1>2, <1>3, <1>4, <1>5, <1>6, <1>7 DEF Next

\* Only an order that filled adds a copy.
LEMMA CopiesSteps ==
    [Next]_vars => copies' = copies \/ \E w \in Workers : Copy(w)
<1> SUFFICES ASSUME [Next]_vars, \A w \in Workers : ~Copy(w) PROVE copies' = copies
  OBVIOUS
<1>1. ASSUME NEW w \in Workers, Handle(w) \/ Provider(w) PROVE copies' = copies
  BY <1>1 DEF Handle, Provider, signalVars, Take, ClaimSignature, Unusable, Parse, Firehose,
              Discard, ClaimTrade, ReadTrader, GiveUp, SignalExit, Raises
<1> QED
  BY <1>1 DEF Next, Land, Deliver, Tick, Crash, RefreshRead, RefreshApply, BudgetDiscard,
              BudgetSuspend, signalVars, vars

\* Only a parse finds a transaction undated, and it stays so.
LEMMA UndatedSteps ==
    [Next]_vars => /\ undated \subseteq undated'
                   /\ undated' = undated \/ \E w \in Workers : Parse(w)
<1> SUFFICES ASSUME [Next]_vars
             PROVE  /\ undated \subseteq undated'
                    /\ undated' = undated \/ \E w \in Workers : Parse(w)
  OBVIOUS
<1>1. ASSUME NEW w \in Workers, Parse(w) PROVE undated \subseteq undated'
  BY <1>1 DEF Parse
<1>2. ASSUME NEW w \in Workers, Handle(w) \/ Provider(w), ~Parse(w) PROVE undated' = undated
  BY <1>2 DEF Handle, Provider, signalVars, Take, ClaimSignature, Unusable, Firehose, Discard,
              ClaimTrade, ReadTrader, Copy, GiveUp, SignalExit, Raises
<1>3. ASSUME ~\E w \in Workers : Handle(w) \/ Provider(w) PROVE undated' = undated
  BY <1>3 DEF Next, Land, Deliver, Tick, Crash, RefreshRead, RefreshApply, BudgetDiscard,
              BudgetSuspend, signalVars, vars
<1> QED
  BY <1>1, <1>2, <1>3

LEMMA NextCopies == WorkersTyped /\ CopiesTyped /\ [Next]_vars => CopiesTyped'
<1> SUFFICES ASSUME WorkersTyped, CopiesTyped, [Next]_vars PROVE CopiesTyped'
  OBVIOUS
<1>1. ASSUME NEW w \in Workers, Copy(w) PROVE CopiesTyped'
  <2>1. Tx(w) \in Txs
    BY <1>1 DEF Copy, WorkersTyped
  <2> QED
    BY <1>1, <2>1 DEF Copy, CopiesTyped
<1>2. undated' \subseteq Txs
  <2>1. ASSUME NEW w \in Workers, Parse(w) PROVE undated' \subseteq Txs
    <3>1. Tx(w) \in Txs
      BY <2>1 DEF Parse, WorkersTyped
    <3> QED
      BY <2>1, <3>1 DEF Parse, CopiesTyped
  <2> QED
    BY <2>1, UndatedSteps DEF CopiesTyped
<1> QED
  BY <1>1, <1>2, CopiesSteps DEF CopiesTyped

\* No step of the hot path leaves its types.
LEMMA NextTypeInv == TypeInv /\ [Next]_vars => TypeInv'
<1>1. BreakerTypeOK /\ [Next]_vars => BreakerTypeOK'
  BY BreakerSteps, BreakerTyped, RestartKeeps
<1> QED
  BY <1>1, NextWorkers, NextQueue, NextClocks, NextTraders, NextCopies DEF TypeInv

THEOREM SignalPathTypeInvariant == Spec => []TypeInv
  BY InitTypeInv, NextTypeInv, PTL DEF Spec

\* Every variable of the hot path keeps its type: whatever is delivered, the
\* queue never exceeds its size and a worker handles only what was delivered.
THEOREM SignalPathTypeOK == Spec => []SignalTypeOK
<1>1. TypeInv => SignalTypeOK
  <2> SUFFICES ASSUME TypeInv PROVE SignalTypeOK
    OBVIOUS
  <2>1. queue \in BoundedSeq(Txs, QueueSize)
    <3>1. /\ queue \in [1 .. Len(queue) -> Txs] /\ Len(queue) \in Nat
          /\ Len(queue) <= QueueSize
      BY LenProperties DEF TypeInv, QueueTyped
    <3>2. Len(queue) \in 0 .. QueueSize
      BY <3>1, BoundsTyped
    <3> QED
      BY <3>1, <3>2 DEF BoundedSeq, SeqOf
  <2> QED
    BY <2>1 DEF TypeInv, WorkersTyped, WorkerState, ClocksTyped, TradersTyped, CopiesTyped,
              SignalTypeOK
<1> QED
  BY <1>1, SignalPathTypeInvariant, PTL

-----------------------------------------------------------------------------
(* One copy per buy *)

\* A worker that may still copy in time the transaction it handles, one that
\* the provider has dated so far.
InTime(w) ==
    /\ worker[w].at \notin {"idle", "claim"}
    /\ Tx(w) \notin undated
    /\ IF worker[w].at = "fetch" THEN age[Tx(w)] <= Gate ELSE worker[w].fresh

Handled(t) ==
    /\ t \notin undated
    /\ copies[t] > 0 \/ \E w \in Workers : InTime(w) /\ Tx(w) = t

\* Until the gate closes on a transaction that was taken up, the claim on its
\* signature lasts: it was set when the transaction was seen, for longer.
ClaimHeld ==
    \A t \in Txs : Handled(t) =>
        age[t] >= 0 /\ (age[t] <= Gate => claim[t] + age[t] >= TTL)

\* So that no two workers can copy it, nor one after another has.
OneHandler ==
    \A t \in Txs :
        /\ t \notin undated => copies[t] <= 1
        /\ \A w \in Workers : InTime(w) /\ Tx(w) = t =>
              copies[t] = 0 /\ \A v \in Workers : InTime(v) /\ Tx(v) = t => v = w

\* What is queued or handled has landed.
SeenLanded ==
    /\ \A i \in 1 .. Len(queue) : age[queue[i]] >= 0
    /\ \A w \in Workers : worker[w].at # "idle" => age[Tx(w)] >= 0

\* Only what the balances show to be a buy is copied.
BuysOnly ==
    /\ \A w \in Workers : worker[w].at = "copy" => Action(Chain[Tx(w)]) = "BUY"
    /\ \A t \in Txs : copies[t] > 0 => Action(Chain[t]) = "BUY"

CopyInv == ClaimHeld /\ OneHandler /\ SeenLanded /\ BuysOnly

LEMMA InitCopyInv == Init => CopyInv
<1> SUFFICES ASSUME Init PROVE CopyInv
  OBVIOUS
<1>1. \A w \in Workers : worker[w].at = "idle"
  BY IdleTyped DEF Init
<1>2. \A t \in Txs : copies[t] = 0
  BY DEF Init
<1>3. Len(queue) = 0
  BY EmptySeq DEF Init
<1> QED
  BY <1>1, <1>2, <1>3 DEF CopyInv, ClaimHeld, OneHandler, SeenLanded, BuysOnly, InTime, Handled

\* A step that copies nothing dated, takes no claim away and puts nobody in
\* time keeps the claims and the handlers: a transaction may land.
LEMMA QuietStep ==
    ASSUME TypeInv, ClaimHeld, OneHandler, undated \subseteq undated',
           \A t \in Txs : t \in undated \/ copies'[t] = copies[t],
           \A t \in Txs : claim'[t] \in Int /\ claim[t] <= claim'[t],
           \A t \in Txs : age'[t] = age[t] \/ age[t] = -1,
           \A w \in Workers : InTime(w)' => InTime(w) /\ Tx(w)' = Tx(w)
    PROVE  ClaimHeld' /\ OneHandler'
<1>1. \A t \in Txs : Handled(t)' => Handled(t)
  BY DEF Handled
<1>2. \A t \in Txs : Handled(t) => age'[t] = age[t]
  BY DEF ClaimHeld
<1>3. \A t \in Txs : claim[t] \in Int /\ age[t] \in Int
  BY BoundsTyped DEF TypeInv, ClocksTyped
<1>4. ASSUME NEW t \in Txs, Handled(t)'
      PROVE  age'[t] >= 0 /\ (age'[t] <= Gate => claim'[t] + age'[t] >= TTL)
  <2>1. /\ age'[t] = age[t] /\ age[t] >= 0
        /\ age[t] <= Gate => claim[t] + age[t] >= TTL
    BY <1>1, <1>2, <1>4 DEF ClaimHeld
  <2> QED
    BY <1>3, <2>1, BoundsTyped
<1>5. ClaimHeld'
  BY <1>4 DEF ClaimHeld
<1>6. \A w \in Workers : InTime(w) => Tx(w) \notin undated
  BY DEF InTime
<1>7. OneHandler'
  BY <1>6 DEF OneHandler
<1> QED
  BY <1>5, <1>7

\* A worker's step leaves the other workers where they were.
LEMMA OthersStay ==
    ASSUME TypeInv, NEW w \in Workers, Handle(w), NEW v \in Workers, v # w
    PROVE  worker'[v] = worker[v]
  BY DEF Handle, Take, ClaimSignature, Unusable, Parse, Firehose, Discard, ClaimTrade, ReadTrader,
         Copy, GiveUp, SignalExit, Raises, Finish, Step, TypeInv, WorkersTyped

\* The steps of a worker other than a claim or a copy put nobody in time; a
\* claim that raised may be there.
LEMMA HandleQuiet ==
    ASSUME TypeInv, NEW w \in Workers, Handle(w), ~Copy(w),
           ~(ClaimSignature(w) /\ claim[Tx(w)] = 0)
    PROVE  /\ copies' = copies /\ age' = age /\ undated \subseteq undated'
           /\ \A t \in Txs : claim'[t] \in Int /\ claim[t] <= claim'[t]
           /\ \A v \in Workers : InTime(v)' => InTime(v) /\ Tx(v)' = Tx(v)
<1>1. copies' = copies /\ age' = age /\ undated \subseteq undated'
  <2>1. copies' = copies /\ age' = age
    BY DEF Handle, Take, ClaimSignature, Unusable, Parse, Firehose, Discard, ClaimTrade,
           ReadTrader, GiveUp, SignalExit, Raises
  <2>2. [Next]_vars
    BY DEF Next
  <2> QED
    BY <2>1, <2>2, UndatedSteps
<1>2. ASSUME NEW t \in Txs PROVE claim'[t] \in Int /\ claim[t] <= claim'[t]
  <2>1. \A u \in Txs : claim[u] \in Nat /\ TTL \in Nat
    BY BoundsTyped DEF TypeInv, ClocksTyped
  <2>2. ASSUME ClaimSignature(w) PROVE claim' = claim
    <3>1. claim[Tx(w)] > 0 \/ claim[Tx(w)] = 0
      BY <2>2 DEF ClaimSignature
    <3> QED
      BY <2>2, <3>1 DEF ClaimSignature
  <2>3. ASSUME Raises(w), claim' # claim PROVE claim'[t] \in Int /\ claim[t] <= claim'[t]
    <3>1. claim' = [claim EXCEPT ![Tx(w)] = TTL] /\ claim[Tx(w)] = 0
      BY <2>3 DEF Raises
    <3>2. claim'[t] = IF t = Tx(w) THEN TTL ELSE claim[t]
      BY <3>1 DEF TypeInv, ClocksTyped
    <3> QED
      BY <2>1, <3>1, <3>2
  <2>4. ASSUME claim' # claim PROVE Raises(w)
    BY <2>2, <2>4 DEF Handle, Take, Unusable, Parse, Firehose, Discard, ClaimTrade, ReadTrader,
                      GiveUp, SignalExit
  <2> QED
    BY <2>1, <2>3, <2>4
<1>3. worker \in [Workers -> WorkerState]
  BY DEF TypeInv, WorkersTyped
<1>4. ASSUME NEW v \in Workers, v # w, InTime(v)' PROVE InTime(v) /\ Tx(v)' = Tx(v)
  <2>1. worker'[v] = worker[v]
    BY <1>4, OthersStay
  <2> QED
    BY <1>1, <1>4, <2>1 DEF InTime, Tx
<1>5. ASSUME InTime(w)' PROVE InTime(w) /\ Tx(w)' = Tx(w)
  <2>1. CASE Finish(w)
    BY <1>3, <1>5, <2>1, IdleTyped DEF Finish, InTime
  <2>2. CASE Take(w)
    <3>1. worker'[w].at = "claim"
      BY <1>3, <2>2 DEF Take
    <3> QED
      BY <1>5, <3>1 DEF InTime
  <2>3. CASE Parse(w)
    <3>0. PICK dated \in BOOLEAN :
             /\ worker' = [worker EXCEPT ![w].at = "trade",
                                         ![w].fresh = dated => age[Tx(w)] <= Gate]
             /\ undated' = IF dated THEN undated ELSE undated \cup {Tx(w)}
      BY <2>3 DEF Parse
    <3> DEFINE seen == dated => age[Tx(w)] <= Gate
    <3>1. /\ worker[w].at = "fetch"
          /\ worker' = [worker EXCEPT ![w].at = "trade", ![w].fresh = seen]
      BY <2>3, <3>0 DEF Parse
    <3>2. seen \in BOOLEAN
      OBVIOUS
    <3> HIDE DEF seen
    <3>3. worker'[w].at = "trade" /\ worker'[w].fresh = seen /\ worker'[w].tx = worker[w].tx
      BY <1>3, <3>1, <3>2 DEF WorkerState
    <3>4. seen /\ Tx(w)' = Tx(w) /\ Tx(w) \notin undated'
      BY <1>5, <3>3 DEF InTime, Tx
    <3>5. dated /\ Tx(w) \notin undated
      BY <3>0, <3>4
    <3> QED
      BY <3>1, <3>4, <3>5 DEF InTime, seen
  <2>4. ASSUME worker[w].at \in {"trade", "read"},
               NEW there \in {"discard", "read", "copy", "lookup"},
               worker' = [worker EXCEPT ![w].at = there]
        PROVE  InTime(w) /\ Tx(w)' = Tx(w)
    <3>1. /\ worker'[w].at = there /\ worker'[w].fresh = worker[w].fresh
          /\ worker'[w].tx = worker[w].tx
      BY <1>3, <2>4 DEF WorkerState
    <3> QED
      BY <1>1, <1>5, <2>4, <3>1 DEF InTime, Tx
  <2> QED
    BY <2>1, <2>2, <2>3, <2>4, WorkerSteps DEF TypeInv
<1> QED
  BY <1>1, <1>2, <1>4, <1>5

\* While the gate is open a signature can be claimed once.
LEMMA ClaimKeeps ==
    ASSUME TypeInv, CopyInv, NEW w \in Workers, ClaimSignature(w), claim[Tx(w)] = 0
    PROVE  ClaimHeld' /\ OneHandler'
<1> DEFINE t == Tx(w)
<1>0. /\ t \in Txs /\ worker \in [Workers -> WorkerState] /\ worker[w].at = "claim"
      /\ claim \in [Txs -> 0 .. TTL] /\ age \in [Txs -> -1 .. MaxAge]
      /\ copies \in [Txs -> Nat]
  BY DEF TypeInv, WorkersTyped, ClocksTyped, CopiesTyped, ClaimSignature
<1>1. /\ age' = age /\ copies' = copies /\ undated' = undated
      /\ worker' = [worker EXCEPT ![w].at = "fetch"]
      /\ claim' = [claim EXCEPT ![t] = TTL]
  BY <1>0, BoundsTyped DEF ClaimSignature, Step
<1>2. /\ worker'[w].at = "fetch" /\ Tx(w)' = t
      /\ \A v \in Workers : v # w => worker'[v] = worker[v] /\ Tx(v)' = Tx(v)
      /\ \A v \in Workers : v # w => (InTime(v)' <=> InTime(v))
      /\ ~InTime(w)
  BY <1>0, <1>1 DEF WorkerState, InTime, Tx
<1>3. /\ claim'[t] = TTL
      /\ \A u \in Txs : u # t => claim'[u] = claim[u]
      /\ age[t] >= 0
  BY <1>0, <1>1 DEF CopyInv, SeenLanded
<1>4. age[t] <= Gate => ~Handled(t)
  <2>1. claim[t] + age[t] < TTL \/ age[t] > Gate
    BY <1>0, BoundsTyped
  <2> QED
    BY <1>0, <2>1, BoundsTyped DEF CopyInv, ClaimHeld
<1>5. InTime(w)' <=> age[t] <= Gate /\ t \notin undated
  BY <1>1, <1>2 DEF InTime
<1> HIDE DEF t
<1>6. \A u \in Txs : u # t => (Handled(u)' <=> Handled(u))
  BY <1>1, <1>2 DEF Handled
<1>7. ClaimHeld'
  <2>1. ASSUME NEW u \in Txs, Handled(u)'
        PROVE  age[u] >= 0 /\ (age[u] <= Gate => claim'[u] + age[u] >= TTL)
    <3>1. CASE u = t
      BY <1>0, <1>3, <3>1, BoundsTyped
    <3>2. CASE u # t
      BY <1>3, <1>6, <2>1, <3>2 DEF CopyInv, ClaimHeld
    <3> QED
      BY <3>1, <3>2
  <2> QED
    BY <1>1, <2>1 DEF ClaimHeld
<1>8. ASSUME NEW u \in Txs
      PROVE  /\ u \notin undated => copies[u] <= 1
             /\ \A x \in Workers : InTime(x)' /\ Tx(x)' = u =>
                  copies[u] = 0 /\ \A v \in Workers : InTime(v)' /\ Tx(v)' = u => v = x
  <2>1. CASE u = t /\ age[t] <= Gate /\ t \notin undated
    <3>1. copies[u] = 0 /\ \A v \in Workers : ~(InTime(v) /\ Tx(v) = u)
      BY <1>0, <1>4, <2>1 DEF Handled
    <3> QED
      BY <1>2, <3>1
  <2>2. CASE ~(u = t /\ age[t] <= Gate /\ t \notin undated)
    <3>1. \A v \in Workers : InTime(v)' /\ Tx(v)' = u => InTime(v) /\ Tx(v) = u
      BY <1>2, <1>5, <2>2
    <3> QED
      BY <3>1 DEF CopyInv, OneHandler
  <2> QED
    BY <2>1, <2>2
<1> QED
  BY <1>1, <1>7, <1>8 DEF OneHandler

\* The one worker in time copies the transaction, and is done with it.
LEMMA CopyKeeps ==
    ASSUME TypeInv, CopyInv, NEW w \in Workers, Copy(w)
    PROVE  ClaimHeld' /\ OneHandler'
<1> DEFINE t == Tx(w)
<1>0. /\ t \in Txs /\ worker \in [Workers -> WorkerState] /\ copies \in [Txs -> Nat]
      /\ worker[w].at = "copy" /\ worker[w].fresh
      /\ \A u \in Txs : claim[u] \in Int
  BY BoundsTyped DEF TypeInv, WorkersTyped, CopiesTyped, ClocksTyped, Copy
<1>1. /\ age' = age /\ claim' = claim /\ undated' = undated
      /\ worker' = [worker EXCEPT ![w] = Idle]
      /\ copies' = [copies EXCEPT ![t] = copies[t] + 1]
  BY DEF Copy, Finish
<1>2. /\ worker'[w].at = "idle"
      /\ \A v \in Workers : v # w => worker'[v] = worker[v]
  BY <1>0, <1>1, IdleTyped
<1>3. /\ \A v \in Workers : InTime(v)' => v # w /\ InTime(v) /\ Tx(v)' = Tx(v)
  BY <1>1, <1>2 DEF InTime, Tx
<1> HIDE DEF t
<1>4. \A u \in Txs : u # t => copies'[u] = copies[u]
  BY <1>0, <1>1
<1>5. CASE t \in undated
  BY <1>0, <1>1, <1>3, <1>4, <1>5, QuietStep DEF CopyInv
<1>6. CASE t \notin undated
  <2>1. InTime(w) /\ Tx(w) = t
    BY <1>0, <1>6 DEF InTime, t
  <2>2. copies[t] = 0 /\ \A v \in Workers : InTime(v) /\ Tx(v) = t => v = w
    BY <1>0, <2>1 DEF CopyInv, OneHandler
  <2>3. Handled(t)
    BY <1>6, <2>1 DEF Handled
  <2>4. copies'[t] = 1
    BY <1>0, <1>1, <2>2
  <2>5. \A u \in Txs : Handled(u)' => Handled(u)
    BY <1>1, <1>3, <1>4, <2>3 DEF Handled
  <2>6. ClaimHeld'
    BY <1>1, <2>5 DEF CopyInv, ClaimHeld
  <2>7. \A v \in Workers : InTime(v)' => Tx(v)' # t
    BY <1>3, <2>2
  <2>8. OneHandler'
    BY <1>1, <1>3, <1>4, <2>4, <2>7 DEF CopyInv, OneHandler
  <2> QED
    BY <2>6, <2>8
<1> QED
  BY <1>5, <1>6

\* Time takes as much from a claim as it gives to the age.
LEMMA TickKeeps ==
    ASSUME TypeInv, CopyInv, Tick
    PROVE  CopyInv'
<1>0. /\ claim \in [Txs -> 0 .. TTL] /\ age \in [Txs -> -1 .. MaxAge]
  BY DEF TypeInv, ClocksTyped
<1>1. UNCHANGED <<worker, copies, undated, queue>>
  BY DEF Tick
<1>2. \A t \in Txs :
          /\ age'[t] = IF age[t] \in 0 .. MaxAge - 1 THEN age[t] + 1 ELSE age[t]
          /\ claim'[t] = IF claim[t] = 0 THEN 0 ELSE claim[t] - 1
  BY DEF Tick, Less
<1>3. \A t \in Txs : /\ age[t] <= age'[t]
                     /\ age[t] >= 0 /\ age'[t] <= Gate => claim[t] + age[t] <= claim'[t] + age'[t]
  BY <1>0, <1>2, BoundsTyped
<1>4. \A t \in Txs : age[t] \in Int /\ age'[t] \in Int /\ claim[t] \in Int /\ claim'[t] \in Int
  BY <1>0, <1>2, BoundsTyped
<1>5. \A w \in Workers : worker[w].at # "idle" => Tx(w) \in Txs
  BY DEF TypeInv, WorkersTyped
<1>6. \A w \in Workers : Tx(w)' = Tx(w)
  BY <1>1 DEF Tx
<1>7. \A w \in Workers : InTime(w)' => InTime(w)
  <2> SUFFICES ASSUME NEW w \in Workers, InTime(w)' PROVE InTime(w)
    OBVIOUS
  <2>1. CASE worker[w].at = "fetch"
    <3>1. Tx(w) \in Txs /\ age'[Tx(w)] <= Gate
      BY <1>1, <1>5, <1>6, <2>1 DEF InTime
    <3>2. age[Tx(w)] <= Gate
      BY <1>3, <1>4, <3>1, BoundsTyped
    <3> QED
      BY <1>1, <1>6, <2>1, <3>2 DEF InTime
  <2>2. CASE worker[w].at # "fetch"
    BY <1>1, <1>6, <2>2 DEF InTime
  <2> QED
    BY <2>1, <2>2
<1>8. \A t \in Txs : Handled(t)' => Handled(t)
  BY <1>1, <1>6, <1>7 DEF Handled
<1>9. ClaimHeld'
  <2> SUFFICES ASSUME NEW t \in Txs, Handled(t)'
               PROVE  age'[t] >= 0 /\ (age'[t] <= Gate => claim'[t] + age'[t] >= TTL)
    BY DEF ClaimHeld
  <2>1. age[t] >= 0 /\ (age[t] <= Gate => claim[t] + age[t] >= TTL)
    BY <1>8 DEF CopyInv, ClaimHeld
  <2> QED
    BY <1>3, <1>4, <2>1, BoundsTyped
<1>10. OneHandler'
  BY <1>1, <1>6, <1>7 DEF CopyInv, OneHandler
<1>11. SeenLanded'
  <2>1. ASSUME NEW i \in 1 .. Len(queue) PROVE age'[queue[i]] >= 0
    <3>1. queue[i] \in Txs /\ age[queue[i]] >= 0
      BY ElementOfSeq DEF TypeInv, QueueTyped, CopyInv, SeenLanded
    <3> QED
      BY <1>3, <1>4, <3>1
  <2>2. ASSUME NEW w \in Workers, worker[w].at # "idle" PROVE age'[Tx(w)] >= 0
    <3>1. Tx(w) \in Txs /\ age[Tx(w)] >= 0
      BY <1>5, <2>2 DEF CopyInv, SeenLanded
    <3> QED
      BY <1>3, <1>4, <3>1
  <2> QED
    BY <1>1, <1>6, <2>1, <2>2 DEF SeenLanded
<1>12. BuysOnly'
  BY <1>1, <1>6 DEF CopyInv, BuysOnly
<1> QED
  BY <1>9, <1>10, <1>11, <1>12 DEF CopyInv

\* Nothing that landed is undone.
LEMMA AgeGrows ==
    TypeInv /\ [Next]_vars => \A t \in Txs : age[t] >= 0 => age'[t] >= 0
<1> SUFFICES ASSUME TypeInv, [Next]_vars, NEW t \in Txs, age[t] >= 0 PROVE age'[t] >= 0
  OBVIOUS
<1>0. age \in [Txs -> -1 .. MaxAge]
  BY DEF TypeInv, ClocksTyped
<1>1. CASE Tick
  BY <1>0, <1>1, BoundsTyped DEF Tick
<1>2. ASSUME NEW u \in Txs, Land(u) PROVE age'[t] >= 0
  BY <1>0, <1>2 DEF Land
<1>3. ASSUME NEW w \in Workers, Handle(w) \/ Provider(w) PROVE age' = age
  BY <1>3 DEF Handle, Provider, signalVars, Take, ClaimSignature, Unusable, Parse, Firehose,
              Discard, ClaimTrade, ReadTrader, Copy, GiveUp, SignalExit, Raises
<1>4. CASE \/ \E u \in Txs : Deliver(u)
           \/ Crash \/ RefreshRead \/ RefreshApply \/ BudgetDiscard
           \/ \E x \in Wallets : BudgetSuspend(x)
           \/ Cooldown /\ UNCHANGED signalVars
           \/ UNCHANGED vars
  BY <1>4 DEF Deliver, Crash, RefreshRead, RefreshApply, BudgetDiscard, BudgetSuspend,
              signalVars, vars
<1> QED
  BY <1>1, <1>2, <1>3, <1>4 DEF Next

LEMMA NextSeenLanded == TypeInv /\ SeenLanded /\ [Next]_vars => SeenLanded'
<1> SUFFICES ASSUME TypeInv, SeenLanded, [Next]_vars PROVE SeenLanded'
  OBVIOUS
<1>0. /\ queue \in Seq(Txs) /\ Len(queue) \in Nat
      /\ worker \in [Workers -> WorkerState]
      /\ \A w \in Workers : worker[w].at # "idle" => Tx(w) \in Txs
      /\ \A t \in Txs : age[t] >= 0 => age'[t] >= 0
  BY LenProperties, AgeGrows DEF TypeInv, QueueTyped, WorkersTyped
<1> DEFINE Queued  == \A i \in 1 .. Len(queue') : age'[queue'[i]] >= 0
           Working == \A w \in Workers : worker'[w].at # "idle" => age'[worker'[w].tx] >= 0
<1>1. ASSUME queue' = queue PROVE Queued
  <2>1. \A i \in 1 .. Len(queue) : queue[i] \in Txs
    BY <1>0, ElementOfSeq
  <2> QED
    BY <1>0, <1>1, <2>1 DEF SeenLanded
<1>2. ASSUME \A w \in Workers : worker'[w].at # "idle" =>
                worker[w].at # "idle" /\ worker'[w].tx = worker[w].tx
      PROVE  Working
  BY <1>0, <1>2 DEF SeenLanded, Tx
<1>3. ASSUME NEW t \in Txs, Deliver(t) PROVE Queued /\ Working
  <2> DEFINE kept == IF Len(queue) = QueueSize THEN Tail(queue) ELSE queue
  <2>1. /\ kept \in Seq(Txs) /\ Len(kept) \in Nat
        /\ \A i \in 1 .. Len(kept) : kept[i] \in Txs /\ age[kept[i]] >= 0
    <3>1. CASE Len(queue) = QueueSize
      <4>1. queue # <<>>
        BY <3>1, BoundsTyped, EmptySeq
      <4>2. /\ Tail(queue) \in Seq(Txs) /\ Len(Tail(queue)) = Len(queue) - 1
            /\ \A i \in 1 .. Len(Tail(queue)) : Tail(queue)[i] = queue[i + 1]
        BY <1>0, <4>1, HeadTailProperties
      <4>3. \A i \in 1 .. Len(queue) : queue[i] \in Txs /\ age[queue[i]] >= 0
        BY <1>0, ElementOfSeq DEF SeenLanded
      <4>4. \A i \in 1 .. Len(Tail(queue)) : i + 1 \in 1 .. Len(queue)
        BY <1>0, <4>2
      <4>5. Len(Tail(queue)) \in Nat
        BY <4>2, LenProperties
      <4> QED
        BY <3>1, <4>2, <4>3, <4>4, <4>5
    <3>2. CASE Len(queue) # QueueSize
      BY <1>0, <3>2, ElementOfSeq DEF SeenLanded
    <3> QED
      BY <3>1, <3>2
  <2>2. queue' = Append(kept, t) /\ age' = age /\ worker' = worker /\ age[t] >= 0
    BY <1>3 DEF Deliver, Notified
  <2> HIDE DEF kept
  <2>3. /\ Len(queue') = Len(kept) + 1
        /\ \A i \in 1 .. Len(kept) : queue'[i] = kept[i]
        /\ queue'[Len(kept) + 1] = t
    BY <2>1, <2>2, AppendProperties
  <2>4. \A i \in 1 .. Len(queue') : i \in 1 .. Len(kept) \/ i = Len(kept) + 1
    BY <2>1, <2>3
  <2> QED
    BY <1>2, <2>1, <2>2, <2>3, <2>4
<1>4. ASSUME NEW w \in Workers, Take(w) PROVE Queued /\ Working
  <2>1. /\ queue # <<>> /\ queue' = Tail(queue) /\ age' = age
        /\ worker' = [worker EXCEPT ![w] = [tx |-> Head(queue), at |-> "claim", fresh |-> FALSE]]
    BY <1>4 DEF Take
  <2>2. /\ Len(queue') = Len(queue) - 1
        /\ \A i \in 1 .. Len(queue') : queue'[i] = queue[i + 1]
        /\ Head(queue) = queue[1]
    BY <1>0, <2>1, HeadTailProperties
  <2>3. 1 \in 1 .. Len(queue) /\ \A i \in 1 .. Len(queue') : i + 1 \in 1 .. Len(queue)
    BY <1>0, <2>1, <2>2, EmptySeq
  <2>4. Queued
    BY <2>1, <2>2, <2>3 DEF SeenLanded
  <2>5. Working
    BY <1>0, <2>1, <2>2, <2>3 DEF SeenLanded, Tx
  <2> QED
    BY <2>4, <2>5
<1>5. ASSUME NEW w \in Workers, Handle(w), ~Take(w) PROVE Queued /\ Working
  <2>1. queue' = queue
    BY <1>5 DEF Handle, ClaimSignature, Unusable, Parse, Firehose, Discard, ClaimTrade,
                ReadTrader, Copy, GiveUp, SignalExit, Raises
  <2>2. \A v \in Workers : v # w => worker'[v] = worker[v]
    BY <1>5, OthersStay
  <2>3. worker'[w].at # "idle" => worker[w].at # "idle" /\ worker'[w].tx = worker[w].tx
    <3>1. CASE Finish(w)
      BY <1>0, <3>1, IdleTyped DEF Finish
    <3>2. CASE Parse(w)
      BY <1>0, <3>2 DEF Parse, WorkerState
    <3>3. ASSUME NEW there \in Stage, worker[w].at # "idle",
                 worker' = [worker EXCEPT ![w].at = there]
          PROVE  worker'[w].tx = worker[w].tx
      BY <1>0, <3>3 DEF WorkerState
    <3> QED
      BY <1>5, <3>1, <3>2, <3>3, WorkerSteps DEF TypeInv, Step, Stage
  <2> QED
    BY <1>1, <1>2, <2>1, <2>2, <2>3
<1>6. ASSUME Crash PROVE Queued /\ Working
  <2>1. queue' = <<>> /\ \A w \in Workers : worker'[w].at = "idle"
    BY <1>6, IdleTyped DEF Crash
  <2> QED
    BY <2>1, EmptySeq
<1>7. ASSUME \/ \E t \in Txs : Land(t)
             \/ Tick \/ RefreshRead \/ RefreshApply \/ BudgetDiscard
             \/ \E x \in Wallets : BudgetSuspend(x)
             \/ \E w \in Workers : Provider(w)
             \/ Cooldown /\ UNCHANGED signalVars
             \/ UNCHANGED vars
      PROVE  Queued /\ Working
  <2>1. queue' = queue /\ worker' = worker
    BY <1>7 DEF Land, Tick, RefreshRead, RefreshApply, BudgetDiscard, BudgetSuspend, Provider,
                signalVars, vars
  <2> QED
    BY <1>1, <1>2, <2>1
<1>8. Queued /\ Working
  BY <1>3, <1>4, <1>5, <1>6, <1>7 DEF Next
<1> QED
  BY <1>8 DEF SeenLanded, Tx

\* A worker reaches the order only through the trader's row, with a buy.
LEMMA NextBuysOnly == TypeInv /\ BuysOnly /\ [Next]_vars => BuysOnly'
<1> SUFFICES ASSUME TypeInv, BuysOnly, [Next]_vars PROVE BuysOnly'
  OBVIOUS
<1>0. worker \in [Workers -> WorkerState] /\ copies \in [Txs -> Nat]
  BY DEF TypeInv, WorkersTyped, CopiesTyped
<1> DEFINE Ordering == \A v \in Workers : worker'[v].at = "copy" =>
                          Action(Chain[worker'[v].tx]) = "BUY"
           Copied   == \A t \in Txs : copies'[t] > 0 => Action(Chain[t]) = "BUY"
<1>1. Copied
  <2>1. ASSUME NEW w \in Workers, Copy(w) PROVE Copied
    <3>1. Action(Chain[Tx(w)]) = "BUY" /\ copies' = [copies EXCEPT ![Tx(w)] = copies[Tx(w)] + 1]
      BY <2>1 DEF Copy, BuysOnly
    <3> QED
      BY <1>0, <3>1 DEF BuysOnly
  <2> QED
    BY <2>1, CopiesSteps DEF BuysOnly
<1>2. ASSUME NEW w \in Workers, Handle(w) PROVE Ordering
  <2>1. \A v \in Workers : v # w => worker'[v] = worker[v]
    BY <1>2, OthersStay
  <2>2. ASSUME worker'[w].at = "copy" PROVE Action(Chain[worker'[w].tx]) = "BUY"
    <3>1. CASE ReadTrader(w)
      <4>1. ~Finish(w)
        BY <1>0, <2>2, IdleTyped DEF Finish
      <4>2. CASE Step(w, "read", "lookup")
        BY <1>0, <2>2, <4>2 DEF Step, WorkerState
      <4>3. CASE Action(Chain[Tx(w)]) = "BUY" /\ Step(w, "read", "copy")
        BY <1>0, <4>3 DEF Step, WorkerState, Tx
      <4> QED
        BY <3>1, <4>1, <4>2, <4>3 DEF ReadTrader
    <3>2. CASE ~ReadTrader(w)
      <4>1. worker'[w].at # "copy"
        BY <1>0, <1>2, <3>2, IdleTyped
           DEF Handle, Take, ClaimSignature, Unusable, Parse, Firehose, Discard, ClaimTrade, Copy,
               GiveUp, SignalExit, Raises, Finish, Step, WorkerState
      <4> QED
        BY <2>2, <4>1
    <3> QED
      BY <3>1, <3>2
  <2> QED
    BY <2>1, <2>2 DEF BuysOnly, Tx
<1>3. ASSUME Crash PROVE Ordering
  <2>1. \A v \in Workers : worker'[v].at = "idle"
    BY <1>3, IdleTyped DEF Crash
  <2> QED
    BY <2>1
<1>4. ASSUME \/ \E t \in Txs : Land(t) \/ Deliver(t)
             \/ Tick \/ RefreshRead \/ RefreshApply \/ BudgetDiscard
             \/ \E x \in Wallets : BudgetSuspend(x)
             \/ \E w \in Workers : Provider(w)
             \/ Cooldown /\ UNCHANGED signalVars
             \/ UNCHANGED vars
      PROVE  Ordering
  <2>1. worker' = worker
    BY <1>4 DEF Land, Deliver, Tick, RefreshRead, RefreshApply, BudgetDiscard, BudgetSuspend,
                Provider, signalVars, vars
  <2> QED
    BY <2>1 DEF BuysOnly, Tx
<1>5. Ordering
  BY <1>2, <1>3, <1>4 DEF Next
<1> QED
  BY <1>1, <1>5 DEF BuysOnly, Tx

\* No step breaks the invariant.
LEMMA NextCopyInv == TypeInv /\ CopyInv /\ [Next]_vars => CopyInv'
<1> SUFFICES ASSUME TypeInv, CopyInv, [Next]_vars PROVE CopyInv'
  OBVIOUS
<1>1. SeenLanded' /\ BuysOnly'
  BY NextSeenLanded, NextBuysOnly DEF CopyInv
<1>2. ASSUME NEW w \in Workers, Copy(w) PROVE ClaimHeld' /\ OneHandler'
  BY <1>2, CopyKeeps
<1>3. ASSUME NEW w \in Workers, ClaimSignature(w), claim[Tx(w)] = 0
      PROVE  ClaimHeld' /\ OneHandler'
  BY <1>3, ClaimKeeps
<1>4. ASSUME NEW w \in Workers, Handle(w), ~Copy(w), ~(ClaimSignature(w) /\ claim[Tx(w)] = 0)
      PROVE  ClaimHeld' /\ OneHandler'
  BY <1>4, HandleQuiet, QuietStep DEF CopyInv
<1>5. ASSUME Tick PROVE CopyInv'
  BY <1>5, TickKeeps
<1>6. ASSUME copies' = copies, claim' = claim, undated' = undated,
             \A t \in Txs : age'[t] = age[t] \/ age[t] = -1,
             \A w \in Workers : InTime(w)' => InTime(w) /\ Tx(w)' = Tx(w)
      PROVE  ClaimHeld' /\ OneHandler'
  <2>1. \A t \in Txs : claim[t] \in Int
    BY BoundsTyped DEF TypeInv, ClocksTyped
  <2> QED
    BY <1>6, <2>1, QuietStep DEF CopyInv
<1>7. ASSUME NEW t \in Txs, Land(t) PROVE ClaimHeld' /\ OneHandler'
  <2>1. /\ copies' = copies /\ claim' = claim /\ undated' = undated /\ worker' = worker
        /\ \A u \in Txs : age'[u] = age[u] \/ age[u] = -1
    BY <1>7 DEF Land, TypeInv, ClocksTyped
  <2>2. \A w \in Workers : worker[w].at = "fetch" => Tx(w) \in Txs
    BY DEF TypeInv, WorkersTyped
  <2>3. \A w \in Workers : InTime(w)' => InTime(w) /\ Tx(w)' = Tx(w)
    BY <2>1, <2>2, BoundsTyped DEF InTime, Tx
  <2> QED
    BY <1>6, <2>1, <2>3
<1>8. ASSUME Crash PROVE ClaimHeld' /\ OneHandler'
  <2>1. /\ copies' = copies /\ claim' = claim /\ undated' = undated /\ age' = age
        /\ \A w \in Workers : ~InTime(w)'
    BY <1>8, IdleTyped DEF Crash, InTime
  <2> QED
    BY <1>6, <2>1
<1>9. ASSUME \/ \E t \in Txs : Deliver(t)
             \/ RefreshRead \/ RefreshApply \/ BudgetDiscard
             \/ \E x \in Wallets : BudgetSuspend(x)
             \/ \E w \in Workers : Provider(w)
             \/ Cooldown /\ UNCHANGED signalVars
             \/ UNCHANGED vars
      PROVE  ClaimHeld' /\ OneHandler'
  <2>1. /\ copies' = copies /\ claim' = claim /\ undated' = undated /\ age' = age
        /\ worker' = worker
    BY <1>9 DEF Deliver, RefreshRead, RefreshApply, BudgetDiscard, BudgetSuspend, Provider,
                signalVars, vars
  <2>2. \A w \in Workers : InTime(w)' => InTime(w) /\ Tx(w)' = Tx(w)
    BY <2>1 DEF InTime, Tx
  <2> QED
    BY <1>6, <2>1, <2>2
<1>10. ClaimHeld' /\ OneHandler'
  BY <1>2, <1>3, <1>4, <1>5, <1>7, <1>8, <1>9 DEF Next, CopyInv
<1> QED
  BY <1>1, <1>10 DEF CopyInv

\* A transaction the provider has always dated is copied at most once, and
\* nothing but a buy is ever copied: for any number of workers, any chain,
\* replays, lost notifications, exceptions and restarts.  What counts is that a
\* claim outlives the gate.
THEOREM BuysAreCopiedOnce == Spec => []OneCopyPerBuy
<1>1. \A tx : Action(tx) = "BUY" => tx.tokens = "up" /\ tx.money = "down"
  BY DEF Action
<1>2. CopyInv => OneCopyPerBuy
  BY <1>1 DEF CopyInv, OneHandler, BuysOnly, OneCopyPerBuy
<1>3. TypeInv /\ CopyInv /\ [Next]_vars => (TypeInv /\ CopyInv)'
  BY NextTypeInv, NextCopyInv
<1>4. Spec => [](TypeInv /\ CopyInv)
  BY <1>3, InitTypeInv, InitCopyInv, PTL DEF Spec
<1> QED
  BY <1>2, <1>4, PTL

=============================================================================
