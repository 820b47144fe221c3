----------------------------- MODULE SignalPath -----------------------------
(***************************************************************************)
(* The hot path of the decision service: the websocket delivers signatures *)
(* of watched wallets into a bounded queue, workers claim each in Redis,   *)
(* fetch its transaction through the provider's breaker, parse it, and     *)
(* copy buys or signal sells.  Two pollers and a firehose check change     *)
(* what is watched meanwhile.  Notifications are lost, repeated and        *)
(* reordered, claims expire, calls fail, Redis and the database raise, and *)
(* the process crashes.  Orders are the paper executor's: a live one is    *)
(* also refused when the same trade was ordered before (OrderExecution).   *)
(***************************************************************************)
EXTENDS ProviderBreaker, Sequences, SequencesExt

CONSTANTS
    Workers,        \* the workers; each is a caller of the provider
    Chain,          \* the source transactions, in the order they land
    Wallets,
    Followed,       \* the wallets whose buys are copied at first
    NoWallet,
    QueueSize,
    Gate,           \* max_detection_age, in ticks
    TTL,            \* life of a claim, in ticks
    MaxAge,         \* bound on the clock of a transaction
    MaxDeliveries,  \* bound on the notifications
    MaxCrashes      \* bound on the restarts of the process

Txs == DOMAIN Chain

ASSUME SignalAssumption ==
    /\ Workers = Callers /\ Direct = {}
    /\ NoWallet \notin Wallets
    /\ \A t \in Txs : Chain[t].wallet \in Wallets
    /\ QueueSize \in Nat \ {0}
    /\ {Gate, TTL, MaxAge, MaxDeliveries, MaxCrashes} \subseteq Nat
    /\ Gate < TTL      \* 15 seconds and an hour
    /\ Gate < MaxAge   \* the clock runs past the gate

VARIABLES
    age,        \* age[t]: ticks since t landed, -1 before
    delivered,  \* notifications so far
    queue,      \* asyncio.Queue of the service
    claim,      \* claim[t]: ticks the claim on t's signature has left
    tradeClaim, \* tradeClaim[t]: the same for the trade parsed from t
    worker,     \* worker[w]: [tx, at, fresh]: what w handles, where, and whether in time
    copies,     \* copies[t]: positions opened for t
    undated,    \* ghost: transactions once parsed from an answer without a block time
    mirrored,   \* wallets whose sell was signalled to the position service
    status,     \* status[x]: the trader's row: "followed", "candidate" or "suspended"
    watched,    \* self.wallets, and the subscription made from it
    poll,       \* what refresh_wallets has read and not yet applied
    traffic,    \* wallets with trades counted in _traffic
    cut,        \* wallet the budget poller is suspending
    crashes

signalVars == <<age, delivered, queue, claim, tradeClaim, worker, copies, undated,
                mirrored, status, watched, poll, traffic, cut, crashes>>
vars == <<breakerVars, signalVars>>

-----------------------------------------------------------------------------
(* parse_transaction: a trade is what the balances of the wallet say *)

\* tokens and money: the signs of the wallet's deltas of the traded token and
\* of the quote side; left: whether it keeps any of the token; dust: less than
\* a dollar changed hands; err: the transaction failed on chain.
Action(tx) ==
    CASE tx.lp -> "LP_INTERACTION"
      [] ~tx.lp /\ tx.tokens = "up" /\ tx.money = "down" -> "BUY"
      [] ~tx.lp /\ tx.tokens = "down" /\ tx.money = "up" ->
            IF tx.left THEN "PARTIAL_SELL" ELSE "SELL"
      [] ~tx.lp /\ tx.tokens = "up" /\ tx.money = "same" -> "TOKEN_RECEIPT"
      [] ~tx.lp /\ tx.tokens = "down" /\ tx.money = "same" -> "TRANSFER"
      [] OTHER -> "UNKNOWN"

Copyable == {"BUY", "SELL", "PARTIAL_SELL"}

\* What _parse_for_watched keeps of it.
IsTrade(tx) ==
    /\ ~tx.err
    /\ Action(tx) # "UNKNOWN"
    /\ Action(tx) \in Copyable => ~tx.dust

Idle == [tx |-> 0, at |-> "idle", fresh |-> FALSE]

Init ==
    /\ BreakerInit
    /\ age = [t \in Txs |-> -1]
    /\ delivered = 0
    /\ queue = <<>>
    /\ claim = [t \in Txs |-> 0]
    /\ tradeClaim = [t \in Txs |-> 0]
    /\ worker = [w \in Workers |-> Idle]
    /\ copies = [t \in Txs |-> 0]
    /\ undated = {}
    /\ mirrored = {}
    /\ status = [x \in Wallets |-> IF x \in Followed THEN "followed" ELSE "candidate"]
    /\ watched = Wallets
    /\ poll = Wallets
    /\ traffic = {}
    /\ cut = NoWallet
    /\ crashes = 0

Stage == {"idle", "claim", "fetch", "trade", "discard", "read", "copy", "lookup"}

\* Every variable stays in its type, and the queue within its size.
SignalTypeOK ==
    /\ BreakerTypeOK
    /\ age \in [Txs -> -1 .. MaxAge]
    /\ delivered \in 0 .. MaxDeliveries
    /\ queue \in BoundedSeq(Txs, QueueSize)
    /\ claim \in [Txs -> 0 .. TTL] /\ tradeClaim \in [Txs -> 0 .. TTL]
    /\ worker \in [Workers -> [tx : Txs \cup {0}, at : Stage, fresh : BOOLEAN]]
    /\ copies \in [Txs -> Nat] /\ undated \subseteq Txs
    /\ mirrored \subseteq Wallets
    /\ status \in [Wallets -> {"followed", "candidate", "suspended"}]
    /\ watched \subseteq Wallets /\ poll \subseteq Wallets /\ traffic \subseteq Wallets
    /\ cut \in Wallets \cup {NoWallet}
    /\ crashes \in 0 .. MaxCrashes

-----------------------------------------------------------------------------
(* The chain, Redis and the websocket *)

Land(t) ==
    /\ age[t] = -1
    /\ \A u \in Txs : u < t => age[u] >= 0
    /\ age' = [age EXCEPT ![t] = 0]
    /\ UNCHANGED <<breakerVars, undated, delivered, queue, claim, tradeClaim, worker, copies,
                   mirrored, status, watched, poll, traffic, cut, crashes>>

Less(ttl) == [t \in Txs |-> IF ttl[t] = 0 THEN 0 ELSE ttl[t] - 1]

\* Time passes for the transactions and for the claims.
Tick ==
    /\ \E t \in Txs : age[t] \in 0 .. MaxAge - 1
    /\ age' = [t \in Txs |-> IF age[t] \in 0 .. MaxAge - 1 THEN age[t] + 1 ELSE age[t]]
    /\ claim' = Less(claim)
    /\ tradeClaim' = Less(tradeClaim)
    /\ UNCHANGED <<breakerVars, undated, delivered, queue, worker, copies, mirrored, status,
                   watched, poll, traffic, cut, crashes>>

\* The subscription is of the watched wallets; a notification may never come,
\* and comes again when the stream reconnects.
Notified(t) == age[t] >= 0 /\ Chain[t].wallet \in watched

\* Mutant: a full queue grows.
DeliverAnyway(t) ==
    /\ Notified(t)
    /\ delivered < MaxDeliveries
    /\ delivered' = delivered + 1
    /\ queue' = Append(queue, t)
    /\ UNCHANGED <<breakerVars, undated, age, claim, tradeClaim, worker, copies, mirrored,
                   status, watched, poll, traffic, cut, crashes>>

\* _on_signature: a full queue drops its oldest entry.
Deliver(t) ==
    /\ Notified(t)
    /\ delivered < MaxDeliveries
    /\ delivered' = delivered + 1
    /\ queue' = Append(IF Len(queue) = QueueSize THEN Tail(queue) ELSE queue, t)
    /\ UNCHANGED <<breakerVars, undated, age, claim, tradeClaim, worker, copies, mirrored,
                   status, watched, poll, traffic, cut, crashes>>

-----------------------------------------------------------------------------
(* A worker: _handle and _process_trade, an action per await *)

Tx(w) == worker[w].tx
Wallet(w) == Chain[Tx(w)].wallet

Step(w, here, there) ==
    /\ worker[w].at = here
    /\ worker' = [worker EXCEPT ![w].at = there]

\* Whatever a handler returns or raises, the worker goes on.
Finish(w) == worker' = [worker EXCEPT ![w] = Idle]

Take(w) ==
    /\ worker[w].at = "idle"
    /\ queue # <<>>
    /\ worker' = [worker EXCEPT ![w] = [tx |-> Head(queue), at |-> "claim", fresh |-> FALSE]]
    /\ queue' = Tail(queue)
    /\ UNCHANGED <<breakerVars, undated, age, delivered, claim, tradeClaim, copies, mirrored,
                   status, watched, poll, traffic, cut, crashes>>

\* claim_signal("sig:..."), SET NX with a TTL, before any network work; then
\* get_transaction.
ClaimSignature(w) ==
    /\ worker[w].at = "claim"
    /\ \/ /\ claim[Tx(w)] = 0
          /\ Step(w, "claim", "fetch")
          /\ claim' = [claim EXCEPT ![Tx(w)] = TTL]
          /\ Begin(w)
       \/ /\ claim[Tx(w)] > 0
          /\ Finish(w)
          /\ UNCHANGED <<claim, breakerVars>>
    /\ UNCHANGED <<undated, age, delivered, queue, tradeClaim, copies, mirrored, status,
                   watched, poll, traffic, cut, crashes>>

\* Mutant: an exception ends the worker.
UnusableKills(w) ==
    /\ worker[w].at = "fetch"
    /\ call[w] \in {"failed", "none"}
    /\ Hangup(w)
    /\ Step(w, "fetch", "dead")
    /\ UNCHANGED <<undated, age, delivered, queue, claim, tradeClaim, copies, mirrored, status,
                   watched, poll, traffic, cut, crashes>>

\* The call failed, or the endpoint does not know the transaction yet, or the
\* transaction is no trade of a watched wallet: the signal is gone, and its
\* claim stays.
Unusable(w) ==
    /\ worker[w].at = "fetch"
    /\ \/ call[w] \in {"failed", "none"}
       \/ ~IsTrade(Chain[Tx(w)])
       \/ Wallet(w) \notin watched
    /\ Hangup(w)
    /\ Finish(w)
    /\ UNCHANGED <<undated, age, delivered, queue, claim, tradeClaim, copies, mirrored, status,
                   watched, poll, traffic, cut, crashes>>

\* Mutant: the age of a trade is measured from its notification.
ParseFromNotice(w) ==
    /\ worker[w].at = "fetch" /\ call[w] = "ok"
    /\ IsTrade(Chain[Tx(w)]) /\ Wallet(w) \in watched
    /\ Hangup(w)
    /\ worker' = [worker EXCEPT ![w].at = "trade", ![w].fresh = TRUE]
    /\ UNCHANGED <<undated, age, delivered, queue, claim, tradeClaim, copies, mirrored, status,
                   watched, poll, traffic, cut, crashes>>

\* An answer without a block time makes a trade of this moment, however old.
\* (The gate measures the age at the decision, a little later than here.)
Parse(w) ==
    /\ worker[w].at = "fetch" /\ call[w] = "ok"
    /\ IsTrade(Chain[Tx(w)]) /\ Wallet(w) \in watched
    /\ Hangup(w)
    /\ \E dated \in BOOLEAN :
          /\ worker' = [worker EXCEPT ![w].at = "trade",
                                      ![w].fresh = dated => age[Tx(w)] <= Gate]
          /\ undated' = IF dated THEN undated ELSE undated \cup {Tx(w)}
    /\ UNCHANGED <<age, delivered, queue, claim, tradeClaim, copies, mirrored, status, watched,
                   poll, traffic, cut, crashes>>

\* _check_firehose suspends a wallet that streams too much, and stops watching
\* it after telling the operator; or the commit is done and raises.
Firehose(w) ==
    /\ worker[w].at = "trade"
    /\ traffic' = traffic \cup {Wallet(w)}
    /\ Step(w, "trade", "discard") \/ Finish(w)
    /\ status' = [status EXCEPT ![Wallet(w)] = "suspended"]
    /\ UNCHANGED <<breakerVars, undated, age, delivered, queue, claim, tradeClaim, copies,
                   mirrored, watched, poll, cut, crashes>>

Discard(w) ==
    /\ worker[w].at = "discard"
    /\ watched' = watched \ {Wallet(w)}
    /\ Finish(w)
    /\ UNCHANGED <<breakerVars, undated, age, delivered, queue, claim, tradeClaim, copies,
                   mirrored, status, poll, traffic, cut, crashes>>

\* claim_signal(trade.dedupe_key), then the trade is saved.
ClaimTrade(w) ==
    /\ worker[w].at = "trade"
    /\ traffic' = traffic \cup {Wallet(w)}
    /\ \/ /\ tradeClaim[Tx(w)] = 0
          /\ Step(w, "trade", "read")
          /\ tradeClaim' = [tradeClaim EXCEPT ![Tx(w)] = TTL]
       \/ /\ tradeClaim[Tx(w)] > 0
          /\ Finish(w)
          /\ UNCHANGED tradeClaim
    /\ UNCHANGED <<breakerVars, undated, age, delivered, queue, claim, copies, mirrored,
                   status, watched, poll, cut, crashes>>

\* The trader's row decides whether a buy is copied; a sell is looked up
\* whoever made it.
ReadTrader(w) ==
    /\ worker[w].at = "read"
    /\ \/ /\ Action(Chain[Tx(w)]) = "BUY" /\ status[Wallet(w)] = "followed"
          /\ Step(w, "read", "copy")
       \/ /\ Action(Chain[Tx(w)]) \in Copyable \ {"BUY"}
          /\ Step(w, "read", "lookup")
       \/ /\ \/ Action(Chain[Tx(w)]) \notin Copyable
             \/ Action(Chain[Tx(w)]) = "BUY" /\ status[Wallet(w)] # "followed"
          /\ Finish(w)
    /\ UNCHANGED <<breakerVars, undated, age, delivered, queue, claim, tradeClaim, copies,
                   mirrored, status, watched, poll, traffic, cut, crashes>>

\* Redis or the database raises where a handler waits for it; a claim may have
\* been written all the same.
Raises(w) ==
    /\ worker[w].at \in {"claim", "trade", "read", "lookup"}
    /\ Finish(w)
    /\ traffic' = IF worker[w].at = "trade" THEN traffic \cup {Wallet(w)} ELSE traffic
    /\ \/ UNCHANGED <<claim, tradeClaim>>
       \/ /\ worker[w].at = "claim" /\ claim[Tx(w)] = 0
          /\ claim' = [claim EXCEPT ![Tx(w)] = TTL]
          /\ UNCHANGED tradeClaim
       \/ /\ worker[w].at = "trade" /\ tradeClaim[Tx(w)] = 0
          /\ tradeClaim' = [tradeClaim EXCEPT ![Tx(w)] = TTL]
          /\ UNCHANGED claim
    /\ UNCHANGED <<breakerVars, undated, age, delivered, queue, copies, mirrored, status,
                   watched, poll, cut, crashes>>

\* evaluate_entry approves a buy detected in time, and the order fills.
Copy(w) ==
    /\ worker[w].at = "copy"
    /\ worker[w].fresh
    /\ copies' = [copies EXCEPT ![Tx(w)] = @ + 1]
    /\ Finish(w)
    /\ UNCHANGED <<breakerVars, undated, age, delivered, queue, claim, tradeClaim, mirrored,
                   status, watched, poll, traffic, cut, crashes>>

\* Another gate, the sizing or the ledger rejects it, it does not fill, or
\* something raises.
GiveUp(w) ==
    /\ worker[w].at = "copy"
    /\ Finish(w)
    /\ UNCHANGED <<breakerVars, undated, age, delivered, queue, claim, tradeClaim, copies,
                   mirrored, status, watched, poll, traffic, cut, crashes>>

Held(x) == \E t \in Txs : Chain[t].wallet = x /\ copies[t] > 0

\* _handle_source_exit: a sell that overtakes its buy finds no position.
SignalExit(w) ==
    /\ worker[w].at = "lookup"
    /\ mirrored' = IF Held(Wallet(w)) THEN mirrored \cup {Wallet(w)} ELSE mirrored
    /\ Finish(w)
    /\ UNCHANGED <<breakerVars, undated, age, delivered, queue, claim, tradeClaim, copies,
                   status, watched, poll, traffic, cut, crashes>>

-----------------------------------------------------------------------------
(* What is watched *)

Watchlist == {x \in Wallets : status[x] # "suspended"}

\* refresh_wallets reads the rows, then replaces the set and the subscription;
\* a suspension in between is undone until the next refresh.
RefreshRead ==
    /\ poll' = Watchlist
    /\ UNCHANGED <<breakerVars, undated, age, delivered, queue, claim, tradeClaim, worker,
                   copies, mirrored, status, watched, traffic, cut, crashes>>

\* Mutant: a refresh only ever adds what it read.
RefreshAdds ==
    /\ watched' = watched \cup poll
    /\ UNCHANGED <<breakerVars, undated, age, delivered, queue, claim, tradeClaim, worker,
                   copies, mirrored, status, poll, traffic, cut, crashes>>

RefreshApply ==
    /\ watched' = poll
    /\ UNCHANGED <<breakerVars, undated, age, delivered, queue, claim, tradeClaim, worker,
                   copies, mirrored, status, poll, traffic, cut, crashes>>

\* _budget_poller: the noisiest wallet goes when the burn exceeds the plan.
BudgetSuspend(x) ==
    /\ cut = NoWallet
    /\ x \in traffic
    /\ cut' = x
    /\ status' = [status EXCEPT ![x] = "suspended"]
    /\ UNCHANGED <<breakerVars, undated, age, delivered, queue, claim, tradeClaim, worker,
                   copies, mirrored, watched, poll, traffic, crashes>>

BudgetDiscard ==
    /\ cut # NoWallet
    /\ watched' = watched \ {cut}
    /\ traffic' = traffic \ {cut}
    /\ cut' = NoWallet
    /\ UNCHANGED <<breakerVars, undated, age, delivered, queue, claim, tradeClaim, worker,
                   copies, mirrored, status, poll, crashes>>

\* The process dies and is started again: the queue, the workers and the
\* breaker are gone; Redis and the database are not.
Crash ==
    /\ crashes < MaxCrashes
    /\ crashes' = crashes + 1
    /\ queue' = <<>>
    /\ worker' = [w \in Workers |-> Idle]
    /\ failures' = 0 /\ opened' = "closed"
    /\ call' = [c \in Callers |-> "idle"]
    /\ watched' = Watchlist /\ poll' = Watchlist
    /\ traffic' = {} /\ cut' = NoWallet
    /\ UNCHANGED <<blame, undated, age, delivered, claim, tradeClaim, copies, mirrored,
                   status>>

-----------------------------------------------------------------------------

Provider(w) == (Answer(w) \/ Rejected(w) \/ NoAnswer(w)) /\ UNCHANGED signalVars

Handle(w) ==
    \/ Take(w) \/ ClaimSignature(w) \/ Unusable(w) \/ Parse(w) \/ Firehose(w) \/ Discard(w)
    \/ ClaimTrade(w) \/ ReadTrader(w) \/ Copy(w) \/ GiveUp(w) \/ SignalExit(w) \/ Raises(w)

Next ==
    \/ \E t \in Txs : Land(t) \/ Deliver(t)
    \/ Tick \/ Crash
    \/ \E w \in Workers : Handle(w) \/ Provider(w)
    \/ Cooldown /\ UNCHANGED signalVars
    \/ RefreshRead \/ RefreshApply \/ BudgetDiscard
    \/ \E x \in Wallets : BudgetSuspend(x)

\* Requests have timeouts, handlers await nothing else for ever, and the
\* pollers run every 30 and 60 seconds.
Fairness ==
    /\ \A w \in Workers : WF_vars(Handle(w)) /\ WF_vars(Provider(w))
    /\ WF_vars(BudgetDiscard)
    /\ WF_vars(RefreshRead) /\ WF_vars(RefreshApply)

Spec == Init /\ [][Next]_vars /\ Fairness

-----------------------------------------------------------------------------
(* Properties *)

\* Duplicate signals never produce duplicate orders, through replays, two
\* workers on the same signature, expired claims and restarts, as long as the
\* provider dates the transaction: undated, a replay after its claims expired
\* passes for a trade of now.  And only a buy that was paid for is copied.
OneCopyPerBuy ==
    \A t \in Txs :
        /\ t \notin undated => copies[t] <= 1
        /\ copies[t] > 0 => Chain[t].tokens = "up" /\ Chain[t].money = "down"

\* A wallet suspended for its traffic ends up unwatched for good, whatever a
\* refresh that had already read the old watchlist does.  (Nobody lifts a
\* suspension here; an operator may.)
SuspensionTakesHold ==
    \A x \in Wallets : [](status[x] = "suspended" => <>[](x \notin watched))

\* No failure of the provider, of Redis, of the database or of a handler stops
\* the workers: the queue is emptied again and again.
WorkersSurvive == []<>(queue = <<>> /\ \A w \in Workers : worker[w].at = "idle")

=============================================================================
