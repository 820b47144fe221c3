--------------------------- MODULE OrderExecution ---------------------------
(***************************************************************************)
(* LiveExecutor.execute: concurrent attempts to execute orders, the        *)
(* idempotency key each claims in Redis, the signer, and the chain, which  *)
(* may land a broadcast transaction, fail it, or never show it, at any     *)
(* time after the broadcast and whatever the RPC answered.                 *)
(* Every await of execute() that can fail or be the last thing the process *)
(* does is a step of its own.                                              *)
(***************************************************************************)
EXTENDS Naturals, FiniteSets

CONSTANTS
    Keys,       \* idempotency keys
    Attempts,   \* calls of execute(), each for one order
    NoKey       \* an attempt that has not started

ASSUME ExecutionAssumption ==
    /\ IsFiniteSet(Attempts)
    /\ NoKey \notin Keys
    /\ {"free", "pending"} \cap Attempts = {}

VARIABLES
    idem,       \* idem[k]: "free", "pending", or the attempt whose signature is stored
    key,        \* key[a]: the idempotency key of the order a executes
    pc,         \* pc[a]: where execute() is
    orderStatus,    \* orderStatus[a]: OrderStatus execute() returned, "none" until it does
    chain       \* chain[a]: fate of a's signed transaction

orderVars == <<idem, key, pc, orderStatus, chain>>

Pc == {"start", "prepare", "sign", "record", "send", "confirm", "reconcile", "done"}

Status == {"none", "FAILED", "SUBMITTED", "CONFIRMED", "raised"}

\* "unsent": never broadcast; "sent": broadcast and undecided; "ok", "err":
\* landed; "lost": its blockhash expired before it landed.
Fate == {"unsent", "sent", "ok", "err", "lost"}

\* Keys, attempts and the chain stay in their types.
OrderTypeOK ==
    /\ idem \in [Keys -> {"free", "pending"} \cup Attempts]
    /\ key \in [Attempts -> Keys \cup {NoKey}]
    /\ pc \in [Attempts -> Pc]
    /\ orderStatus \in [Attempts -> Status]
    /\ chain \in [Attempts -> Fate]

OrderInit ==
    /\ idem = [k \in Keys |-> "free"]
    /\ key = [a \in Attempts |-> NoKey]
    /\ pc = [a \in Attempts |-> "start"]
    /\ orderStatus = [a \in Attempts |-> "none"]
    /\ chain = [a \in Attempts |-> "unsent"]

Goto(a, here, there) == pc[a] = here /\ pc' = [pc EXCEPT ![a] = there]

Return(a, s) ==
    /\ pc' = [pc EXCEPT ![a] = "done"]
    /\ orderStatus' = [orderStatus EXCEPT ![a] = s]

-----------------------------------------------------------------------------
(* execute() *)

\* Dedupe.claim_order won: SET NX with a TTL.
Claim(a, k) ==
    /\ idem[k] = "free"
    /\ Goto(a, "start", "prepare")
    /\ key' = [key EXCEPT ![a] = k]
    /\ idem' = [idem EXCEPT ![k] = "pending"]
    /\ UNCHANGED <<orderStatus, chain>>

\* The key is taken: duplicate_order.
Duplicate(a, k) ==
    /\ pc[a] = "start"
    /\ idem[k] # "free"
    /\ key' = [key EXCEPT ![a] = k]
    /\ Return(a, "FAILED")
    /\ UNCHANGED <<idem, chain>>

Prepared(a) ==
    /\ Goto(a, "prepare", "sign")
    /\ UNCHANGED <<idem, key, orderStatus, chain>>

\* _prepare found no route, too much slippage, a failing simulation, or the
\* signer refused: nothing was broadcast, so the key is abandoned.
Abandon(a) ==
    /\ pc[a] \in {"prepare", "sign"}
    /\ idem' = [idem EXCEPT ![key[a]] = "free"]
    /\ Return(a, "FAILED")
    /\ UNCHANGED <<key, chain>>

Signed(a) ==
    /\ Goto(a, "sign", "record")
    /\ UNCHANGED <<idem, key, orderStatus, chain>>

\* Any other exception (a provider in _prepare, the signer's socket)
\* propagates to the caller, the key staying "pending"; so does a crash at
\* any later point, with the key as it is.
RaiseOrCrash(a) ==
    /\ pc[a] \in Pc \ {"start", "done"}
    /\ Return(a, "raised")
    /\ UNCHANGED <<idem, key, chain>>

\* Mutant: the signature is to be stored only after the broadcast.
RecordLater(a) ==
    /\ Goto(a, "record", "send")
    /\ UNCHANGED <<idem, key, orderStatus, chain>>

\* finish_order stores the signature, with no TTL, BEFORE the broadcast.
StoreSignature(a) ==
    /\ Goto(a, "record", "send")
    /\ idem' = [idem EXCEPT ![key[a]] = a]
    /\ UNCHANGED <<key, orderStatus, chain>>

\* finish_order itself failed, before or after Redis applied it, or the send
\* did without reaching the network.
SubmitError(a) ==
    /\ pc[a] \in {"record", "send"}
    /\ idem' \in {idem, [idem EXCEPT ![key[a]] = a]}
    /\ Return(a, "SUBMITTED")
    /\ UNCHANGED <<key, chain>>

\* The transaction reaches the network; the RPC answers, or times out.
Send(a) ==
    /\ pc[a] = "send"
    /\ chain' = [chain EXCEPT ![a] = "sent"]
    /\ \/ Goto(a, "send", "confirm") /\ UNCHANGED orderStatus
       \/ Return(a, "SUBMITTED")
    /\ UNCHANGED <<idem, key>>

\* Mutant: a confirmation timeout is taken for a failure.
ConfirmUnknownIsFailure(a) ==
    /\ pc[a] = "confirm"
    /\ Return(a, "FAILED")
    /\ UNCHANGED <<idem, key, chain>>

\* confirm() timed out or was unavailable.
ConfirmUnknown(a) ==
    /\ pc[a] = "confirm"
    /\ Return(a, "SUBMITTED")
    /\ UNCHANGED <<idem, key, chain>>

\* Mutant: an on-chain error frees the key.
ConfirmErrorFrees(a) ==
    /\ pc[a] = "confirm" /\ chain[a] = "err"
    /\ idem' = [idem EXCEPT ![key[a]] = "free"]
    /\ Return(a, "FAILED")
    /\ UNCHANGED <<key, chain>>

ConfirmError(a) ==
    /\ pc[a] = "confirm" /\ chain[a] = "err"
    /\ Return(a, "FAILED")
    /\ UNCHANGED <<idem, key, chain>>

ConfirmOk(a) ==
    /\ Goto(a, "confirm", "reconcile") /\ chain[a] = "ok"
    /\ UNCHANGED <<idem, key, orderStatus, chain>>

\* _reconcile_fill matches the fill to the order, or leaves it unknown.
Reconcile(a) ==
    /\ pc[a] = "reconcile"
    /\ \E s \in {"CONFIRMED", "SUBMITTED"} : Return(a, s)
    /\ UNCHANGED <<idem, key, chain>>

-----------------------------------------------------------------------------
(* Redis and the chain *)

\* A "pending" claim lives a day, far longer than any attempt: by then the
\* attempt that made it has returned, raised or crashed.
ClaimExpires(k) ==
    /\ idem[k] = "pending"
    /\ \A a \in Attempts : key[a] = k => pc[a] = "done"
    /\ idem' = [idem EXCEPT ![k] = "free"]
    /\ UNCHANGED <<key, pc, orderStatus, chain>>

Land(a) ==
    /\ chain[a] = "sent"
    /\ \E fate \in {"ok", "err", "lost"} : chain' = [chain EXCEPT ![a] = fate]
    /\ UNCHANGED <<idem, key, pc, orderStatus>>

OrderNext ==
    \/ \E a \in Attempts, k \in Keys : Claim(a, k) \/ Duplicate(a, k)
    \/ \E a \in Attempts :
          \/ Prepared(a) \/ Abandon(a) \/ Signed(a) \/ RaiseOrCrash(a) \/ StoreSignature(a)
          \/ SubmitError(a) \/ Send(a) \/ ConfirmUnknown(a) \/ ConfirmError(a)
          \/ ConfirmOk(a) \/ Reconcile(a) \/ Land(a)
    \/ \E k \in Keys : ClaimExpires(k)

OrderSpec == OrderInit /\ [][OrderNext]_orderVars

-----------------------------------------------------------------------------
(* Properties *)

Broadcast(k) == {a \in Attempts : key[a] = k /\ chain[a] # "unsent"}

\* An idempotency key covers at most one broadcast transaction, through
\* retries, crashes at any await, expired claims and abandoned keys: a retry
\* can never double-buy.
AtMostOneBroadcast ==
    \A k \in Keys : \A a, b \in Broadcast(k) : a = b

\* The caller gives a reservation back on FAILED and books a position on
\* CONFIRMED: a failed order has no transaction that filled or still may, and
\* a confirmed one filled.
StatusIsTruthful ==
    \A a \in Attempts :
        /\ orderStatus[a] = "FAILED" => chain[a] \in {"unsent", "err"}
        /\ orderStatus[a] = "CONFIRMED" => chain[a] = "ok"

\* execute() keeps the promise of OrderContract: an order goes to the network
\* once, from an attempt still running, and what the caller is told is true.
Contract == INSTANCE OrderContract
            WITH asked <- key, answer <- orderStatus, fate <- chain,
                 sent <- [k \in Keys |-> Broadcast(k)]

ImplementsContract == Contract!Spec

\* A stored signature is never dropped: it is what reconciliation needs.
SignatureIsKept == [][\A k \in Keys : idem[k] \in Attempts => idem'[k] = idem[k]]_orderVars

=============================================================================
