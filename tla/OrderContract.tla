--------------------------- MODULE OrderContract ----------------------------
(***************************************************************************)
(* What LiveExecutor.execute promises its caller, without saying how: an   *)
(* order, identified by its idempotency key, is put on the network at most *)
(* once; an answer is given once, only an attempt that has not answered    *)
(* acts on the network, and an answer of FAILED or CONFIRMED is the truth  *)
(* about that attempt's own transaction, now and later.                    *)
(* OrderExecution implements it with a Redis key and a stored signature.   *)
(***************************************************************************)
EXTENDS FiniteSets

CONSTANTS
    Keys,       \* idempotency keys
    Attempts,   \* calls of execute(), each for one order
    NoKey       \* an attempt that has not started

VARIABLES
    asked,      \* asked[a]: the order attempt a is for
    sent,       \* sent[k]: the attempts that put order k on the network
    fate,       \* fate[a]: what became of a's transaction
    answer      \* answer[a]: what the caller was told, "none" so far

vars == <<asked, sent, fate, answer>>

Init ==
    /\ asked = [a \in Attempts |-> NoKey]
    /\ sent = [k \in Keys |-> {}]
    /\ fate = [a \in Attempts |-> "unsent"]
    /\ answer = [a \in Attempts |-> "none"]

\* Accepted, or refused on the spot.
Accept(a, k) ==
    /\ asked[a] = NoKey
    /\ asked' = [asked EXCEPT ![a] = k]
    /\ \E s \in {"none", "FAILED"} : answer' = [answer EXCEPT ![a] = s]
    /\ UNCHANGED <<sent, fate>>

\* The first, and last, transaction of the order.
Submit(a, k) ==
    /\ asked[a] = k /\ answer[a] = "none"
    /\ sent[k] = {}
    /\ sent' = [sent EXCEPT ![k] = {a}]
    /\ fate' = [fate EXCEPT ![a] = "sent"]
    /\ \E s \in {"none", "SUBMITTED"} : answer' = [answer EXCEPT ![a] = s]
    /\ UNCHANGED asked

Settle(a) ==
    /\ fate[a] = "sent"
    /\ \E f \in {"ok", "err", "lost"} : fate' = [fate EXCEPT ![a] = f]
    /\ UNCHANGED <<asked, sent, answer>>

\* "SUBMITTED" and an exception promise nothing; the others are final.
Answer(a) ==
    /\ asked[a] # NoKey /\ answer[a] = "none"
    /\ \E s \in {"FAILED", "SUBMITTED", "CONFIRMED", "raised"} :
          /\ s = "FAILED" => fate[a] \in {"unsent", "err"}
          /\ s = "CONFIRMED" => fate[a] = "ok"
          /\ answer' = [answer EXCEPT ![a] = s]
    /\ UNCHANGED <<asked, sent, fate>>

Next ==
    \/ \E a \in Attempts, k \in Keys : Accept(a, k) \/ Submit(a, k)
    \/ \E a \in Attempts : Settle(a) \/ Answer(a)

Spec == Init /\ [][Next]_vars

=============================================================================
