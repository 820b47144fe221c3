--------------------------- MODULE ProviderBreaker ---------------------------
(***************************************************************************)
(* The circuit breaker of an HttpAdapter and HeliusClient.rpc on top of    *)
(* it: concurrent calls of one process share one breaker, and a call whose *)
(* primary endpoint fails is made again on the fallback endpoint, through  *)
(* the same breaker.                                                       *)
(***************************************************************************)
EXTENDS Integers, FiniteSets

CONSTANTS
    Callers,    \* concurrent calls of one process
    Direct,     \* those that post once, with no fallback: fees, metadata, Sender
    Threshold   \* CircuitBreaker.threshold

ASSUME BreakerAssumption ==
    /\ IsFiniteSet(Callers)
    /\ Direct \subseteq Callers
    /\ Threshold \in Nat \ {0}

VARIABLES
    failures,   \* consecutive failures, counted up to the threshold
    opened,     \* opened_at and _half_open: see Phase
    call,       \* call[c]: where c's call is, or its result
    blame       \* ghost: "other" once a fallback or a direct call has failed, or an
                \* endpoint has answered with an error

breakerVars == <<failures, opened, call, blame>>

\* "elapsed": the cooldown is over; "half": and somebody has asked is_open.
Phase == {"closed", "open", "elapsed", "half"}

Results == {"ok", "none", "failed"}

\* The breaker's fields and the calls keep their types.
BreakerTypeOK ==
    /\ failures \in 0 .. Threshold
    /\ opened \in Phase
    /\ call \in [Callers -> {"idle", "primary", "fallback"} \cup Results]
    /\ blame \in {"primary", "other"}

BreakerInit ==
    /\ failures = 0
    /\ opened = "closed"
    /\ call = [c \in Callers |-> "idle"]
    /\ blame = "primary"

To(c, where) == call' = [call EXCEPT ![c] = where]

RecordSuccess == failures' = 0 /\ opened' = "closed"

\* The count is only compared with the threshold, so it stops there.
RecordFailure ==
    /\ failures' = IF failures = Threshold THEN Threshold ELSE failures + 1
    /\ opened' = IF opened = "half" \/ failures' = Threshold THEN "open" ELSE opened

\* is_open: whoever asks after the cooldown is let through, each of them.
Begin(c) ==
    /\ call[c] = "idle"
    /\ \/ /\ opened = "open"        \* the fallback is refused with the primary
          /\ To(c, "failed")
          /\ UNCHANGED opened
       \/ /\ opened # "open"
          /\ To(c, "primary")
          /\ opened' = IF opened = "elapsed" THEN "half" ELSE opened
    /\ UNCHANGED <<failures, blame>>

\* Results that put the blame elsewhere than on a dead primary.
Fail(c) == To(c, "failed") /\ blame' = "other"

\* An endpoint answers: a result or null, or a JSON-RPC error, which rpc()
\* raises without failing over.
Answer(c) ==
    /\ call[c] \in {"primary", "fallback"}
    /\ RecordSuccess
    /\ \/ Fail(c)
       \/ \E r \in {"ok", "none"} : To(c, r) /\ UNCHANGED blame

HasFallback(c) == call[c] = "primary" /\ c \notin Direct

\* A 4xx is a success for the breaker and a failure for the call.
Rejected(c) ==
    /\ call[c] \in {"primary", "fallback"}
    /\ RecordSuccess
    /\ \/ HasFallback(c) /\ To(c, "fallback") /\ UNCHANGED blame
       \/ ~HasFallback(c) /\ Fail(c)

\* Three attempts timed out, were rate limited or got a 5xx: one failure for
\* the breaker, then the fallback, unless that failure opened it.
NoAnswer(c) ==
    /\ call[c] \in {"primary", "fallback"}
    /\ RecordFailure
    /\ \/ /\ HasFallback(c)
          /\ To(c, IF opened' = "open" THEN "failed" ELSE "fallback")
          /\ UNCHANGED blame
       \/ ~HasFallback(c) /\ Fail(c)

\* The caller takes the result.
Hangup(c) ==
    /\ call[c] \in Results
    /\ To(c, "idle")
    /\ UNCHANGED <<failures, opened, blame>>

Cooldown ==
    /\ opened = "open"
    /\ opened' = "elapsed"
    /\ UNCHANGED <<failures, call, blame>>

BreakerNext ==
    \/ \E c \in Callers : Begin(c) \/ Answer(c) \/ Rejected(c) \/ NoAnswer(c) \/ Hangup(c)
    \/ Cooldown

BreakerSpec == BreakerInit /\ [][BreakerNext]_breakerVars

-----------------------------------------------------------------------------

\* "Never assume a transaction failed because one RPC timed out": as long as
\* every fallback answers, no rpc call fails, whatever the primary does.  It
\* does not hold: the concurrent calls of one process count together, and with
\* eight workers behind a breaker that opens at five failures, the fifth call
\* to time out opens it and is refused the fallback.
FailsOnlyWithFallback ==
    \A c \in Callers : call[c] = "failed" => blame = "other"

=============================================================================
