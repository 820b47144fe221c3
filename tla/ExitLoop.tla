------------------------------ MODULE ExitLoop ------------------------------
(***************************************************************************)
(* Getting out of one position.  Every tick the position service evaluates *)
(* its exit rules and, when one fires, sends an order through the          *)
(* executor; when the order fails it tries again at the next tick.  An     *)
(* emergency stop latches the kill switch and queues a job that sells      *)
(* everything once.  A live order claims an idempotency key made of the    *)
(* position, the reason and the amount, and must pass the signer.          *)
(* The wallet's tokens and the amount on the SQL row are separate: the row *)
(* follows the wallet only when a fill is booked.                          *)
(***************************************************************************)
EXTENDS Integers, SystemKeys

CONSTANTS
    Executors,     \* what a deployment may run: see Executor
    Units,         \* raw token amount of the position
    Unprotected,   \* largest amount that sells without a private route
    Ceiling,       \* largest amount that signer_max_lamports lets through
    Misfortunes,   \* how a broadcast order may end other than filled
    MaxDeaths      \* bound: deaths of a process in a behaviour

\* Paper, live with the key in the process, live with the signer daemon.
Executor == {"paper", "local", "daemon"}

ASSUME ExitAssumption ==
    /\ Executors \subseteq Executor
    /\ Units \in Nat \ {0}
    /\ Unprotected \in Nat /\ Ceiling \in Nat
    /\ Misfortunes \subseteq {"err", "unknown"}
    /\ MaxDeaths \in Nat

VARIABLES
    executor,      \* the executor; on paper there are no keys, signer or wallet
    falling,       \* P&L is at or below the stop loss
    source,        \* the source_exit signal: "none", "half" or "all"
    amount,        \* amount_raw of the position's row; closed when not positive
    held,          \* tokens in the wallet
    idem,          \* idem[k]: "free", "pending" or "signed"
    ex,            \* ex[x]: the exit that x is working on
    job,           \* emergency_exit_all: "none", "queued", "running", "done", or
                   \* "cut" by the worker's job_timeout
    alert,         \* the job reported a position it could not close
    lost,          \* ghost: an order was broadcast and will never be booked
    deaths

Service == "service"
Job == "job"
Exiters == {Service, Job}

Keys == {"stop_loss", "mirror", "emergency"} \X (1 .. Units)
Key(x) == <<ex[x].why, ex[x].qty>>
NoExit == [pc |-> "idle", why |-> "none", qty |-> 0, full |-> FALSE]

exitVars == <<executor, sys, kill, falling, source, amount, held, idem, ex, job, alert, lost,
              deaths>>
position == <<amount, held>>
market == <<executor, falling, source>>

Live == executor # "paper"

\* The row, the wallet, the keys and both exiters are well typed.
ExitTypeOK ==
    /\ KeysTypeOK
    /\ executor \in Executor /\ falling \in BOOLEAN /\ source \in {"none", "half", "all"}
    /\ amount \in Int /\ held \in 0 .. Units   \* a paper row may be oversold
    /\ idem \in [Keys -> {"free", "pending", "signed"}]
    /\ \A x \in Exiters :
          /\ ex[x].pc \in {"idle", "claim", "prepare", "sign", "sent", "book", "clear"}
          /\ ex[x].pc \notin {"idle", "clear"} => Key(x) \in Keys
    /\ job \in {"none", "queued", "running", "done", "cut"} /\ alert \in BOOLEAN
    /\ lost \in BOOLEAN
    /\ deaths \in 0 .. MaxDeaths

ExitInit ==
    /\ executor \in Executors
    /\ sys = "running" /\ kill = FALSE
    /\ falling = FALSE /\ source = "none"
    /\ amount = Units /\ held = Units
    /\ idem = [k \in Keys |-> "free"]
    /\ ex = [x \in Exiters |-> NoExit]
    /\ job = "none" /\ alert = FALSE
    /\ lost = FALSE
    /\ deaths = 0

-----------------------------------------------------------------------------
(* Operator, market and copied trader *)

\* Stop, start (refused under the latch) and clear_kill, as atomic steps;
\* SystemControl has them in full.
Operate ==
    /\ \/ SetState("stopped")
       \/ ~kill /\ SetState("running")
       \/ kill /\ ClearLatch
    /\ UNCHANGED <<market, position, idem, ex, job, alert, lost, deaths>>

\* POST /system/emergency-stop: kill, then queue the job.
EmergencyStop ==
    /\ job = "none"
    /\ kill' = TRUE /\ sys' = "killed"
    /\ job' = "queued"
    /\ UNCHANGED <<market, position, idem, ex, alert, lost, deaths>>

PriceMoves ==
    /\ falling' = ~falling
    /\ UNCHANGED <<executor, sys, kill, source, position, idem, ex, job, alert, lost, deaths>>

\* _handle_source_exit: setex of the sold fraction; the key lives 300 s.
SourceSells(fraction) ==
    /\ amount > 0
    /\ source' = fraction
    /\ UNCHANGED <<executor, sys, kill, falling, position, idem, ex, job, alert, lost, deaths>>

SourceExpires ==
    /\ source # "none"
    /\ source' = "none"
    /\ UNCHANGED <<executor, sys, kill, falling, position, idem, ex, job, alert, lost, deaths>>

-----------------------------------------------------------------------------
(* Starting an exit *)

\* evaluate_exits, of whose rules the stop loss is first.
Why == IF falling THEN "stop_loss" ELSE "mirror"

\* int(amount_raw * fraction)
Quantity(why) == IF why = "mirror" /\ source = "half" THEN amount \div 2 ELSE amount

\* Mutant: an order is made out even for nothing.
EvaluateForNothing ==
    /\ ex[Service].pc = "idle"
    /\ amount > 0
    /\ AllowsExits(EffectiveState(kill, sys))
    /\ falling \/ source # "none"
    /\ ex' = [ex EXCEPT ![Service] = [pc |-> "claim", why |-> Why, qty |-> Quantity(Why),
                                      full |-> Quantity(Why) = amount]]
    /\ UNCHANGED <<sys, kill, market, position, idem, job, alert, lost, deaths>>

\* tick and _evaluate, up to the order: the row, the control state, the rules.
Evaluate ==
    /\ ex[Service].pc = "idle"
    /\ amount > 0
    /\ AllowsExits(EffectiveState(kill, sys))
    /\ falling \/ source # "none"
    /\ Quantity(Why) > 0
    /\ ex' = [ex EXCEPT ![Service] = [pc |-> "claim", why |-> Why, qty |-> Quantity(Why),
                                      full |-> Quantity(Why) = amount]]
    /\ UNCHANGED <<sys, kill, market, position, idem, job, alert, lost, deaths>>

\* emergency_exit_all reads the open rows; none left is the end of it.
JobStart ==
    /\ job = "queued"
    /\ IF amount > 0
       THEN /\ job' = "running"
            /\ ex' = [ex EXCEPT ![Job] = [pc |-> "claim", why |-> "emergency", qty |-> amount,
                                          full |-> TRUE]]
       ELSE job' = "done" /\ UNCHANGED ex
    /\ UNCHANGED <<sys, kill, market, position, idem, alert, lost, deaths>>

Move(x, pc) == ex' = [ex EXCEPT ![x].pc = pc]

\* The execution did not succeed: the service returns to its loop, the job counts a
\* failure and raises the alert when it ends.
Unsold(x) ==
    /\ ex' = [ex EXCEPT ![x] = NoExit]
    /\ IF x = Job THEN job' = "done" /\ alert' = TRUE ELSE UNCHANGED <<job, alert>>

-----------------------------------------------------------------------------
(* The live executor *)

Claim(x) ==
    /\ Live /\ ex[x].pc = "claim"
    /\ idem[Key(x)] = "free"
    /\ idem' = [idem EXCEPT ![Key(x)] = "pending"]
    /\ Move(x, "prepare")
    /\ UNCHANGED <<sys, kill, market, position, job, alert, lost, deaths>>

\* duplicate_order: FAILED.
Duplicate(x) ==
    /\ Live /\ ex[x].pc = "claim"
    /\ idem[Key(x)] # "free"
    /\ Unsold(x)
    /\ UNCHANGED <<sys, kill, market, position, idem, lost, deaths>>

\* A sale is built only if it needs no private route, which the swap builder
\* cannot do, and its simulation succeeds only if the wallet holds what is sold.
Prepared(x) ==
    /\ ex[x].pc = "prepare"
    /\ ex[x].qty <= Unprotected
    /\ held >= ex[x].qty
    /\ Move(x, "sign")
    /\ UNCHANGED <<sys, kill, market, position, idem, job, alert, lost, deaths>>

\* No route, too much impact, a private route wanted, a failed build or
\* simulation: nothing was broadcast, the key is abandoned.
Refused(x) ==
    /\ ex[x].pc = "prepare"
    /\ idem' = [idem EXCEPT ![Key(x)] = "free"]
    /\ Unsold(x)
    /\ UNCHANGED <<sys, kill, market, position, lost, deaths>>

\* LocalSigner._enforce.
KeysAllow == ~kill /\ sys \in {Absent, "running", "soft_paused"}

\* The daemon also compares max_lamports, of which a sale's token amount is
\* the greater part, with its own ceiling.
Signable(x) == KeysAllow /\ (executor = "daemon" => ex[x].qty <= Ceiling)

Sign(x) ==
    /\ ex[x].pc = "sign"
    /\ Signable(x)
    /\ idem' = [idem EXCEPT ![Key(x)] = "signed"]
    /\ Move(x, "sent")
    /\ UNCHANGED <<sys, kill, market, position, job, alert, lost, deaths>>

SignerRefuses(x) ==
    /\ ex[x].pc = "sign"
    /\ ~Signable(x)
    /\ idem' = [idem EXCEPT ![Key(x)] = "free"]
    /\ Unsold(x)
    /\ UNCHANGED <<sys, kill, market, position, lost, deaths>>

\* An exception that execute() lets through: of Redis at the claim, of the
\* provider or of Redis while the sale is prepared, of the signer's socket.
\* The claim stays, and is all that is left of the attempt.
Raised(x) ==
    /\ Live /\ ex[x].pc \in {"claim", "prepare", "sign"}
    /\ Unsold(x)
    /\ \/ UNCHANGED idem
       \/ /\ ex[x].pc = "claim" /\ idem[Key(x)] = "free"
          /\ idem' = [idem EXCEPT ![Key(x)] = "pending"]
    /\ UNCHANGED <<sys, kill, market, position, lost, deaths>>

\* Landed, confirmed and reconciled: CONFIRMED.
Fill(x) ==
    /\ ex[x].pc = "sent"
    /\ held >= ex[x].qty
    /\ held' = held - ex[x].qty
    /\ Move(x, "book")
    /\ UNCHANGED <<sys, kill, market, amount, idem, job, alert, lost, deaths>>

\* Landed with an error, in any case when the tokens are no longer there:
\* FAILED, and the key keeps the signature.
Reverted(x) ==
    /\ ex[x].pc = "sent"
    /\ "err" \in Misfortunes \/ held < ex[x].qty
    /\ Unsold(x)
    /\ lost' = TRUE
    /\ UNCHANGED <<sys, kill, market, position, idem, deaths>>

\* Mutants: an order whose fate is unknown is booked as filled, or is counted
\* by the job as closed.
UnknownIsFilled(x) ==
    /\ ex[x].pc = "sent" /\ "unknown" \in Misfortunes
    /\ held' \in {held, held - ex[x].qty} \cap Nat
    /\ Move(x, "book")
    /\ UNCHANGED <<sys, kill, market, amount, idem, job, alert, lost, deaths>>

UnknownIsClosed(x) ==
    /\ ex[x].pc = "sent" /\ "unknown" \in Misfortunes
    /\ held' \in {held, held - ex[x].qty} \cap Nat
    /\ ex' = [ex EXCEPT ![x] = NoExit]
    /\ job' = IF x = Job THEN "done" ELSE job
    /\ UNCHANGED <<sys, kill, market, amount, idem, alert, lost, deaths>>

\* Send, confirmation or reconciliation gave no answer: SUBMITTED, which is
\* not a success either.  The sale may have happened.
Unknown(x) ==
    /\ ex[x].pc = "sent" /\ "unknown" \in Misfortunes
    /\ held' \in {held, held - ex[x].qty} \cap Nat
    /\ Unsold(x)
    /\ lost' = TRUE
    /\ UNCHANGED <<sys, kill, market, amount, idem, deaths>>

\* The "pending" claim of an attempt that died lives a day.
ClaimExpires(k) ==
    /\ idem[k] = "pending"
    /\ \A x \in Exiters : ex[x].pc \in {"prepare", "sign"} => Key(x) # k
    /\ idem' = [idem EXCEPT ![k] = "free"]
    /\ UNCHANGED <<sys, kill, market, position, ex, job, alert, lost, deaths>>

-----------------------------------------------------------------------------
(* Paper execution, booking, crashes *)

PaperFill(x) ==
    /\ ~Live /\ ex[x].pc = "claim"
    /\ Move(x, "book")
    /\ UNCHANGED <<sys, kill, market, position, idem, job, alert, lost, deaths>>

PaperRefused(x) ==
    /\ ~Live /\ ex[x].pc = "claim"
    /\ Unsold(x)
    /\ UNCHANGED <<sys, kill, market, position, idem, lost, deaths>>

\* reduce_position: a full exit closes the row whatever it holds by now.
Book(x) ==
    /\ ex[x].pc = "book"
    /\ amount' = IF ex[x].full THEN 0 ELSE amount - ex[x].qty
    /\ IF x = Job
       THEN ex' = [ex EXCEPT ![Job] = NoExit] /\ job' = "done"
       ELSE /\ IF ex[x].why = "mirror" THEN Move(x, "clear") ELSE ex' = [ex EXCEPT ![x] = NoExit]
            /\ UNCHANGED job
    /\ UNCHANGED <<sys, kill, market, held, idem, alert, lost, deaths>>

\* The database refuses the booking of a sale.
Unbooked(x) ==
    /\ ex[x].pc = "book"
    /\ Unsold(x)
    /\ lost' = TRUE
    /\ UNCHANGED <<sys, kill, market, position, idem, deaths>>

\* A mirrored exit done, the signal is deleted.
ClearSource ==
    /\ ex[Service].pc = "clear"
    /\ source' = "none"
    /\ ex' = [ex EXCEPT ![Service] = NoExit]
    /\ UNCHANGED <<executor, sys, kill, falling, position, idem, job, alert, lost, deaths>>

\* x is stopped in the middle: an order it had sent lands or not.
Stopped(x) ==
    /\ ex[x].pc # "idle"
    /\ ex' = [ex EXCEPT ![x] = NoExit]
    /\ lost' = (lost \/ ex[x].pc \in {"sent", "book"})
    /\ IF ex[x].pc = "sent"
       THEN held' \in {held, held - ex[x].qty} \cap Nat
       ELSE UNCHANGED held
    /\ UNCHANGED <<sys, kill, market, amount, idem, alert>>

\* The process dies; the worker's queue runs the job again.
Dies(x) ==
    /\ Stopped(x)
    /\ deaths < MaxDeaths
    /\ deaths' = deaths + 1
    /\ job' = IF x = Job THEN "queued" ELSE job

\* job_timeout cancels the job, which does not catch that and is not run again.
CutShort ==
    /\ Stopped(Job)
    /\ job' = "cut"
    /\ UNCHANGED deaths

\* What x does next of itself.
Proceed(x) ==
    \/ Claim(x) \/ Duplicate(x) \/ Prepared(x) \/ Refused(x)
    \/ Sign(x) \/ SignerRefuses(x) \/ Raised(x) \/ Fill(x) \/ Reverted(x) \/ Unknown(x)
    \/ PaperFill(x) \/ PaperRefused(x) \/ Book(x) \/ Unbooked(x)

ExitNext ==
    \/ Operate \/ EmergencyStop \/ PriceMoves
    \/ \E fraction \in {"half", "all"} : SourceSells(fraction)
    \/ SourceExpires
    \/ Evaluate \/ JobStart \/ ClearSource \/ CutShort
    \/ \E x \in Exiters : Proceed(x) \/ Dies(x)
    \/ \E k \in Keys : ClaimExpires(k)

ExitSpec == ExitInit /\ [][ExitNext]_exitVars

\* The worker runs its queue, an await returns, the service ticks every second,
\* a claim expires, and a sale tried again and again that may go on does so at
\* some time.
Persistence ==
    /\ WF_exitVars(JobStart) /\ WF_exitVars(Evaluate) /\ WF_exitVars(ClearSource)
    /\ \A k \in Keys : WF_exitVars(ClaimExpires(k))
    /\ \A x \in Exiters :
          /\ WF_exitVars(Proceed(x))
          /\ SF_exitVars(Claim(x)) /\ SF_exitVars(Prepared(x)) /\ SF_exitVars(Sign(x))
          /\ SF_exitVars(Fill(x)) /\ SF_exitVars(PaperFill(x)) /\ SF_exitVars(Book(x))

PersistentSpec == ExitSpec /\ Persistence

-----------------------------------------------------------------------------
(* Properties *)

\* Live, the row never shows less than the wallet holds, through unknown
\* outcomes, on-chain errors, exceptions, crashes and an emergency job beside
\* the service: no token is left in the wallet that no row asks to sell.  (That
\* a row is there does not mean that it will be sold.)
NothingStranded == Live => held <= amount

LastingStopLoss == <>[](falling /\ KeysAllow)

\* exits.py says of the stop loss: "Always first: it is the loss cap."  If from
\* some point on the price stays below it and nobody forbids signing, the
\* position is closed, as long as no order was broadcast and then not booked:
\* what fails before the broadcast gives its key back or loses it in a day, and a
\* later tick tries again.  It does not hold: a sale too large to go without a
\* private route, or whose token amount exceeds the daemon's ceiling in
\* lamports, is refused in the same way at every attempt.  (And an order that
\* fails on chain keeps its key, made of position, reason and amount: every
\* later attempt is a duplicate.)
StopLossRetries == LastingStopLoss /\ []~lost => <>(amount <= 0)

\* An emergency job that has run to its end has left the position closed, or
\* has raised the alert that asks for manual attention: whatever the executor,
\* the signer, the kill switch and the other seller make of it and wherever it
\* died before it was run again.  (One that its timeout cut short has not ended,
\* and asks for nothing.)
EmergencyIsAnswered == job = "done" => amount <= 0 \/ alert

=============================================================================
