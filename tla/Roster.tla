------------------------------- MODULE Roster -------------------------------
(***************************************************************************)
(* Who is watched and who is copied.  A trader row is written by the       *)
(* worker's jobs (discovery, scoring, roster competition, decay,           *)
(* retirement of idle wallets), by imports, by the operator and by the     *)
(* decision service, which suspends wallets that stream too much.  A job   *)
(* reads rows in one statement and writes them in later ones, in one       *)
(* transaction (read committed, a written row locked until the commit) or  *)
(* in several.  One scheduled job is under way at a time, for the schedule *)
(* keeps them apart, and beside it the backfills that imports and the      *)
(* operator queue, one per wallet.  Whole jobs an operator starts by hand  *)
(* while a scheduled one runs are left out.                                *)
(***************************************************************************)
EXTENDS Integers, FiniteSets, Sequences, SequencesExt

CONSTANTS
    Wallets,       \* the addresses anybody may add
    Account,       \* Account[w]: what owns the account at address w
    Launchpad,     \* addresses that end in a launchpad's suffix
    Facts,         \* what GMGN and the RPC may say of a wallet, see Screen
    Floor,         \* gmgn_min_*, gmgn_max_*: the limits of the screen
    Scorable,      \* wallets whose history holds at least one round trip
    Promise,       \* Promise[w]: gmgn_realized_profit, the order of scoring
    Scores,        \* what compute_scores may return: [composite, confidence]
    TargetRoster,  \* target_roster_size
    BudgetBootstrap, BudgetSteady,   \* scoring_budget_*
    MinScore, MinConfidence,         \* CopyabilityConfig.min_trader_*
    Orders         \* the statuses an operator sets

ASSUME RosterAssumption ==
    /\ IsFiniteSet(Wallets) /\ Scorable \subseteq Wallets
    /\ Promise \in [Wallets -> Nat]
    /\ \A a, b \in Wallets : Promise[a] = Promise[b] => a = b
    /\ Account \in [Wallets -> {"none", "system", "token", "program"}]
    /\ \A w \in Scorable : Account[w] = "system"
    /\ Scores \subseteq [composite : 1..100, confidence : 0..100]
    /\ Orders \subseteq {"discovered", "analyzing", "candidate", "probation", "active",
                      "degraded", "suspended", "blacklisted"}
    /\ {TargetRoster, BudgetBootstrap, BudgetSteady, MinScore, MinConfidence} \subseteq Nat

VARIABLES
    status,     \* status[w]: the row's status, "absent" without a row
    score,      \* score[w]: composite and confidence, Unscored before the first backfill
    job,        \* the worker's scheduled job: what it has read and not yet written
    queued,     \* queued[w]: the backfill_wallet job of w: "no", "waiting", or the
                \*   status it has read
    late,       \* ghost: late[w]: w is on the roster and was put there by something
                \*   other than a competition, "before" the one under way selected
                \*   whom to demote or "after" it, and not by "no"
    watching,   \* DecisionService.wallets, the wallets it subscribes to
    refresh     \* refresh_wallets between its SQL read and its use of it

rows == <<status, score>>
rosterVars == <<status, score, job, queued, late, watching, refresh>>

\* TraderStatus.
TraderStatus == {"discovered", "analyzing", "candidate", "probation", "active",
                 "degraded", "suspended", "blacklisted"}
Followed == {"probation", "active"}     \* is_followed
Cut == {"blacklisted", "suspended"}     \* neither watched nor scored

Unscored == [composite |-> 0, confidence |-> 0]
NoJob == [kind |-> "none"]
NoRefresh == [pc |-> "idle", seen |-> {}]

With(S) == {w \in Wallets : status[w] \in S}
Watchable == With(TraderStatus \ Cut)      \* watchlist_wallets

\* Rows, jobs and the watchlist keep their types.
RosterTypeOK ==
    /\ status \in [Wallets -> TraderStatus \cup {"absent"}]
    /\ score \in [Wallets -> Scores \cup {Unscored}]
    /\ queued \in [Wallets -> {"no", "waiting"} \cup TraderStatus]
    /\ late \in [Wallets -> {"no", "before", "after"}]
    /\ watching \subseteq Wallets
    /\ refresh \in [pc : {"idle", "apply"}, seen : SUBSET Wallets]
    /\ \/ job = NoJob
       \/ /\ job.kind = "score" /\ Range(job.todo) \subseteq Wallets /\ job.todo # <<>>
          /\ job.read \in TraderStatus \cup {"none"}
       \/ /\ job.kind = "maintain" /\ job.pc \in {"promote", "demote"}
          /\ job.keep \subseteq Wallets /\ job.todo \subseteq Wallets
          /\ job.raised \subseteq job.keep /\ job.lowered \subseteq Wallets \ job.keep
       \/ /\ job.kind \in {"discover", "decay", "retire"} /\ job.write \subseteq Wallets

RosterInit ==
    /\ status = [w \in Wallets |-> "absent"]
    /\ score = [w \in Wallets |-> Unscored]
    /\ job = NoJob
    /\ queued = [w \in Wallets |-> "no"] /\ late = [w \in Wallets |-> "no"]
    /\ watching = {} /\ refresh = NoRefresh

-----------------------------------------------------------------------------
(* Verification and screening *)

\* verify: the suffix, which needs no network, comes before the RPC, whose
\* failure lets an address through unchecked.
Verify(w, answered) ==
    IF w \in Launchpad THEN "token"
    ELSE IF ~answered THEN "unchecked"
    ELSE IF Account[w] \in {"none", "system"} THEN "wallet"
    ELSE Account[w]

Verified(w, answered) == Verify(w, answered) \in {"wallet", "unchecked"}

\* A winrate of at most 1 is a fraction (the unit here is a hundredth of 1 %).
Winrate(f) == IF f.winrate <= 100 THEN 100 * f.winrate ELSE f.winrate

\* screen: by tags, number and frequency of trades, profit and winrate over 30
\* days; a wallet GMGN has no figures for is one without trades.
Screen(f) ==
    /\ ~f.tagged
    /\ f.trades >= Floor.trades
    /\ Floor.perDay > 0 => f.trades <= 30 * Floor.perDay
    /\ f.total > 0 \/ f.realized > 0
    /\ f.realized >= Floor.realized
    /\ Winrate(f) > 0 => Winrate(f) >= Floor.winrate

\* The window of account sizes; a balance that cannot be read (-1) passes.
InWindow(f) ==
    \/ f.balance = -1
    \/ /\ Floor.minBalance > 0 => f.balance >= Floor.minBalance
       /\ Floor.maxBalance > 0 => f.balance <= Floor.maxBalance

-----------------------------------------------------------------------------
(* Rows enter *)

\* upsert_trader with no status or DISCOVERED: a new row is DISCOVERED, and so
\* is an existing one from now on, for analytics.upsert writes every value over
\* it; its scores stay.
Upsert(W) == [w \in Wallets |-> IF w \in W THEN "discovered" ELSE status[w]]

\* A row the competition has written and not committed: its writers wait.
Locked(w) == job.kind = "maintain" /\ w \in job.raised \cup job.lowered

\* ARQ jobs, run beside the scheduled ones (max_jobs is 10).
Enqueue(W) == queued' = [w \in Wallets |-> IF w \in W /\ queued[w] = "no" THEN "waiting"
                                          ELSE queued[w]]

\* Stores the wallets and, if asked, queues a backfill of each new one.
Store(W, queue) ==
    /\ \A w \in W : ~Locked(w)
    /\ status' = Upsert(W)
    /\ Enqueue(IF queue THEN W \cap With({"absent"}) ELSE {})
    /\ UNCHANGED <<score, job, watching, refresh>>

\* import_wallets: addresses pasted into the dashboard, verified one by one.
Import(W, answered, queue) ==
    Store({w \in W : Verified(w, w \in answered)}, queue)

\* import_seed_file: nothing is verified.
ImportSeedFile(W) == Store(W, TRUE)

\* discover_wallets: the candidates without a row are screened, sized, cut to
\* twice the roster and verified, which takes many calls ...
DiscoverRead(W, fact) ==
    LET fresh == (W \cap With({"absent"})) \ Launchpad
        passed == {w \in fresh : Screen(fact[w]) /\ InWindow(fact[w])}
        room == 2 * TargetRoster
        n == IF Cardinality(passed) < room THEN Cardinality(passed) ELSE room
    IN
    /\ job = NoJob
    /\ \E first \in kSubset(n, passed) :
          LET wallets == {w \in first : Verified(w, fact[w].answered)} IN
          /\ wallets # {}
          /\ job' = [kind |-> "discover", write |-> wallets]
    /\ UNCHANGED <<rows, queued, watching, refresh>>

\* ... and then (gmgn_auto_add) stored, whatever row they may have by now.  No
\* backfill is queued.
DiscoverWrite ==
    /\ job.kind = "discover"
    /\ status' = Upsert(job.write)
    /\ job' = NoJob
    /\ UNCHANGED <<score, queued, watching, refresh>>

-----------------------------------------------------------------------------
(* Scoring *)

ByPromise(W) == SetToSortSeq(W, LAMBDA a, b : Promise[a] > Promise[b])

\* score_candidates: unscored DISCOVERED rows, the most promising first, as many
\* as the day's budget allows.
ScoreCandidates ==
    LET queue == ByPromise({w \in With({"discovered"}) : score[w] = Unscored})
        budget == IF Cardinality(With(Followed)) >= TargetRoster
                  THEN BudgetSteady ELSE BudgetBootstrap
        n == IF Len(queue) < budget THEN Len(queue) ELSE budget
    IN
    /\ job = NoJob /\ n > 0
    /\ job' = [kind |-> "score", todo |-> SubSeq(queue, 1, n), read |-> "none"]
    /\ UNCHANGED <<rows, queued, watching, refresh>>

\* rescore_all: every row that is neither blacklisted nor suspended, less the
\* ones it skips because nothing was traded since the last score.
RescoreAll ==
    /\ job = NoJob
    /\ \E W \in SUBSET Watchable :
          /\ W # {}
          /\ job' = [kind |-> "score", todo |-> SetToSeq(W), read |-> "none"]
    /\ UNCHANGED <<rows, queued, watching, refresh>>

\* POST /setup/backfill: everything watched, or what of it has no score.
RunBackfill ==
    /\ \E W \in {Watchable, {w \in Watchable : score[w].composite = 0}} : W # {} /\ Enqueue(W)
    /\ UNCHANGED <<rows, job, watching, refresh>>

Scoring == job.kind = "score"

\* The rest of the list, or the end of the job.
Advance(j) == IF Len(j.todo) = 1 THEN NoJob
              ELSE [kind |-> "score", todo |-> Tail(j.todo), read |-> "none"]

\* backfill_wallet finds no round trip, or raises (a provider failed).
BackfillNothing ==
    /\ Scoring /\ job.read = "none"
    /\ job' = Advance(job)
    /\ UNCHANGED <<rows, queued, watching, refresh>>

\* backfill_wallet reads the row.
BackfillRead ==
    /\ Scoring /\ job.read = "none"
    /\ Head(job.todo) \in Scorable
    /\ status' = Upsert({Head(job.todo)} \cap With({"absent"}))
    /\ job' = [job EXCEPT !.read = status'[Head(job.todo)]]
    /\ UNCHANGED <<score, queued, watching, refresh>>

\* Mutant: a suspended or blacklisted trader may earn its way back.
NextStatusForgives(current, s) ==
    IF s.composite >= 70 /\ s.confidence >= 60 THEN
         IF current = "active" THEN "active" ELSE "probation"
    ELSE IF s.composite < 45 /\ current \in Followed THEN "degraded"
    ELSE IF s.composite < 30 THEN "suspended"
    ELSE IF current = "discovered" THEN "candidate"
    ELSE current

\* next_status.  live_trades is never passed, so that nothing is promoted to
\* ACTIVE, and every good score that does not keep ACTIVE ends in PROBATION.
NextStatus(current, s) ==
    IF current \in Cut THEN current
    ELSE IF s.composite >= 70 /\ s.confidence >= 60 THEN
         IF current = "active" THEN "active" ELSE "probation"
    ELSE IF s.composite < 45 /\ current \in Followed THEN "degraded"
    ELSE IF s.composite < 30 THEN "suspended"
    ELSE IF current = "discovered" THEN "candidate"
    ELSE current

\* backfill_wallet commits the score and, if it differs from the status it has
\* read, the next status.
Rescore(w, read, s) ==
    /\ ~Locked(w)
    /\ score' = [score EXCEPT ![w] = s]
    /\ status' = IF NextStatus(read, s) = read THEN status
                 ELSE [status EXCEPT ![w] = NextStatus(read, s)]

BackfillWrite(s) ==
    /\ Scoring /\ job.read # "none"
    /\ Rescore(Head(job.todo), job.read, s)
    /\ job' = Advance(job)
    /\ UNCHANGED <<queued, watching, refresh>>

\* A queued backfill does the same, beside whatever else is under way; it may
\* fail, time out or find nothing.
QueuedRead(w) ==
    /\ queued[w] = "waiting" /\ w \in Scorable
    /\ status' = Upsert({w} \cap With({"absent"}))
    /\ queued' = [queued EXCEPT ![w] = status'[w]]
    /\ UNCHANGED <<score, job, watching, refresh>>

QueuedWrite(w, s) ==
    /\ queued[w] \in TraderStatus
    /\ Rescore(w, queued[w], s)
    /\ queued' = [queued EXCEPT ![w] = "no"]
    /\ UNCHANGED <<job, watching, refresh>>

QueuedEnds(w) ==
    /\ queued[w] # "no"
    /\ queued' = [queued EXCEPT ![w] = "no"]
    /\ UNCHANGED <<rows, job, watching, refresh>>

-----------------------------------------------------------------------------
(* Competition, decay, retirement *)

\* Mutant: a short roster is filled whatever the scores.
EligibleWhenShort == {w \in Watchable : \/ Cardinality(With(Followed)) < TargetRoster
                                         \/ score[w].composite >= MinScore}

Eligible == {w \in Watchable : score[w].composite >= MinScore
                               /\ score[w].confidence >= MinConfidence}

\* The best of the eligible rows; ties fall either way.
Best(K) ==
    /\ K \subseteq Eligible
    /\ Cardinality(K) = IF Cardinality(Eligible) < TargetRoster
                        THEN Cardinality(Eligible) ELSE TargetRoster
    /\ \A a \in K, b \in Eligible \ K : score[a].composite >= score[b].composite

MaintainRead ==
    /\ job = NoJob
    /\ \E K \in SUBSET Wallets :
          /\ Best(K)
          /\ job' = [kind |-> "maintain", pc |-> "promote", keep |-> K,
                     todo |-> K \ With(Followed), raised |-> {}, lowered |-> {}]
    /\ UNCHANGED <<rows, queued, watching, refresh>>

Maintaining(pc) == job.kind = "maintain" /\ job.pc = pc

MaintainPromote(w) ==
    /\ Maintaining("promote") /\ w \in job.todo
    /\ job' = [job EXCEPT !.todo = @ \ {w}, !.raised = @ \cup {w}]
    /\ UNCHANGED <<rows, queued, watching, refresh>>

\* Mutant: of those copied now only the ones that are still good enough to be
\* ranked are looked at.
SelectAmongEligible ==
    /\ Maintaining("promote") /\ job.todo = {}
    /\ job' = [job EXCEPT !.pc = "demote", !.todo = (With(Followed) \cap Eligible) \ job.keep]
    /\ UNCHANGED <<rows, queued, watching, refresh>>

\* Everyone copied now, by whomever, and not kept is to step down.
MaintainSelect ==
    /\ Maintaining("promote") /\ job.todo = {}
    /\ job' = [job EXCEPT !.pc = "demote", !.todo = With(Followed) \ job.keep]
    /\ UNCHANGED <<rows, queued, watching, refresh>>

MaintainDemote(w) ==
    /\ Maintaining("demote") /\ w \in job.todo
    /\ job' = [job EXCEPT !.todo = @ \ {w}, !.lowered = @ \cup {w}]
    /\ UNCHANGED <<rows, queued, watching, refresh>>

MaintainCommit ==
    /\ Maintaining("demote") /\ job.todo = {}
    /\ status' = [w \in Wallets |-> IF w \in job.raised THEN "probation"
                                    ELSE IF w \in job.lowered THEN "candidate"
                                    ELSE status[w]]
    /\ job' = NoJob
    /\ UNCHANGED <<score, queued, watching, refresh>>

\* detect_decay: copied traders whose newest composite is below 70% of their
\* own baseline, which no composite of 70 or more can be.
DecayRead ==
    /\ job = NoJob
    /\ \E D \in SUBSET {w \in With(Followed) : score[w] # Unscored /\ score[w].composite < 70} :
          /\ D # {}
          /\ job' = [kind |-> "decay", write |-> D]
    /\ UNCHANGED <<rows, queued, watching, refresh>>

DecayWrite ==
    /\ job.kind = "decay"
    /\ status' = [w \in Wallets |-> IF w \in job.write THEN "degraded" ELSE status[w]]
    /\ job' = NoJob
    /\ UNCHANGED <<score, queued, watching, refresh>>

\* refresh_watchlist lists the idle wallets ...
RetireRead ==
    /\ job = NoJob
    /\ \E W \in SUBSET Watchable :
          /\ W # {}
          /\ job' = [kind |-> "retire", write |-> W]
    /\ UNCHANGED <<rows, queued, watching, refresh>>

\* ... and suspends them in one session each.
RetireWrite(w) ==
    /\ job.kind = "retire" /\ w \in job.write
    /\ status' = [status EXCEPT ![w] = "suspended"]
    /\ job' = IF job.write = {w} THEN NoJob ELSE [job EXCEPT !.write = @ \ {w}]
    /\ UNCHANGED <<score, queued, watching, refresh>>

\* A job dies or times out; what it has not committed is lost.
JobDies ==
    /\ job # NoJob
    /\ job' = NoJob
    /\ UNCHANGED <<rows, queued, watching, refresh>>

-----------------------------------------------------------------------------
(* The operator and the decision service *)

\* set_trader_status, on a row that exists.
SetTraderStatus(w, new) ==
    /\ status[w] \notin {"absent", new} /\ ~Locked(w)
    /\ status' = [status EXCEPT ![w] = new]
    /\ UNCHANGED <<score, job, queued, watching, refresh>>

\* PUT /traders/{wallet}/status takes any status.
SetStatus(w) == \E new \in Orders : SetTraderStatus(w, new)

\* DELETE /setup/wallets/{wallet} keeps the row.
RemoveWallet(w) == SetTraderStatus(w, "blacklisted")

\* POST /setup/wallets/{wallet}/restore: as unproven as any newcomer.
RestoreWallet(w) == SetTraderStatus(w, "discovered")

Operator(w) == SetStatus(w) \/ RemoveWallet(w) \/ RestoreWallet(w)

\* The firehose check and the credit budget: suspend, unwatch, re-subscribe.
\* (watching already lacks a wallet that another worker has cut.)
Suspend(w) ==
    /\ w \in watching /\ ~Locked(w)
    /\ status' = [status EXCEPT ![w] = "suspended"]
    /\ watching' = watching \ {w}
    /\ UNCHANGED <<score, job, queued, refresh>>

\* refresh_wallets, called every 30 seconds: the SQL read ...
RefreshRead ==
    /\ refresh.pc = "idle"
    /\ refresh' = [pc |-> "apply", seen |-> Watchable]
    /\ UNCHANGED <<rows, job, queued, watching>>

\* ... and, after the Redis pipeline, the new set and its subscription.
RefreshApply ==
    /\ refresh.pc = "apply"
    /\ watching' = refresh.seen
    /\ refresh' = NoRefresh
    /\ UNCHANGED <<rows, job, queued>>

\* The read or the pipeline raises; the poller suppresses it and sleeps.
RefreshFails ==
    /\ refresh.pc = "apply"
    /\ refresh' = NoRefresh
    /\ UNCHANGED <<rows, job, queued, watching>>

-----------------------------------------------------------------------------

RosterStep ==
    \/ \E W \in SUBSET Wallets \ {{}} :
          \/ \E answered \in SUBSET W, queue \in BOOLEAN : Import(W, answered, queue)
          \/ ImportSeedFile(W)
          \/ \E fact \in [W -> Facts] : DiscoverRead(W, fact)
    \/ DiscoverWrite
    \/ ScoreCandidates \/ RescoreAll \/ RunBackfill
    \/ BackfillNothing \/ BackfillRead \/ \E s \in Scores : BackfillWrite(s)
    \/ MaintainRead \/ MaintainSelect \/ MaintainCommit
    \/ DecayRead \/ DecayWrite \/ RetireRead
    \/ \E w \in Wallets :
          \/ QueuedRead(w) \/ QueuedEnds(w) \/ \E s \in Scores : QueuedWrite(w, s)
          \/ MaintainPromote(w) \/ MaintainDemote(w) \/ RetireWrite(w)
          \/ Suspend(w) \/ Operator(w)
    \/ JobDies
    \/ RefreshRead \/ RefreshApply \/ RefreshFails

\* The ghost: who joins the roster otherwise than by a competition is late for
\* the one under way; a commit settles those that came before its select.
Selects == Maintaining("promote") /\ MaintainSelect
Commits == Maintaining("demote") /\ MaintainCommit

Lateness ==
    late' = [w \in Wallets |->
                CASE status'[w] \notin Followed -> "no"
                  [] status'[w] \in Followed /\ Commits ->
                        IF late[w] = "after" THEN "after" ELSE "no"
                  [] status'[w] \in Followed /\ Selects ->
                        IF late[w] = "no" THEN "no" ELSE "before"
                  [] OTHER -> IF status[w] \notin Followed THEN "after" ELSE late[w]]

RosterNext == RosterStep /\ Lateness

RosterSpec == RosterInit /\ [][RosterNext]_rosterVars

-----------------------------------------------------------------------------
(* Properties *)

\* The row of w was read before it was blacklisted, by a job that now writes it,
\* or by the decision service, which has been watching it since.
ReadBefore(w) ==
    \/ Scoring /\ w = Head(job.todo) /\ job.read \notin {"none", "blacklisted"}
    \/ queued[w] \in TraderStatus \ {"blacklisted"}
    \/ job.kind = "maintain" /\ w \in job.raised \cup job.lowered
    \/ job.kind \in {"discover", "decay", "retire"} /\ w \in job.write
    \/ w \in watching /\ status'[w] = "suspended"

Restored(w) ==
    /\ status[w] = "blacklisted" /\ status'[w] # "blacklisted"
    /\ ~Operator(w)

\* A blacklisted row changes only at an operator's hand, under a job that had
\* read it before, or when somebody adds the address once more.  No discovery,
\* score, competition, decay or retirement that begins later brings it back.
BlacklistHolds ==
    [][\A w \in Wallets : Restored(w) =>
          \/ ReadBefore(w)
          \/ \E W \in SUBSET Wallets :
                \/ ImportSeedFile(W)
                \/ \E answered \in SUBSET W, queue \in BOOLEAN : Import(W, answered, queue)]_rosterVars

\* DELETE /setup/wallets: "a removed wallet must not silently reappear on the
\* next import".
RemovedStaysRemoved == [][\A w \in Wallets : Restored(w) => ReadBefore(w)]_rosterVars

\* Verification fails open when the RPC is down and a seed file is not verified,
\* so that a token mint or a program may get a row; but an address that has never
\* traded is copied only if an operator says so, and no competition, however short
\* the roster, takes it.
OnlyTradersAreCopied ==
    [][\A w \in Wallets \ Scorable :
          status'[w] \in Followed /\ status[w] \notin Followed
          => Operator(w)]_rosterVars

\* "Hold the roster at its target size": what is copied beyond the target has been
\* put there by a backfill or an operator after the last competition that
\* committed had selected whom to demote.  Whoever was put there before that, even
\* between its ranking and that select, has stepped down or was ranked high enough.
RosterAtTarget ==
    Cardinality({w \in With(Followed) : late[w] = "no"}) <= TargetRoster

=============================================================================
