# Verification of Alpha-Smart-Money

TLA+ models, TLC runs and TLAPS proofs for this copy-trading system: who is
watched and copied, how a signal becomes a trade, what a decision weighs, the
ledger that limits it, live execution, exits and emergencies, profit harvesting,
the modes, the runtime settings and the backtest. Paths are relative to the
repository; the Python package is `src/asm`.

## The system

| Part | State | Operations | Talks to |
|---|---|---|---|
| Risk ledger (`state/scripts.py`, `state/ledger.py`) | Redis hashes: totals and counters, exposure per token and per trader, one hash per reservation | `reserve`, `release`, `commit`, `release_position`, `mark` (Lua scripts, hence atomic), `bootstrap`, `reset_daily`, `add_harvest` | called by the decision service, the position service, emergency jobs, the harvest, the CLI |
| System control (`state/ledger.py`, `services/api/routes/system.py`, `cli.py`) | two Redis keys: the state string and the kill latch | start, stop, pause, resume, kill, clear | read by `RESERVE`, the signer, the position service |
| Signer (`execution/signer.py`, `execution/signer_service.py`) | none; checks the two keys | `sign` | called by the live executor and the treasury |
| Live execution (`execution/live.py`, `state/dedupe.py`) | one Redis key per idempotency key | `execute` | Jupiter, signer, RPC, chain |
| Decision service (`services/decision_service.py`, `engine/decision.py`, `engine/gates.py`, `engine/sizing.py`) | bounded signal queue, claims, the wallets it watches | ingest, parse, decide, enter, refresh the watchlist, suspend noisy wallets | ledger, executor, SQL, provider |
| Position service (`services/position_service.py`, `engine/exits.py`) | tick counter, position snapshots | tick: evaluate, exit, mark, harvest | ledger, executor, SQL |
| Emergency job (`services/tasks/emergency.py`) | its snapshot | close everything | ledger, executor, SQL |
| Harvest and treasury (`engine/harvest.py`, `engine/treasury.py`) | baseline, profit lock, transfers | decide, transfer, debit | ledger, signer, RPC |
| Roster (`services/tasks/discovery.py`, `services/tasks/intelligence.py`, `seeding.py`, `ingest/verify.py`) | trader rows: status and score | import, discover, score, compete, decay, retire, suspend | SQL, GMGN, RPC |
| Modes (`promotion.py`) | `asm:mode`, and a mode in each process | advance, go live, set, load | SQL, Redis |
| Runtime settings (`runtime_config.py`) | database row, Redis cache, memory of each process | save, reset, refresh | SQL, Redis |
| Provider adapters (`adapters/`) | a circuit breaker per adapter | `rpc` with fallback | Helius, GMGN, Jupiter |
| Backtest (`backtest/`) | a book of its own | replay | gates, exit rules, ledger scripts |

What is hard here: three kinds of process share two stores (Redis, SQL) that no
transaction spans; commands are several Redis round trips; jobs read rows long
before they write them; a broadcast may land although the RPC timed out; claims
expire; signals are lost, repeated and reordered; anything may raise or die
between two awaits. What makes the parts correct:

* ledger: no money appears or disappears, exposures and counters are backed by
  the book, limits are not overbooked by concurrent entries;
* controls: a kill that has returned stops all spending until it is cleared, and
  only a command reopens trading;
* execution: at most one broadcast per idempotency key, truthful answers;
* signals: one copy per buy that the provider dates, a suspended wallet ends up
  unwatched, workers survive every failure;
* trades: the ledger never shows less risk than there is, and a position's cost
  is released once;
* exits: a stop loss that keeps firing closes the position (the code does not keep
  this), an emergency is carried out or reported, and the row never forgets tokens
  the wallet has;
* harvest: the same profit leaves once (nor this), and nothing is booked that was
  not sent;
* roster: a removed wallet does not come back by itself (nor this, after an import),
  only wallets that trade are copied, and no more of them than the target;
* modes: nothing automatic reaches live, no change strands an open position;
* settings: what was acknowledged stays, and reaches the services (which it does not
  in every case);
* backtest: time does not run backwards, the book and the result agree, stops
  fire between signals.

`PROJECT.json` lists the hazards by line, each with the properties that cover it and
with what they leave uncovered.

## Modules

* `SystemKeys`: the two control keys; one operator per Redis command.
* `SystemControl` (extends it): concurrent operator commands and signing
  requests. `op[o]` is an API request or a CLI call with its program counter,
  `req[q]` a signing request between its reads. `GetLatch`/`GetState`/
  `SetRunning` are `start` and `POST /system/resume`; `CliResume` writes without
  reading, as `cmd_resume` does; `KillLatch`/`KillState` are the two writes of
  `kill`. `DaemonState`/`DaemonKill` are `SignerService._check`,
  `EnforceState`/`EnforceKill` are `LocalSigner._enforce`. A command that dies
  half way (`OperatorCrash`) leaves what it wrote. Three ghosts record what the
  properties compare: a kill completed and not cleared since, which kind of
  command wrote RUNNING since the last `clear_kill`, and something spent under a
  kill.
* `RiskLedger` (extends `SystemKeys`): each Lua script as an action, guards from
  its early returns, updates from its `HINCRBY`s. Amounts are integers in a unit
  of which `Dollar` make a USD; float rounding is abstracted away, the dust clamp
  is not.
* `LedgerProtocol` (extends it): callers that keep the ledger's protocol (commit
  or release a hold, release a position's cost in parts), plus marks, the daily
  reset, a harvest that debits a decision taken earlier, and the reset command on
  a flat book.
* `Book`: what the ledger promises, without its running totals: entries (free, hold,
  position, settled) with the money each commits, and what was earned and taken out.
  Cash, capital at work, exposures and counts are sums over the entries; a grant is
  decided on them, and a reader is `shown` them. `LedgerProtocol` implements it
  (`ImplementsBook`): `Entries` reads an entry off the reservation and the position,
  each script is one action of the book, and `shown` is mapped to the fields of the
  Redis hashes. `TradeLifecycle` takes the book's steps while `NothingLost`
  (`FollowsTheBook`): there the entry is what the ledger has not yet released of a
  fill, whatever row the SQL store shows; SQL commits, orders, failures and crashes
  are stutters, and so an entry that dies at any step leaves a hold or a position
  the book may keep.
* `OrderContract`: what a caller of `execute` may rely on, without keys or
  signatures: an order is put on the network at most once, by an attempt that has
  not answered; one answer per attempt; FAILED and CONFIRMED are the truth.
* `OrderExecution`: `LiveExecutor.execute` with every await that can fail as a
  step, the idempotency key, and the chain (external) deciding at any time.
  `Contract` instantiates `OrderContract` with `sent` mapped to the attempts whose
  transaction under a key may be on the network; `ImplementsContract` is the
  refinement.
* `ProviderBreaker`: `HeliusClient.rpc` over the shared `CircuitBreaker`:
  concurrent calls, each with its primary and then its fallback endpoint.
* `SignalPath` (extends it): the decision service's hot path. `Deliver` is a
  websocket notification into the bounded queue, which drops the oldest; `Handle`
  groups a worker's steps (claim in Redis, fetch through the breaker, parse,
  claim of the trade, age gate, entry or mirrored sell); an exception of Redis or
  the database at any of these awaits is `Raises`, one of the provider `Unusable`.
  `Parse` takes the age of a trade from the block time, or takes it for new when
  there is none; the ghost `undated` remembers those. `RefreshRead` and
  `RefreshApply` are `refresh_wallets`; the firehose check and the budget poller
  suspend; `Crash` loses queue and workers and keeps Redis.
* `Decision`, `ExitRules`: the gates, the sizing modes and `evaluate_entry`;
  `evaluate_exits` and `update_marks`. Pure operators in the code's order, with
  its defaults; the first case that applies decides.
* `Backtest` (extends both and `RiskLedger`): `run()` of the replay, one action
  per await, over the same gates, rules and scripts, with the simulated provider
  (prices known only when somebody trades, stale after a while) and executor
  (which may fail).
* `TradeLifecycle` (extends `RiskLedger`): the entry (`_handle_entry`,
  `_execute_entry`), the exit (`tick`, `_evaluate`, `_execute_exit`) and the
  emergency job, with the SQL rows and the ledger as separate stores. Execution
  is an abstract executor: filled, failed or unknown. `Fault`-guarded actions are
  exceptions and crashes between two commits.
* `ExitLoop` (extends `SystemKeys`): one position, the position service that
  tries to exit it at every tick (`Evaluate`), and the emergency job that tries
  once. The live executor appears with its idempotency key per position, reason and
  amount (`idem`), what it prepares and what the signer signs, and every outcome of
  a broadcast order; the wallet (`held`) and the row (`amount`) are separate. Two
  refusals depend on nothing but the sale: one larger than `Unprotected` wants a
  private route and is refused in `_prepare`, one whose token amount is larger than
  `Ceiling` is refused by the signer daemon, which compares it with its ceiling in
  lamports (`executor` is `"daemon"`). `Raised` is an exception that `execute` lets
  through and that leaves the key pending for a day: of Redis, of the provider, of
  the signer's socket. `Dies` is the death of a process, after which the queue runs
  the job again; `CutShort` is ARQ's `job_timeout`. Of the exit rules it has the
  stop loss, which comes first, and the mirrored exit.
* `Harvest`: `maybe_harvest` with each Redis command, SQL commit and chain call
  as a step of its own, run by several `Harvesters` (the position service's timer
  and `asm harvest`) while entries, exits and marks change the ledger. Ghosts:
  `unbooked`, what a harvester's transfers moved less what it debited; the
  transfers since the baseline moved; the highest equities; `swallowed`, the
  unrealised losses by which harvests lowered the baseline; and `raced`, what
  overlapped a harvest.
* `Roster`: trader rows. `Import`, `ImportSeedFile` and the pair `DiscoverRead`/
  `DiscoverWrite` create them, after `Verify`, `Screen` and `InWindow`;
  `ScoreCandidates`, `RescoreAll` and the `Backfill` steps score them; imports and
  `RunBackfill` queue a backfill per wallet, which reads (`QueuedRead`) and writes
  (`QueuedWrite`) beside the scheduled job (`max_jobs` is 10). The competition is
  `MaintainRead`, `MaintainPromote`, `MaintainSelect`, `MaintainDemote` and
  `MaintainCommit`: awaits of one transaction, whose writes nobody sees before the
  commit and whose written rows nobody else writes (`Locked`), while promotions of
  other rows commit in between. `DecayRead`/`DecayWrite` and the `Retire` steps are
  the worker's other jobs; `Operator`, `Suspend` and the watchlist refresh go on
  beside them. The ghost `late` remembers who joined the roster after a competition
  had selected whom to demote.
* `Modes`: `Advance`, `Gates`, `CountOpen`, `Switch` and `Persist` are the awaits
  of one change of mode; `Start` is a process that loads the stored mode, which the
  worker does not. `excused` names the modes in which something was opened during
  a change, or whose positions the change did not count.
* `RuntimeConfig`: `apply` and `reset` between their awaits (read the record, write
  it, write the cache), `refresh` of the polling services (`Services`), and the
  processes that read the settings when they start and never again (`Once`: the
  worker). A read of the record may fall back on the cache (`Stored`).
* `MC*`: sets, functions and symmetry for TLC. `*Proofs`: theorems, and
  `FiniteSums`, the lemmas on sums that three of them rest on.

Where two modules are extended by one proof module, the definitions they would
both call `Init`, `Next` and so on carry a prefix (`ControlSpec`, `OrderSpec`,
`ConfigSpec`, `ModesSpec`, `ExitSpec`, `RosterSpec`).

Definitions whose comment begins with "Mutant" are wrong variants of the
definition that follows; substituting one must violate a property, which shows
that the property depends on that piece of the code.

## Runs

| Run | Bounds | Shows |
|---|---|---|
| `controls`, emergency controls | 3 operators, 1 signing request | `NoSpendAfterKill`, `ReopenedByCommand` |
| `controls`, live orders | 3 attempts, 2 keys | `AtMostOneBroadcast`, `StatusIsTruthful`, the refinement `ImplementsContract` |
| `controls`, modes | 1 API request beside the worker, 1 open position per mode, paper at first | `LiveIsChosen`, `StrandedOnlyByRace` |
| `controls`, settings | 2 settings in two sections, 2 values, 2 requests, 1 polling service | `AcknowledgedIsSaved` |
| `ledger` | 3 reservations, 2 mints, 1 trader, fills below and above the size, partial exits, a mark above cost, 1 harvest | `Conservation`, `ExposureBacked`, `NeverOverbooked`, `CapsHonoured`, the refinement `ImplementsBook` |
| `lifecycle` | 2 trades, 1 emergency job, 2 faults | `LedgerNeverUnderstates`, `StoresAgree`, `SerialExitsAreSafe`, `FollowsTheBook` |
| `position`, harvest | 2 harvesters, 2 calls, live and paper, wins and losses, marks at and below cost, 1 fault | `CountedOnlyIfSent`, `OncePerBaseline`, `HarvestWithinShare` |
| `position`, exit | 2 units, three executors, every outcome, 1 death | `NothingStranded`, `EmergencyIsAnswered` |
| `roster` | a trader and a program, roster of 1, scores on both sides of each threshold, facts that pass, fail and are missing | `BlacklistHolds`, `OnlyTradersAreCopied`, `RosterAtTarget` |
| `backtest` | every history of 4 trades in 2 tokens, at 3 prices and 2 schedules, with failures; 2 sizing modes, 2 depths of the book | `NeverClosesBeforeOpening`, `BooksAgree`, `StopsAreTaken`, `OnlyUnsellableStaysOpen`, `FitsTheBook` |
| `signal` | 2 workers, queue of 1, a buy and a sell of one wallet, 2 deliveries, claims that expire, 1 crash, breaker threshold 2 | `OneCopyPerBuy`, `SuspensionTakesHold`, `WorkersSurvive` |
| `roster_reimport` | as `roster` | violation of `RemovedStaysRemoved` |
| `config_reach` | 1 setting, 1 request, 1 polling service, the worker | violation of `SettingsReachServices` |
| `outage` | 8 callers, threshold 5, as in the code | violation of `FailsOnlyWithFallback` |
| `losscap` | 2 units, of which 1 sells unprotected, no misfortune, no death | violation of `StopLossRetries` |
| `underwater` | 1 harvester on paper, 2 calls, threshold 25 %, take 40 %, marks of -30 and 0 | violation of `SameDollarsOnce` |

`controls` and `position` hold parts that share no variable. An initial state
chooses the part that moves, and the others rest: interleaving parts that share
nothing would only multiply the states. One signing request is enough in `controls`
because requests only read the keys and never meet.

`position`, `signal` and `backtest` also check the module's type invariant
(`ExitTypeOK`, `SignalTypeOK`, `TypeOK`); so do the other modules' runs when it is
added to their configuration. Of every module but `Roster` and `ProviderBreaker`
taken alone it is also proved.

Why the bounds are enough to be interesting: the control races need two commands
and one in between (three operators); overbooking needs one more entry than slots
(three reservations, two slots); the exposures of a trader are kept by the same
lines as those of a token, which differ from the total already with two mints;
double broadcast needs an attempt, its retry and
one that meets the expired claim (three attempts); a second copy needs two
deliveries and two workers, and a queue of one is full at the second delivery; the
breaker of `signal` opens at two failures, so that two workers reach each of its
states, and `outage` has the code's own numbers; a
lost release needs one fault, a repetition after it two; harvesting twice needs
room for two crossings of the threshold (exits leave `Gross` equity at 100 or 160
on a capital of 100, so that profit is also lost and made again), a race of
harvesters two of them; a mirrored half and its rest need two units. In the
instance of the exit `Unprotected` is 2 and `Ceiling` 1, so that only the daemon
refuses a whole sale; in `losscap` it is the route. In the
roster, a second wallet that nothing can score is what may crowd out or
be copied in place of the first. A change of mode races with the worker's, and
with opening and closing, already with one request and one position. Lost
updates of settings need two requests and two settings. A replay needs a buy, a
later event that detection overtakes, a price that stops it out and one that
climbs the ladder: four trades. Limits are percentages small enough that every
gate of `RESERVE` both passes and refuses in some state. Not in the instances:
addresses with a launchpad's suffix (`Launchpad` is empty in `MCRoster`; they can
only not enter), direct callers beside the failing-over ones (`Direct` is empty),
and marks above cost in the harvest (they lower nothing; the theorem has them).

`CHECK_DEADLOCK FALSE` stands where the system may stop, when a replay is done
(`backtest`); in `controls` the end of all attempts is a step of its own.

Some properties carry a condition, and each names the only way out:

* the exits of `TradeLifecycle` are safe unless two exiters handled one position at
  once (`raced`); `StoresAgree` is about the quiescent state without a fault;
* `OncePerBaseline` and `HarvestWithinShare` unless two harvests overlapped; the
  first allows one more transfer for each lost confirmation or crash, the second is
  about runs without one;
* `StrandedOnlyByRace` but for `excused` modes: a race with an opening, and the
  worker's stale mode;
* `ReopenedByCommand` counts a start or resume that acts on an old read as a command;
* `AcknowledgedIsSaved` until requests overlap, and again when a lone one has
  succeeded;
* `BlacklistHolds` but for a job that had read the row before, and an import;
* `RosterAtTarget` but for who joins after the select of a competition, until the
  next one;
* `OneCopyPerBuy` but for transactions the provider has answered without a block
  time;
* `EmergencyIsAnswered` is about jobs that run to their end; the alert is an answer;
* `StopsAreTaken` but for positions of which a sale has failed before;
* `FitsTheBook` is about the sizing modes that take a part of `base_position_pct`,
  with cash for an entry at the ceiling.

### Fairness

Fairness is stated where a liveness property is checked.

* `SignalPath`. Weak fairness of each worker's steps, of the answer to each call
  (HTTP timeouts), of the second half of a suspension, and of the two halves of the
  refresh, which a poller repeats for ever. Nothing is assumed of the chain, of
  deliveries or of success.
* `RuntimeConfig`. Weak fairness of `Refresh`: the services poll in a loop. The
  violation is one of a system that keeps polling.
* `ExitLoop`, `PersistentSpec` (`losscap` only). Weak fairness of `JobStart`,
  `Evaluate`, `ClearSource`, `Proceed` and `ClaimExpires`: the worker runs its queue,
  the position service loops every second, every await of the executor has a timeout
  and returns, and a claim has a time to live. Strong fairness of `Claim`,
  `Prepared`, `Sign`, `Fill`, `PaperFill` and `Book`: whatever may succeed again and
  again does at some time. This grants the market every benefit of the doubt, and the
  violation stands all the same, because `Prepared` is never enabled for the sale.

### Disagreements between code and documentation

Those with a run are checked as its violation; beside the others the properties are
stated so that they hold.

1. (`roster_reimport`) "a removed wallet must not silently
   reappear on the next import" (`services/api/routes/setup.py:166`), but
   `upsert_trader` writes DISCOVERED over the row it finds (`db/repo.py:41`), and
   the wallet is watched again.
2. A kill's clearing promises a pause until an explicit resume, but `start` and
   `resume` write RUNNING on the strength of an old read.
3. `stop` promises that exits keep running (`state/ledger.py:219`); the live signer
   refuses to sign in the state it writes (`execution/signer.py:82`).
4. Position writes are said to be "serialised through the position service"
   (`db/repo.py:297`); the emergency job writes too, and when both handle one
   position its cost is released twice and the row oversold.
5. "Nothing after it may reject without releasing" (`engine/decision.py:9`); an
   exception after the reservation does, and a SUBMITTED execution keeps its hold
   for a reconciliation that does not exist.
6. (`underwater`) "A round trip up and back down does not harvest twice on the same
   dollars" (`engine/harvest.py:6`), but the new baseline contains the unrealised
   loss the trigger excludes (`engine/harvest.py:141`). In the run a profit of 40 is
   realised and 16 of it harvested while another position stands at -30, which sets
   the baseline to 94; nothing else moves, and the next call takes 12 of the same
   profit. `HarvestWithinShare` says what is left of the promise.
7. (`losscap`) The stop loss "is the loss cap" (`engine/exits.py:61`). But
   `_prepare` refuses any sale whose plan wants a private route
   (`execution/live.py:80`), which the risk score reaches at 1.25 % of impact or 1250
   dollars of notional in a pool that is not deep; protection is on by default
   (`config.py:218`) and `urgent` does not prevent it: each tick is refused anew. So
   is, by the signer daemon, a sale of more than 2e9 raw token units, because
   `live.py:196` sends the token amount as `max_lamports` and
   `execution/signer_service.py:83` compares it with `signer_max_lamports`. An order
   that failed on chain keeps its key, and every repetition for the same amount is a
   duplicate; an exception in `_prepare` or of the signer's socket, which is no
   `SignerError`, leaves the key pending for a day.
8. (`outage`) "Never assume a transaction failed because one RPC timed out"
   (`adapters/helius.py:123`), but the fallback endpoint shares the breaker of the
   primary one: eight workers (`services/decision_service.py:42`) against a threshold
   of five (`adapters/base.py:87`), and an outage of the primary opens it and refuses
   the fallback too. Direct posts have no fallback at all.
9. `POST /mode/live` is judged by the gates of the stage it is called in; from
   paper it skips those of shadow. "Every service calls promotion.load_mode() at
   startup" (`config.py:120`); the worker does not (`services/worker.py:49`), and
   judges and persists changes from the mode it was built with.
10. "Duplicate signals must never produce duplicate unintended orders"
   (`adaptive-smart-money-copy-trading-prd.md:1963`), but a transaction without a
   block time has age zero (`ingest/parser.py:103`): repeated after its claims have
   expired (an hour), it is copied again on paper. In live mode the key of the order,
   which lives a day or for ever, refuses the second one. Also, a sell that overtakes
   its buy finds no position to mirror; and the budget guard averages since it started
   and, reading a counter that begins anew each day, sees no use after midnight
   until the day's count has passed the one it started from (`credits.py:81`).
11. The kill switch is one key for all namespaces, so it rejects the reservations
   of a backtest; the day's realised loss is never reset in a replay; entry fees
   are charged neither to the book nor to the result; a token without a fresh
   price at the end stays open.
12. An edge that is not known counts as 15 %, although the gate's comment says
   otherwise (`engine/gates.py:134`); the deviation gate accepts any fall in
   price.
13. The liquidity gate says "Shrink to fit the book" (`engine/gates.py:107`): its
   multiplier is what the book allows over the provisional size, which is already
   clipped to the ceilings and the cash; `final_size` multiplies the size before
   clipping (`engine/sizing.py:92`). Where the base size exceeds the ceiling or the
   cash that is left, the entry is larger than the book allows. `FitsTheBook` holds
   for the sizing modes that stay below the ceiling, with cash enough; it fails with
   `SizingModes = {"source_proportional"}`, `Depths = {100000}` and a trader whose
   average buy is 250: the position costs 1125 where 1000 fits. In live
   trading the confirmation gate may also multiply the cut size by 1.25
   (`engine/gates.py:198`), beyond what the book allows.
14. The scoring budget "drains the screened queue in order of promise"
   (`services/worker.py:114`), but a wallet without a round trip gets no score and
   stays at its head: as many such wallets as the budget starve all behind them.
15. Writes that follow an old read win: a scoring, retirement or discovery job that
   had read a row before it was blacklisted writes over that; two saves of settings
   that overlap lose one of them, although both were acknowledged.
16. (`config_reach`) "Applied to the running services within a few seconds. Reset
   restores the defaults built into the code" (`services/api/routes/config.py:25`),
   but `refresh` leaves alone what the cache does not have (`runtime_config.py:299`),
   so a service keeps an override that was reset until it restarts, and the worker
   reads the settings when it starts and never again (`services/worker.py:54`).

## Proofs

TLC checks instances; these hold for every value of the constants. Each proof has
an inductive invariant, found or at least tried with TLC first, and one step or
lemma per action.

* `FiniteSums`. The ledger's totals are sums over reservations, and the fold that
  defines a sum is recursive, so what it computes cannot be shown by induction.
  `SumsExist` shows instead, by minimal counterexample (`MinimalSubset`: a
  non-empty family of subsets of a finite set has a minimal member), that a
  function exists which satisfies the recursion; `SumRecursion` that the sum is its
  value. The rest follows from the recursion in the same way: a sum is an integer
  (`SumInt`), any member can be split off (`SumRemove`), changing one term changes
  the sum by as much (`SumMoves`), sums are monotone (`SumOrdered`).
* `LedgerProtocolProofs`: `TypeOK`, `CountsBacked`, `NeverOverbooked`,
  `Conservation`, `ExposureBacked` and `CapsHonoured`, for all limits, sizes and
  fills. The limit on positions is checked on the counters, so it bounds the book
  only because the counters are exact (`CountsBacked`, not checked by a run of its
  own); they are, given `RowsFollowCommit`. The money rests on `ExposureBacked`: a
  total that is the sum of what positions commit is at least any one position's
  cost, so the dust clamp of `RELEASE_POSITION` and the deletion of exposure fields
  never act on a value that was not 0, and nothing disappears in them. The ceilings
  are checked against `equity`, `CapsHonoured` compares with the highest equity
  marked (`PeakAboveEquity`). Assumptions: finitely many reservation ids, natural
  amounts, no fill of value 0.
* `LedgerProtocolProofs`, the refinement `ImplementsBook`. `BookReads`: what the book
  has under a reservation, case by case of the reservation and the row. `BookTotals`:
  from `ExposureBacked` and `CountsBacked`, every total of the ledger is the book's
  sum, before a step, where a guard reads it, and after it (`TotalsNext`), where it
  is shown. `OneEntryMoves`: a script touches one entry. Then one lemma per action;
  in `ExitBook` the clamp and the deletion of exposure fields disappear, because the
  sums say they act on 0. `HarvestsDecided`: the amount debited is one that was
  decided.
* `TradeProofs`, `TradeLifecycle`: `TypeOK`, `LedgerNeverUnderstates`,
  `StoresAgree` and `SerialExitsAreSafe`, for any number of entries and emergency
  jobs, any amounts and a failure or crash after any commit. The SQL rows and the
  ledger are related by `Risk`, what the ledger has to show for an entry: its hold;
  its fill until the row shows it; then the row's cost and `Due`, the cost an exit
  has taken off the row and not yet released. `Covered`: the ledger shows at least
  the sum of `Risk` and a slot for each entry that takes one, exactly so while
  nothing has failed. It stands on `Stages` (where a worker is tells what the
  reservation and the row are), `Serial` (a position two exiters never handled at
  once has one exit at most, on an exact snapshot) and `Spent` (what has been
  released and what is at risk is at most what was filled). All of it excepts
  positions in `raced`, for which it is false (disagreement 4).
* `TradeProofs`, `FollowsTheBook`. The condition `NothingLost` is said of the state
  after a step, so the proof needs that what is lost stays lost: `NextNoneLost`
  shows that `NothingLost'` implies `NothingLost`. An exit that fails between its
  SQL commit and its release loses what was due, and that is never 0
  (`FailedNoneLost`): a position costs at least a unit for each token unit it holds,
  and keeps doing so when a part of it is sold (`Priced`, `PartPriced`: the quotient
  of the released cost is neither 0 nor more than leaves the rest its price). `Known`
  adds to the invariant that fills and proceeds are ones the executor may answer and
  that a row is of its reservation's token and trader. `Exact`, all running totals are sums over
  the entries, then holds while nothing is lost (`Booked`), and `StepBook` gives the
  book's step for each action. `Exact` says more than `Covered`: it fixes the
  exposures by token and trader too, and allows entries that died before their row.
* `TradeProofs`, `OrderExecution`: `OrderTypeOK`, `AtMostOneBroadcast`,
  `StatusIsTruthful`, the action property `SignatureIsKept` and the refinement
  `ImplementsContract`. `ClaimsExclusive`: a pending claim has one owner, which has
  sent nothing; `SignatureStored`: whatever may be on the network is stored under
  its key; `AnswersFinal`: an attempt that answered takes no further step. From
  these, `StepKeepsPromise` maps every step to a step of the contract or a stutter.
  Assumption: attempts are not the strings "free" and "pending".
* `ControlProofs`, `SystemControl`: `ControlTypeOK`, `ReopenedByCommand` and
  `NoSpendAfterKill`. The last alone is not inductive: a state with a kill recorded
  and the latch down could spend at the next step. `LatchHeld` adds that a completed
  kill, a kill between its writes that nobody cleared, and a signing request begun
  after a completed kill each imply the latch.
* `ControlProofs`, `ExitLoop`: `ExitTypeOK`, `EmergencyIsAnswered`, and
  `NothingStranded` for positions of any size, any limits of route and signer and any
  number of deaths. `RowCovers`: wallet plus sold-and-not-booked is at
  most the row, and an exit of everything sells at least what the row now shows, so
  booking it, which sets the row to zero, leaves nothing in the wallet. All of it is
  said of live mode; in paper mode there is no wallet. `EmergencyIsAnswered` is not
  inductive alone: it needs that the job's exit sells the whole row it was made out
  for, so that booking it closes the position, and that a row once closed stays
  closed.
* `SignalPathProofs`: `SignalTypeOK`, and `OneCopyPerBuy` for any chain, number of
  workers and notifications. `ClaimHeld`, a claim set
  when a dated transaction was seen lasts until the gate closes on it, because
  `Gate < TTL`; `OneHandler`, so at most one worker can still copy it in time.
* `HarvestProofs`: `TypeOK`, `CountedOnlyIfSent`, `LockBelowPeak` (the profit lock
  never exceeds the highest equity reached), `OncePerBaseline` and
  `HarvestWithinShare` for any number of harvesters, any amounts, any marks and any
  faults. `Covered`: a call that
  has paid and not yet debited is covered by what it sent. `Reached`: every equity a
  call remembers and every lock it is about to write is at most the peak; the lock
  alone is not inductive, since a stale value is written steps after it was read.
  Undisturbed, one call at most is under way, and a transfer since the
  baseline moved is its own, or one a fault has cut off from its baseline.
  For the share: what was taken in all is at most the share
  of the highest profit realised and of what baselines have swallowed, with what the
  call under way will have taken, and so is the share of what the baseline stands
  above the capital.
* `TrialProofs`, `Modes`: `ModesTypeOK`, `LiveIsChosen` (unless the initial mode is
  live) and `StrandedOnlyByRace`, for any number of requests, restarts and
  positions. `LiveRequested`: a change under way towards live was asked for, or
  began when live had been chosen; `CountedClosed`: what a change has counted is
  still closed, or excused.
* `TrialProofs`, `Backtest`: `TypeOK`, `NeverClosesBeforeOpening`, `BooksAgree`,
  `StopsAreTaken`, `OnlyUnsellableStaysOpen` and, under the hypotheses below,
  `FitsTheBook`, for every history, profile, depth, limit and pattern of failures. `ReplayInv` has `InTime` (an event is handled only
  after its time, so its token has a price), `PositionsSeen` (a position's token has
  traded, and it is not younger than the clock), `EntryHeld` (the entry under way is
  the one hold), `Balanced` (the deployed total is the sum of what positions and that
  hold cost; so, as above, the clamp loses nothing and the books balance) and
  `Visited` (what a loop has visited it has dealt with). That an evaluation leaves
  no stop standing goes through the rules themselves: `IntentType` and
  `NoIntentSpares` show that the first rule that applies sells everything when a
  stop or an armed trailing stop is reached. That sizes are whole numbers goes
  through every gate (`GateRatios`) and the product of their multipliers
  (`CombinedRatio`). Assumptions: histories are finite sequences of trades in the
  order of time, prices positive, reservation ids are numbers.
* `TrialProofs`, `FitsTheBook`. False in general (disagreement 13), it is proved by
  `EntriesFitTheBook` where the two sizes the code computes agree: the sizing modes
  take a part of `base_position_pct` (`UnderCeiling`), the base is not above the
  ceiling (0.75 % and 2 % by default), the trader's multiplier is at most 1
  (`cluster_risk_multiplier` in `engine/graph.py` gives no other), and a trade finds
  cash for an entry at the ceiling (`CashEnough`, which holds in every state of the
  `backtest` run's instance). Then the provisional size is not clipped
  (`BaseBelowCap`). No other gate enlarges (a replay's candidate has one
  confirmation at most: `CandidateTyped`), and the product of the multipliers is
  the liquidity gate's times one that shrinks (`CombinedUnfolds`, `CombinedShrinks`),
  so what is left after rounding down fits (`ShrunkFits`, `EntryFits`). `Fits` adds
  the entry under way to the open positions; a sale leaves no position dearer
  (`Touched`).
* `AdminProofs`, `Roster`: `BlacklistHolds`, `OnlyTradersAreCopied` and
  `RosterAtTarget`, for any set of wallets, any facts and any limits, provided the
  minimum score is not zero (the default is 60). `OnlyTradersScored`: a wallet
  without a round trip has no score, and a backfill that has read a row has one to
  write. For the target: what a competition keeps fits it; from the select on,
  everyone copied is kept, about to be lowered, or has joined after the select; and
  what the transaction has written stays locked until it commits.
* `AdminProofs`, `RuntimeConfig`: `ConfigTypeOK` and `AcknowledgedIsSaved` for any
  settings, requests and services. A request is `lone` if nobody was under way when
  it began and nobody began since. `ConfigInv`: what a lone request has written so
  far stands, and while nothing has raced nobody but a lone request is under way; so
  what it acknowledges is in the record and in the cache.

Only model-checked: the liveness properties `SuspensionTakesHold` and
`WorkersSurvive` (liveness under fairness and `ENABLED` are outside what
the prover can do) and the types of `Roster`.
`RemovedStaysRemoved`, `SettingsReachServices`, `FailsOnlyWithFallback`,
`StopLossRetries` and `SameDollarsOnce` are violated.

## Not modelled

* Float rounding; transaction contents (allowlist, amounts and
  prices out of balance deltas); HTTP details, pacing and metering of the adapters.
* Session authentication (cryptography and the clock), the wallet graph and the
  experiments (statistics over stored trades), market state and token safety
  (cached reads of external data, inputs of `Decision`), alerts and AI summaries
  (output), snapshots, attribution and retention (reporting), the schema, the
  dashboard and the presentation routes.
* The statistics of scoring: `compute_scores` returns any of a set of scores.
* Of the backtest: the parallel accounts of source and copyable profit, metrics and
  the verdict.
* Whole jobs an operator starts by hand while a scheduled one runs, and two queued
  backfills of one wallet.
* An emergency job whose own first read, or whose closing report, raises: ARQ does
  not run it again, and like one cut short by its timeout it has not ended in the
  sense of `EmergencyIsAnswered`.
* In `SignalPath`, an operator who lifts a suspension.
* `LedgerProtocol` resets the ledger on a flat book only, with no harvest under way;
  `asm reset` (`cli.py:71`) checks neither and wipes what is there.

What would come next: an abstract queue-and-copy specification for `SignalPath`; and
the action properties that the invariants above already imply, such as that a
settled reservation is never held again (a step of the book, for the ledger).
