----------------------------- MODULE AdminProofs ----------------------------
(**************************************************************************)
(* What the operator administers: whom to copy, and with which settings.  *)
(**************************************************************************)
EXTENDS Roster, RuntimeConfig, FiniteSetTheorems, TLAPS

-----------------------------------------------------------------------------
(**************************************************************************)
(* The roster for any number of wallets, any facts about them, any limits *)
(* and any size of the roster: what a job has read bounds what it may     *)
(* write, whoever changes the rows meanwhile.                             *)
(**************************************************************************)

\* Every wallet has a status, a score and a queue of backfills.
RowsOf == /\ status = [w \in Wallets |-> status[w]]
          /\ score = [w \in Wallets |-> score[w]]
          /\ queued = [w \in Wallets |-> queued[w]]

\* A job of several steps keeps the fields of its kind.
Maintenance == [kind |-> "maintain", pc |-> job.pc, keep |-> job.keep, todo |-> job.todo,
                raised |-> job.raised, lowered |-> job.lowered]

JobShape ==
    /\ job.kind = "score" => job = [kind |-> "score", todo |-> job.todo, read |-> job.read]
    /\ job.kind = "retire" => job = [kind |-> "retire", write |-> job.write]
    /\ job.kind = "maintain" => job = Maintenance

\* What compute_scores writes belongs to a wallet that has traded.
OnlyTradersScored ==
    /\ \A w \in Wallets \ Scorable : score[w] = Unscored /\ queued[w] \notin TraderStatus
    /\ job.kind = "score" /\ job.read # "none" => Head(job.todo) \in Scorable

\* A competition has chosen few enough wallets, all of them scored, and promotes
\* none but them.
FewKept ==
    job.kind = "maintain" =>
        /\ job.keep \in SUBSET Scorable /\ Cardinality(job.keep) <= TargetRoster
        /\ job.raised \subseteq job.keep
        /\ job.pc = "promote" => job.todo \subseteq job.keep

RInv == 0 < MinScore /\ RowsOf /\ JobShape /\ OnlyTradersScored /\ FewKept

\* Those copied of whom a competition that began later has not yet disposed.
Counted == {w \in With(Followed) : late[w] = "no"}

\* Whoever was copied when a competition selected whom to demote is kept, or is
\* to step down, or has been told to.
Disposed ==
    job.kind = "maintain" /\ job.pc = "demote" =>
        \A w \in With(Followed) :
            late[w] = "after" \/ w \in job.keep \cup job.todo \cup job.lowered

-----------------------------------------------------------------------------

\* A wallet without a score is not eligible.
LEMMA EligibleTraded ==
  ASSUME 0 < MinScore, OnlyTradersScored PROVE Eligible \subseteq Scorable
<1> SUFFICES ASSUME NEW w \in Eligible, w \notin Scorable PROVE FALSE
  OBVIOUS
<1>1. w \in Wallets /\ score[w].composite >= MinScore
  BY DEF Eligible, Watchable, With
<1>2. score[w] = [composite |-> 0, confidence |-> 0]
  BY <1>1 DEF OnlyTradersScored, Unscored
<1>3. MinScore \in Nat
  BY RosterAssumption
<1> QED
  BY <1>1, <1>2, <1>3

\* What MaintainRead keeps is at most the target and has been scored.
LEMMA BestIsFew ==
  ASSUME 0 < MinScore, OnlyTradersScored, NEW K, Best(K)
  PROVE  K \in SUBSET Scorable /\ Cardinality(K) <= TargetRoster
<1>1. K \in SUBSET Eligible /\ Eligible \in SUBSET Scorable
  BY EligibleTraded DEF Best
<1>2. IsFiniteSet(Scorable)
  BY RosterAssumption, FS_Subset
<1>3. IsFiniteSet(Eligible)
  BY <1>1, <1>2, FS_Subset
<1>4. Cardinality(Eligible) \in Nat /\ TargetRoster \in Nat
  BY <1>3, FS_CardinalityType, RosterAssumption
<1> QED
  BY <1>1, <1>4 DEF Best

\* The rest of a list of wallets to score is one again, or there is no job.
LEMMA AdvanceShape ==
  ASSUME NEW j
  PROVE  \/ Advance(j) = NoJob
         \/ Advance(j) = [kind |-> "score", todo |-> Tail(j.todo), read |-> "none"]
  BY DEF Advance

\* Every command of the operator sets one status.
LEMMA OperatorSets ==
  ASSUME NEW w, Operator(w) PROVE \E new : SetTraderStatus(w, new)
  BY DEF Operator, SetStatus, RemoveWallet, RestoreWallet

\* Queueing backfills makes no job of them read a row.
LEMMA EnqueueKeeps ==
  ASSUME RInv, NEW W, Enqueue(W)
  PROVE  /\ queued' = [w \in Wallets |-> queued'[w]]
         /\ \A w \in Wallets \ Scorable : queued'[w] \notin TraderStatus
  BY DEF RInv, OnlyTradersScored, Enqueue, TraderStatus

\* Storing wallets writes no score and queues at most backfills.
LEMMA StoreKeeps ==
  ASSUME RInv, NEW W, NEW queue \in BOOLEAN, Store(W, queue) PROVE RInv'
<1>1. /\ status' = Upsert(W) /\ score' = score /\ job' = job
      /\ \E Q : Enqueue(Q)
  BY DEF Store
<1>2. RowsOf'
  BY <1>1, EnqueueKeeps DEF RInv, RowsOf, Upsert
<1> QED
  BY <1>1, <1>2, EnqueueKeeps DEF RInv, JobShape, Maintenance, OnlyTradersScored, FewKept

\* A backfill that writes writes the score of its wallet and at most its status.
LEMMA RescoreWrites ==
  ASSUME RowsOf, NEW w, NEW read, NEW s, Rescore(w, read, s)
  PROVE  /\ score' = [score EXCEPT ![w] = s]
         /\ \/ status' = status
            \/ /\ NextStatus(read, s) # read
               /\ status' = [status EXCEPT ![w] = NextStatus(read, s)]
         /\ status' = [v \in Wallets |-> status'[v]] /\ score' = [v \in Wallets |-> score'[v]]
         /\ \A v \in Wallets \ {w} : status'[v] = status[v] /\ score'[v] = score[v]
<1> DEFINE n == NextStatus(read, s)
<1>1. /\ score' = [score EXCEPT ![w] = s]
      /\ status' = IF n = read THEN status ELSE [status EXCEPT ![w] = n]
  BY DEF Rescore
<1> HIDE DEF n
<1>2. (status' = status) \/ (n # read /\ status' = [status EXCEPT ![w] = n])
  BY <1>1
<1>3. /\ status' = [v \in Wallets |-> status'[v]] /\ score' = [v \in Wallets |-> score'[v]]
      /\ \A v \in Wallets \ {w} : status'[v] = status[v] /\ score'[v] = score[v]
  BY <1>1, <1>2 DEF RowsOf
<1> QED
  BY <1>1, <1>2, <1>3 DEF n

-----------------------------------------------------------------------------

LEMMA InitRInv == 0 < MinScore /\ RosterInit => RInv
  BY DEF RosterInit, RInv, RowsOf, JobShape, OnlyTradersScored, FewKept, NoJob, TraderStatus

\* Every job, import, operator and suspension keeps the invariant.
LEMMA NextRInv == RInv /\ [RosterStep]_rosterVars => RInv'
<1> SUFFICES ASSUME RInv, [RosterStep]_rosterVars PROVE RInv'
  OBVIOUS
<1> USE DEF RInv, JobShape, Maintenance, OnlyTradersScored, FewKept
<1>1. ASSUME NEW W \in SUBSET Wallets, NEW answered, NEW queue \in BOOLEAN,
             Import(W, answered, queue)
      PROVE  RInv'
  BY ONLY <1>1, StoreKeeps, RInv DEF Import
<1>2. ASSUME NEW W \in SUBSET Wallets, ImportSeedFile(W) PROVE RInv'
  BY ONLY <1>2, StoreKeeps, RInv DEF ImportSeedFile
<1>3. ASSUME NEW W, NEW fact, DiscoverRead(W, fact) PROVE RInv'
  <2>1. \E S : job' = [kind |-> "discover", write |-> S]
    BY <1>3 DEF DiscoverRead
  <2> QED
    BY <1>3, <2>1 DEF DiscoverRead, rows, RowsOf
<1>4. ASSUME DiscoverWrite PROVE RInv'
  BY <1>4 DEF DiscoverWrite, RowsOf, Upsert, NoJob
<1>5. ASSUME ScoreCandidates PROVE RInv'
  <2>1. \E t : job' = [kind |-> "score", todo |-> t, read |-> "none"]
    BY <1>5 DEF ScoreCandidates
  <2>2. rows' = rows /\ queued' = queued
    BY <1>5 DEF ScoreCandidates
  <2> QED
    BY <2>1, <2>2 DEF rows, RowsOf
<1>6. ASSUME RescoreAll PROVE RInv'
  <2>1. \E t : job' = [kind |-> "score", todo |-> t, read |-> "none"]
    BY <1>6 DEF RescoreAll
  <2> QED
    BY <1>6, <2>1 DEF RescoreAll, rows, RowsOf
<1>6a. ASSUME RunBackfill PROVE RInv'
  <2>1. /\ rows' = rows /\ job' = job
        /\ \E W : Enqueue(W)
    BY <1>6a DEF RunBackfill
  <2>2. RowsOf'
    BY <2>1, EnqueueKeeps DEF rows, RowsOf
  <2> QED
    BY <2>1, <2>2, EnqueueKeeps DEF rows
<1>7. ASSUME BackfillNothing PROVE RInv'
  BY <1>7, AdvanceShape DEF BackfillNothing, rows, RowsOf, NoJob
<1>8. ASSUME BackfillRead PROVE RInv'
  <2>1. /\ job' = [kind |-> "score", todo |-> job.todo, read |-> status'[Head(job.todo)]]
        /\ Head(job.todo) \in Scorable /\ score' = score /\ queued' = queued
    BY <1>8 DEF BackfillRead, Scoring
  <2>2. RowsOf'
    BY <1>8 DEF BackfillRead, RowsOf, Upsert
  <2> QED
    BY <2>1, <2>2
<1>9. ASSUME NEW s \in Scores, BackfillWrite(s) PROVE RInv'
  <2> DEFINE w == Head(job.todo)
  <2>1. /\ w \in Scorable /\ Rescore(w, job.read, s)
        /\ job' = Advance(job) /\ queued' = queued
    BY <1>9 DEF BackfillWrite, Scoring
  <2> HIDE DEF w
  <2>2. RowsOf' /\ \A v \in Wallets \ Scorable : score'[v] = score[v]
    BY <2>1, RescoreWrites DEF RowsOf
  <2> QED
    BY <2>1, <2>2, AdvanceShape DEF NoJob
<1>9a. ASSUME NEW w \in Wallets, QueuedRead(w) PROVE RInv'
  <2>1. /\ w \in Scorable /\ queued' = [queued EXCEPT ![w] = status'[w]]
        /\ score' = score /\ job' = job
    BY <1>9a DEF QueuedRead
  <2>2. RowsOf'
    BY <1>9a DEF QueuedRead, RowsOf, Upsert
  <2> QED
    BY <2>1, <2>2 DEF RowsOf
<1>9b. ASSUME NEW w \in Wallets, NEW s \in Scores, QueuedWrite(w, s) PROVE RInv'
  <2>1. /\ queued[w] \in TraderStatus /\ Rescore(w, queued[w], s)
        /\ queued' = [queued EXCEPT ![w] = "no"] /\ job' = job
    BY <1>9b DEF QueuedWrite
  <2>2. w \in Scorable
    BY <2>1
  <2>3. RowsOf' /\ \A v \in Wallets \ Scorable : score'[v] = score[v] /\ queued'[v] = queued[v]
    BY <2>1, <2>2, RescoreWrites DEF RowsOf
  <2> QED
    BY <2>1, <2>3
<1>9c. ASSUME NEW w \in Wallets, QueuedEnds(w) PROVE RInv'
  <2>1. /\ rows' = rows /\ job' = job /\ queued' = [queued EXCEPT ![w] = "no"]
    BY <1>9c DEF QueuedEnds
  <2>2. \A v \in Wallets : queued'[v] \in TraderStatus => queued'[v] = queued[v]
    BY <2>1 DEF RowsOf, TraderStatus
  <2>3. RowsOf'
    BY <2>1 DEF RowsOf, rows
  <2> QED
    BY <2>1, <2>2, <2>3 DEF rows
<1>10. ASSUME MaintainRead PROVE RInv'
  <2>1. PICK K \in SUBSET Wallets :
            /\ Best(K)
            /\ job' = [kind |-> "maintain", pc |-> "promote", keep |-> K,
                       todo |-> K \ With(Followed), raised |-> {}, lowered |-> {}]
    BY <1>10 DEF MaintainRead
  <2>2. rows' = rows /\ queued' = queued
    BY <1>10 DEF MaintainRead
  <2>3. K \in SUBSET Scorable /\ Cardinality(K) <= TargetRoster
    BY <2>1, BestIsFew
  <2> QED
    BY <2>1, <2>2, <2>3 DEF rows, RowsOf
<1>11. ASSUME NEW w \in Wallets, MaintainPromote(w) PROVE RInv'
  <2>1. /\ w \in job.todo /\ job.pc = "promote" /\ job.kind = "maintain"
        /\ job' = [Maintenance EXCEPT !.todo = job.todo \ {w}, !.raised = job.raised \cup {w}]
        /\ rows' = rows /\ queued' = queued
    BY <1>11 DEF MaintainPromote, Maintaining
  <2> QED
    BY <2>1 DEF rows, RowsOf
<1>11a. ASSUME MaintainSelect PROVE RInv'
  <2> DEFINE t == With(Followed) \ job.keep
  <2>1. /\ job' = [job EXCEPT !.pc = "demote", !.todo = t]
        /\ job.kind = "maintain" /\ rows' = rows /\ queued' = queued
    BY <1>11a DEF MaintainSelect, Maintaining
  <2> HIDE DEF t
  <2> QED
    BY <2>1 DEF rows, RowsOf
<1>11b. ASSUME NEW w \in Wallets, MaintainDemote(w) PROVE RInv'
  <2>1. /\ job' = [Maintenance EXCEPT !.todo = job.todo \ {w}, !.lowered = job.lowered \cup {w}]
        /\ job.kind = "maintain" /\ job.pc = "demote" /\ rows' = rows /\ queued' = queued
    BY <1>11b DEF MaintainDemote, Maintaining
  <2> QED
    BY <2>1 DEF rows, RowsOf
<1>11c. ASSUME MaintainCommit PROVE RInv'
  BY <1>11c DEF MaintainCommit, RowsOf, NoJob
<1>12. ASSUME DecayRead PROVE RInv'
  <2>1. \E D : job' = [kind |-> "decay", write |-> D]
    BY <1>12 DEF DecayRead
  <2> QED
    BY <1>12, <2>1 DEF DecayRead, rows, RowsOf
<1>13. ASSUME DecayWrite PROVE RInv'
  BY <1>13 DEF DecayWrite, RowsOf, NoJob
<1>14. ASSUME RetireRead PROVE RInv'
  <2>1. \E W : job' = [kind |-> "retire", write |-> W]
    BY <1>14 DEF RetireRead
  <2> QED
    BY <1>14, <2>1 DEF RetireRead, rows, RowsOf
<1>15. ASSUME NEW w \in Wallets, RetireWrite(w) PROVE RInv'
  <2>1. job' = NoJob \/ job' = [kind |-> "retire", write |-> job.write \ {w}]
    BY <1>15 DEF RetireWrite
  <2>2. RowsOf' /\ score' = score /\ queued' = queued
    BY <1>15 DEF RetireWrite, RowsOf
  <2> QED
    BY <2>1, <2>2 DEF NoJob
<1>16. ASSUME NEW w \in Wallets, Suspend(w) PROVE RInv'
  BY <1>16 DEF Suspend, RowsOf
<1>17. ASSUME JobDies PROVE RInv'
  BY <1>17 DEF JobDies, rows, RowsOf, NoJob
<1>18. ASSUME NEW w \in Wallets, Operator(w) PROVE RInv'
  <2>1. PICK new : SetTraderStatus(w, new)
    BY <1>18, OperatorSets
  <2> QED
    BY <2>1 DEF SetTraderStatus, RowsOf
<1>19. CASE RefreshRead \/ RefreshApply \/ RefreshFails \/ UNCHANGED rosterVars
  BY <1>19 DEF RefreshRead, RefreshApply, RefreshFails, rosterVars, rows, RowsOf
<1> QED
  BY ONLY <1>1, <1>2, <1>3, <1>4, <1>5, <1>6, <1>6a, <1>7, <1>8, <1>9, <1>9a, <1>9b, <1>9c,
     <1>10, <1>11, <1>11a, <1>11b, <1>11c, <1>12, <1>13, <1>14, <1>15, <1>16, <1>17, <1>18, <1>19, [RosterStep]_rosterVars DEF RosterStep

\* The invariant holds at every step, when a score of zero is not enough to be
\* copied.
LEMMA RInvHolds == ASSUME 0 < MinScore PROVE RosterSpec => []RInv
  BY InitRInv, NextRInv, PTL DEF RosterSpec, RosterNext

-----------------------------------------------------------------------------

\* A job that has not read a row since it was blacklisted cannot bring it back.
LEMMA StepHoldsBlacklist ==
  ASSUME RInv, [RosterStep]_rosterVars, NEW w \in Wallets, Restored(w), ~ReadBefore(w)
  PROVE  \E W \in SUBSET Wallets :
            \/ ImportSeedFile(W)
            \/ \E answered \in SUBSET W, queue \in BOOLEAN : Import(W, answered, queue)
<1> SUFFICES
      ASSUME \A W \in SUBSET Wallets :
                /\ ~ImportSeedFile(W)
                /\ \A answered \in SUBSET W, queue \in BOOLEAN : ~Import(W, answered, queue)
      PROVE  FALSE
  OBVIOUS
<1>0. /\ status[w] = "blacklisted" /\ status'[w] # "blacklisted"
      /\ ~Operator(w)
  BY DEF Restored
<1>a. status = [v \in Wallets |-> status[v]]
  BY DEF RInv, RowsOf
<1>b. status' # status
  BY <1>0
<1>1. ASSUME NEW W \in SUBSET Wallets, NEW answered \in SUBSET W, NEW queue \in BOOLEAN,
             Import(W, answered, queue)
      PROVE  FALSE
  BY <1>1
<1>2. ASSUME NEW W \in SUBSET Wallets, ImportSeedFile(W) PROVE FALSE
  BY <1>2
<1>3. ASSUME NEW W, NEW fact, DiscoverRead(W, fact) PROVE FALSE
  BY <1>b, <1>3 DEF DiscoverRead, rows
<1>4. ASSUME DiscoverWrite PROVE FALSE
  BY <1>0, <1>4 DEF DiscoverWrite, Upsert, ReadBefore
<1>5. ASSUME ScoreCandidates PROVE FALSE
  <2>1. rows' = rows
    BY <1>5 DEF ScoreCandidates
  <2> QED
    BY <1>b, <2>1 DEF rows
<1>6. ASSUME RescoreAll PROVE FALSE
  BY <1>b, <1>6 DEF RescoreAll, rows
<1>6a. ASSUME RunBackfill PROVE FALSE
  BY <1>b, <1>6a DEF RunBackfill, rows
<1>7. ASSUME BackfillNothing PROVE FALSE
  BY <1>b, <1>7 DEF BackfillNothing, rows
<1>8. ASSUME BackfillRead PROVE FALSE
  BY <1>0, <1>8 DEF BackfillRead, Upsert, With
<1>9. ASSUME NEW s \in Scores, BackfillWrite(s) PROVE FALSE
  <2> DEFINE v == Head(job.todo)
  <2>1. Scoring /\ job.read # "none" /\ Rescore(v, job.read, s)
    BY <1>9 DEF BackfillWrite
  <2> HIDE DEF v
  <2>2. w = v /\ NextStatus(job.read, s) # job.read
    BY <1>0, <2>1, RescoreWrites DEF RInv
  <2>3. job.read # "blacklisted"
    BY <2>2 DEF NextStatus, Cut
  <2> QED
    BY <2>1, <2>2, <2>3 DEF ReadBefore, v
<1>9a. ASSUME NEW v \in Wallets, QueuedRead(v) PROVE FALSE
  BY <1>0, <1>9a DEF QueuedRead, Upsert, With
<1>9b. ASSUME NEW v \in Wallets, NEW s \in Scores, QueuedWrite(v, s) PROVE FALSE
  <2>1. queued[v] \in TraderStatus /\ Rescore(v, queued[v], s)
    BY <1>9b DEF QueuedWrite
  <2>2. w = v /\ NextStatus(queued[v], s) # queued[v]
    BY <1>0, <2>1, RescoreWrites DEF RInv
  <2>3. queued[v] # "blacklisted"
    BY <2>2 DEF NextStatus, Cut
  <2> QED
    BY <2>1, <2>2, <2>3 DEF ReadBefore
<1>9c. ASSUME NEW v \in Wallets, QueuedEnds(v) PROVE FALSE
  BY <1>b, <1>9c DEF QueuedEnds, rows
<1>10. ASSUME MaintainRead PROVE FALSE
  BY <1>b, <1>10 DEF MaintainRead, rows
<1>11. ASSUME NEW v \in Wallets, MaintainPromote(v) \/ MaintainDemote(v) PROVE FALSE
  BY <1>b, <1>11 DEF MaintainPromote, MaintainDemote, rows
<1>11a. ASSUME MaintainSelect PROVE FALSE
  BY <1>b, <1>11a DEF MaintainSelect, rows
<1>11c. ASSUME MaintainCommit PROVE FALSE
  BY <1>0, <1>11c DEF MaintainCommit, Maintaining, ReadBefore
<1>12. ASSUME DecayRead PROVE FALSE
  BY <1>b, <1>12 DEF DecayRead, rows
<1>13. ASSUME DecayWrite PROVE FALSE
  BY <1>0, <1>13 DEF DecayWrite, ReadBefore
<1>14. ASSUME RetireRead PROVE FALSE
  BY <1>b, <1>14 DEF RetireRead, rows
<1>15. ASSUME NEW v \in Wallets, RetireWrite(v) PROVE FALSE
  BY <1>0, <1>a, <1>15 DEF RetireWrite, ReadBefore
<1>16. ASSUME NEW v \in Wallets, Suspend(v) PROVE FALSE
  BY <1>0, <1>a, <1>16 DEF Suspend, ReadBefore
<1>17. ASSUME JobDies PROVE FALSE
  BY <1>b, <1>17 DEF JobDies, rows
<1>18. ASSUME NEW v \in Wallets, Operator(v) PROVE FALSE
  <2>1. PICK new : SetTraderStatus(v, new)
    BY <1>18, OperatorSets
  <2>2. v = w
    BY <1>0, <1>a, <2>1 DEF SetTraderStatus
  <2> QED
    BY <1>0, <1>18, <2>2
<1>19. CASE RefreshRead \/ RefreshApply \/ RefreshFails \/ UNCHANGED rosterVars
  BY <1>b, <1>19 DEF RefreshRead, RefreshApply, RefreshFails, rosterVars, rows
<1> QED
  BY ONLY <1>1, <1>2, <1>3, <1>4, <1>5, <1>6, <1>6a, <1>7, <1>8, <1>9, <1>9a, <1>9b, <1>9c,
     <1>10, <1>11, <1>11a, <1>11c, <1>12, <1>13, <1>14, <1>15, <1>16, <1>17, <1>18, <1>19, [RosterStep]_rosterVars DEF RosterStep

\* A wallet that never traded is copied only at an operator's hand: no job writes
\* a copied status into a row that was never scored.
LEMMA StepCopiesTraders ==
  ASSUME RInv, [RosterStep]_rosterVars, NEW w \in Wallets \ Scorable,
         status'[w] \in Followed, status[w] \notin Followed
  PROVE  Operator(w)
<1> SUFFICES ASSUME ~Operator(w) PROVE FALSE
  OBVIOUS
<1>a. status = [v \in Wallets |-> status[v]]
  BY DEF RInv, RowsOf
<1>b. status' # status
  OBVIOUS
<1>c. \A W : status' # Upsert(W)
  BY DEF Upsert, Followed
<1>1. ASSUME NEW W \in SUBSET Wallets, NEW answered \in SUBSET W, NEW queue \in BOOLEAN,
             Import(W, answered, queue)
      PROVE  FALSE
  BY <1>c, <1>1 DEF Import, Store
<1>2. ASSUME NEW W \in SUBSET Wallets, ImportSeedFile(W) PROVE FALSE
  BY <1>c, <1>2 DEF ImportSeedFile, Store
<1>3. ASSUME NEW W, NEW fact, DiscoverRead(W, fact) PROVE FALSE
  BY <1>b, <1>3 DEF DiscoverRead, rows
<1>4. ASSUME DiscoverWrite PROVE FALSE
  BY <1>c, <1>4 DEF DiscoverWrite
<1>5. ASSUME ScoreCandidates PROVE FALSE
  <2>1. rows' = rows
    BY <1>5 DEF ScoreCandidates
  <2> QED
    BY <1>b, <2>1 DEF rows
<1>6. ASSUME RescoreAll PROVE FALSE
  BY <1>b, <1>6 DEF RescoreAll, rows
<1>6a. ASSUME RunBackfill PROVE FALSE
  BY <1>b, <1>6a DEF RunBackfill, rows
<1>7. ASSUME BackfillNothing PROVE FALSE
  BY <1>b, <1>7 DEF BackfillNothing, rows
<1>8. ASSUME BackfillRead PROVE FALSE
  BY <1>c, <1>8 DEF BackfillRead
<1>9. ASSUME NEW s \in Scores, BackfillWrite(s) PROVE FALSE
  <2>1. Head(job.todo) \in Scorable /\ Rescore(Head(job.todo), job.read, s)
    BY <1>9 DEF BackfillWrite, Scoring, RInv, OnlyTradersScored
  <2> QED
    BY <2>1, RescoreWrites DEF RInv
<1>9a. ASSUME NEW v \in Wallets, QueuedRead(v) PROVE FALSE
  BY <1>c, <1>9a DEF QueuedRead
<1>9b. ASSUME NEW v \in Wallets, NEW s \in Scores, QueuedWrite(v, s) PROVE FALSE
  <2>1. v \in Scorable /\ Rescore(v, queued[v], s)
    BY <1>9b DEF QueuedWrite, RInv, OnlyTradersScored
  <2> QED
    BY <2>1, RescoreWrites DEF RInv
<1>9c. ASSUME NEW v \in Wallets, QueuedEnds(v) PROVE FALSE
  BY <1>b, <1>9c DEF QueuedEnds, rows
<1>10. ASSUME MaintainRead PROVE FALSE
  BY <1>b, <1>10 DEF MaintainRead, rows
<1>11. ASSUME NEW v \in Wallets, MaintainPromote(v) \/ MaintainDemote(v) PROVE FALSE
  BY <1>b, <1>11 DEF MaintainPromote, MaintainDemote, rows
<1>11a. ASSUME MaintainSelect PROVE FALSE
  BY <1>b, <1>11a DEF MaintainSelect, rows
<1>11c. ASSUME MaintainCommit PROVE FALSE
  BY <1>11c DEF MaintainCommit, Maintaining, Followed, RInv, FewKept
<1>12. ASSUME DecayRead PROVE FALSE
  BY <1>b, <1>12 DEF DecayRead, rows
<1>13. ASSUME DecayWrite PROVE FALSE
  BY <1>13 DEF DecayWrite, Followed
<1>14. ASSUME RetireRead PROVE FALSE
  BY <1>b, <1>14 DEF RetireRead, rows
<1>15. ASSUME NEW v \in Wallets, RetireWrite(v) PROVE FALSE
  BY <1>a, <1>15 DEF RetireWrite, Followed
<1>16. ASSUME NEW v \in Wallets, Suspend(v) PROVE FALSE
  BY <1>a, <1>16 DEF Suspend, Followed
<1>17. ASSUME JobDies PROVE FALSE
  BY <1>b, <1>17 DEF JobDies, rows
<1>18. ASSUME NEW v \in Wallets, Operator(v) PROVE FALSE
  <2>1. PICK new : SetTraderStatus(v, new)
    BY <1>18, OperatorSets
  <2>2. v = w
    BY <1>a, <2>1 DEF SetTraderStatus
  <2> QED
    BY <1>18, <2>2
<1>19. CASE RefreshRead \/ RefreshApply \/ RefreshFails \/ UNCHANGED rosterVars
  BY <1>b, <1>19 DEF RefreshRead, RefreshApply, RefreshFails, rosterVars, rows
<1> QED
  BY ONLY <1>1, <1>2, <1>3, <1>4, <1>5, <1>6, <1>6a, <1>7, <1>8, <1>9, <1>9a, <1>9b, <1>9c,
     <1>10, <1>11, <1>11a, <1>11c, <1>12, <1>13, <1>14, <1>15, <1>16, <1>17, <1>18, <1>19, [RosterStep]_rosterVars DEF RosterStep

\* A competition begins with its promotions, and it selects whom to demote when
\* it has written them all; until it commits it disposes of the same wallets.
LEMMA JobGoesOn ==
  ASSUME RInv, [RosterStep]_rosterVars, job'.kind = "maintain", job'.pc = "demote"
  PROVE  \/ /\ Selects /\ job'.todo = With(Followed) \ job.keep /\ job'.keep = job.keep
            /\ status' = status
         \/ /\ job.kind = "maintain" /\ job.pc = "demote" /\ job'.keep = job.keep
            /\ job'.todo \cup job'.lowered = job.todo \cup job.lowered
<1> DEFINE Same == /\ job.kind = "maintain" /\ job.pc = "demote" /\ job'.keep = job.keep
                   /\ job'.todo \cup job'.lowered = job.todo \cup job.lowered
<1>1. job' = job => Same
  OBVIOUS
<1>2. ASSUME NEW W \in SUBSET Wallets, NEW answered, NEW queue \in BOOLEAN,
             Import(W, answered, queue)
      PROVE  job' = job
  BY <1>2 DEF Import, Store
<1>3. ASSUME NEW W \in SUBSET Wallets, ImportSeedFile(W) PROVE job' = job
  BY <1>3 DEF ImportSeedFile, Store
<1>4. ASSUME NEW W, NEW fact, DiscoverRead(W, fact) PROVE FALSE
  <2>1. \E S : job' = [kind |-> "discover", write |-> S]
    BY <1>4 DEF DiscoverRead
  <2> QED
    BY <2>1
<1>5. ASSUME DiscoverWrite \/ DecayWrite \/ JobDies \/ MaintainCommit PROVE FALSE
  BY <1>5 DEF DiscoverWrite, DecayWrite, JobDies, MaintainCommit, NoJob
<1>6. ASSUME ScoreCandidates PROVE FALSE
  <2>1. \E t : job' = [kind |-> "score", todo |-> t, read |-> "none"]
    BY <1>6 DEF ScoreCandidates
  <2> QED
    BY <2>1
<1>7. ASSUME RescoreAll PROVE FALSE
  <2>1. \E t : job' = [kind |-> "score", todo |-> t, read |-> "none"]
    BY <1>7 DEF RescoreAll
  <2> QED
    BY <2>1
<1>8. ASSUME BackfillNothing PROVE FALSE
  BY <1>8, AdvanceShape DEF BackfillNothing, NoJob
<1>9. ASSUME NEW s \in Scores, BackfillWrite(s) PROVE FALSE
  BY <1>9, AdvanceShape DEF BackfillWrite, NoJob
<1>10. ASSUME BackfillRead PROVE FALSE
  <2>1. job'.kind = "score"
    BY <1>10 DEF BackfillRead, Scoring, RInv, JobShape
  <2> QED
    BY <2>1
<1>11. ASSUME MaintainRead PROVE FALSE
  <2>1. \E K : job' = [kind |-> "maintain", pc |-> "promote", keep |-> K,
                       todo |-> K \ With(Followed), raised |-> {}, lowered |-> {}]
    BY <1>11 DEF MaintainRead
  <2> QED
    BY <2>1
<1>12. ASSUME NEW w \in Wallets, MaintainPromote(w) PROVE FALSE
  <2>1. job'.pc = "promote"
    BY <1>12 DEF MaintainPromote, Maintaining, RInv, JobShape, Maintenance
  <2> QED
    BY <2>1
<1>13. ASSUME MaintainSelect
       PROVE  /\ Selects /\ job'.todo = With(Followed) \ job.keep /\ job'.keep = job.keep
              /\ status' = status
  BY <1>13 DEF MaintainSelect, Selects, Maintaining, RInv, JobShape, Maintenance, rows
<1>14. ASSUME NEW w \in Wallets, MaintainDemote(w) PROVE Same
  <2>1. /\ w \in job.todo /\ job.kind = "maintain" /\ job.pc = "demote"
        /\ job' = [Maintenance EXCEPT !.todo = job.todo \ {w}, !.lowered = job.lowered \cup {w}]
    BY <1>14 DEF MaintainDemote, Maintaining, RInv, JobShape
  <2> QED
    BY <2>1 DEF Maintenance
<1>15. ASSUME DecayRead PROVE FALSE
  <2>1. \E D : job' = [kind |-> "decay", write |-> D]
    BY <1>15 DEF DecayRead
  <2> QED
    BY <2>1
<1>16. ASSUME RetireRead PROVE FALSE
  <2>1. \E W : job' = [kind |-> "retire", write |-> W]
    BY <1>16 DEF RetireRead
  <2> QED
    BY <2>1
<1>17. ASSUME NEW w \in Wallets, RetireWrite(w) PROVE FALSE
  <2>1. job' = NoJob \/ job'.kind = "retire"
    BY <1>17 DEF RetireWrite, RInv, JobShape
  <2> QED
    BY <2>1 DEF NoJob
<1>18. ASSUME NEW w \in Wallets, NEW s \in Scores, QueuedWrite(w, s) PROVE job' = job
  BY <1>18 DEF QueuedWrite
<1>18a. ASSUME NEW w \in Wallets, QueuedRead(w) \/ QueuedEnds(w) \/ Suspend(w)
        PROVE  job' = job
  BY <1>18a DEF QueuedRead, QueuedEnds, Suspend
<1>19. ASSUME NEW w \in Wallets, Operator(w) PROVE job' = job
  BY <1>19, OperatorSets DEF SetTraderStatus
<1>20. ASSUME RunBackfill \/ RefreshRead \/ RefreshApply \/ RefreshFails \/ UNCHANGED rosterVars
       PROVE  job' = job
  BY <1>20 DEF RunBackfill, RefreshRead, RefreshApply, RefreshFails, rosterVars
<1> HIDE DEF Same
<1>21. \/ /\ Selects /\ job'.todo = With(Followed) \ job.keep /\ job'.keep = job.keep
          /\ status' = status
       \/ Same
  BY ONLY <1>1, <1>2, <1>3, <1>4, <1>5, <1>6, <1>7, <1>8, <1>9, <1>10, <1>11, <1>12, <1>13,
     <1>14, <1>15, <1>16, <1>17, <1>18, <1>18a, <1>19, <1>20, [RosterStep]_rosterVars DEF RosterStep
<1> QED
  BY <1>21 DEF Same

\* What a competition is to dispose of, when it has selected, is all that has been
\* copied since before.
LEMMA StepDisposes ==
  ASSUME RInv, Disposed, [RosterNext]_rosterVars PROVE Disposed'
<1> SUFFICES ASSUME job'.kind = "maintain", job'.pc = "demote",
                    NEW w \in Wallets, status'[w] \in Followed, late'[w] # "after"
             PROVE  w \in job'.keep \cup job'.todo \cup job'.lowered
  BY DEF Disposed, With
<1>1. CASE UNCHANGED rosterVars
  BY <1>1 DEF rosterVars, Disposed, With
<1>2. CASE RosterNext
  <2>1. /\ \/ /\ Selects /\ job'.todo = With(Followed) \ job.keep /\ job'.keep = job.keep
              /\ status' = status
           \/ /\ job.kind = "maintain" /\ job.pc = "demote" /\ job'.keep = job.keep
              /\ job'.todo \cup job'.lowered = job.todo \cup job.lowered
        /\ Lateness
    BY <1>2, JobGoesOn DEF RosterNext
  <2>2. CASE status' = status /\ job'.todo = With(Followed) \ job.keep /\ job'.keep = job.keep
    BY <2>2 DEF With
  <2>3. CASE /\ job.kind = "maintain" /\ job.pc = "demote" /\ job'.keep = job.keep
             /\ job'.todo \cup job'.lowered = job.todo \cup job.lowered
    <3>1. ~Selects /\ ~Commits
      BY <2>3 DEF Selects, Commits, Maintaining, MaintainCommit, NoJob
    <3>2. status[w] \in Followed /\ late[w] # "after"
      BY <2>1, <3>1 DEF Lateness
    <3> QED
      BY <2>3, <3>2 DEF Disposed, With
  <2> QED
    BY <2>1, <2>2, <2>3
<1> QED
  BY <1>1, <1>2

\* Only a commit counts a wallet that was not counted before, and then all that
\* count it has kept.
LEMMA StepCounts ==
  ASSUME RInv, Disposed, [RosterNext]_rosterVars
  PROVE  \/ Counted' \subseteq Counted
         \/ /\ Counted' \subseteq job.keep
            /\ job.keep \in SUBSET Scorable /\ Cardinality(job.keep) <= TargetRoster
<1>1. CASE UNCHANGED rosterVars
  BY <1>1 DEF rosterVars, Counted, With
<1>2. CASE RosterNext /\ ~Commits
  <2>1. Lateness /\ ~Commits
    BY <1>2 DEF RosterNext
  <2>2. ASSUME NEW w \in Wallets, status'[w] \in Followed, late'[w] = "no"
        PROVE  status[w] \in Followed /\ late[w] = "no"
    <3>1. CASE Selects
      <4>1. status' = status
        BY <3>1 DEF Selects, MaintainSelect, rows
      <4> QED
        BY <2>1, <2>2, <3>1, <4>1 DEF Lateness
    <3>2. CASE ~Selects
      BY <2>1, <2>2, <3>2 DEF Lateness
    <3> QED
      BY <3>1, <3>2
  <2> QED
    BY <2>2 DEF Counted, With
<1>3. CASE RosterNext /\ Commits
  <2>1. /\ job.kind = "maintain" /\ job.pc = "demote" /\ job.todo = {}
        /\ Lateness /\ Commits /\ ~Selects
        /\ \A w \in Wallets : status'[w] = IF w \in job.raised THEN "probation"
                                           ELSE IF w \in job.lowered THEN "candidate"
                                           ELSE status[w]
    BY <1>3 DEF RosterNext, Commits, Selects, Maintaining, MaintainCommit
  <2>2. ASSUME NEW w \in Wallets, status'[w] \in Followed, late'[w] = "no"
        PROVE  w \in job.keep
    <3>1. late[w] # "after"
      BY <2>1, <2>2 DEF Lateness
    <3>2. CASE w \in job.raised
      BY <2>1, <3>2 DEF RInv, FewKept
    <3>3. CASE w \notin job.raised
      <4>1. w \notin job.lowered /\ status[w] \in Followed
        BY <2>1, <2>2, <3>3 DEF Followed
      <4> QED
        BY <2>1, <3>1, <4>1 DEF Disposed, With
    <3> QED
      BY <3>2, <3>3
  <2> QED
    BY <2>1, <2>2 DEF Counted, With, RInv, FewKept
<1> QED
  BY <1>1, <1>2, <1>3

\* A set of wallets is no larger than one that holds it.
LEMMA FewerWallets ==
  ASSUME NEW S \in SUBSET Wallets, NEW T \in SUBSET S
  PROVE  /\ Cardinality(T) <= Cardinality(S)
         /\ Cardinality(T) \in Nat /\ Cardinality(S) \in Nat
<1>1. IsFiniteSet(S)
  BY RosterAssumption, FS_Subset
<1> QED
  BY <1>1, FS_Subset, FS_CardinalityType

TargetInv == RInv /\ Disposed /\ RosterAtTarget

LEMMA InitTargetInv == 0 < MinScore /\ RosterInit => TargetInv
<1> SUFFICES ASSUME 0 < MinScore, RosterInit PROVE TargetInv
  OBVIOUS
<1>1. RInv
  BY InitRInv
<1>2. \A w \in Wallets : status[w] = "absent"
  BY DEF RosterInit
<1>3. {w \in With(Followed) : late[w] = "no"} = {}
  BY <1>2 DEF With, Followed
<1>4. RosterAtTarget
  BY <1>3, FS_EmptySet, RosterAssumption DEF RosterAtTarget
<1> QED
  BY <1>1, <1>4 DEF TargetInv, Disposed, RosterInit, NoJob

LEMMA NextTargetInv == TargetInv /\ [RosterNext]_rosterVars => TargetInv'
<1> SUFFICES ASSUME TargetInv, [RosterNext]_rosterVars PROVE TargetInv'
  OBVIOUS
<1>1. RInv'
  BY NextRInv DEF TargetInv, RosterNext
<1>2. Disposed'
  BY StepDisposes DEF TargetInv
<1>3. Counted \in SUBSET Wallets /\ Cardinality(Counted) <= TargetRoster
  BY DEF TargetInv, RosterAtTarget, Counted, With
<1>4. TargetRoster \in Nat /\ Scorable \in SUBSET Wallets
  BY RosterAssumption
<1>5. ASSUME Counted' \subseteq Counted PROVE RosterAtTarget'
  <2>1. /\ Cardinality(Counted') <= Cardinality(Counted)
        /\ Cardinality(Counted') \in Nat /\ Cardinality(Counted) \in Nat
    BY <1>3, <1>5, FewerWallets
  <2>2. Cardinality(Counted') <= TargetRoster
    BY <1>3, <1>4, <2>1
  <2> QED
    BY <2>2 DEF RosterAtTarget, Counted
<1>6. ASSUME Counted' \subseteq job.keep,
             job.keep \in SUBSET Scorable, Cardinality(job.keep) <= TargetRoster
      PROVE  RosterAtTarget'
  <2>1. job.keep \in SUBSET Wallets
    BY <1>4, <1>6
  <2>2. /\ Cardinality(Counted') <= Cardinality(job.keep)
        /\ Cardinality(Counted') \in Nat /\ Cardinality(job.keep) \in Nat
    BY <1>6, <2>1, FewerWallets
  <2>3. Cardinality(Counted') <= TargetRoster
    BY <1>4, <1>6, <2>2
  <2> QED
    BY <2>3 DEF RosterAtTarget, Counted
<1>7. RosterAtTarget'
  BY <1>5, <1>6, StepCounts DEF TargetInv
<1> QED
  BY <1>1, <1>2, <1>7 DEF TargetInv

-----------------------------------------------------------------------------

\* The blacklist holds against every job that begins later, for any number of
\* wallets: only an operator, an import or a job that had read the row changes it.
THEOREM BlacklistKept == ASSUME 0 < MinScore PROVE RosterSpec => BlacklistHolds
<1>1. RInv /\ [RosterNext]_rosterVars =>
        [\A w \in Wallets : Restored(w) =>
          \/ ReadBefore(w)
          \/ \E W \in SUBSET Wallets :
                \/ ImportSeedFile(W)
                \/ \E answered \in SUBSET W, queue \in BOOLEAN : Import(W, answered, queue)]_rosterVars
  BY StepHoldsBlacklist DEF RosterNext
<1> QED
  BY <1>1, RInvHolds, PTL DEF RosterSpec, BlacklistHolds

\* An address that never traded is copied only at an operator's hand, whatever
\* verification lets through and however short the roster is.
THEOREM TradersOnly == ASSUME 0 < MinScore PROVE RosterSpec => OnlyTradersAreCopied
<1>1. RInv /\ [RosterNext]_rosterVars =>
        [\A w \in Wallets \ Scorable :
          status'[w] \in Followed /\ status[w] \notin Followed
          => Operator(w)]_rosterVars
  BY StepCopiesTraders DEF RosterNext
<1> QED
  BY <1>1, RInvHolds, PTL DEF RosterSpec, OnlyTradersAreCopied

\* However many wallets backfills and operators promote while a competition is
\* under way, no more than the target are copied of those that were copied when
\* the last one to commit selected whom to demote.
THEOREM TargetMet == ASSUME 0 < MinScore PROVE RosterSpec => []RosterAtTarget
<1>1. TargetInv => RosterAtTarget
  BY DEF TargetInv
<1> QED
  BY <1>1, InitTargetInv, NextTargetInv, PTL DEF RosterSpec

-----------------------------------------------------------------------------
(**************************************************************************)
(* Runtime settings, for any settings and values and any number of        *)
(* processes and overlapping requests: what a lone save or reset leaves,  *)
(* finished, failed or dead, is what was acknowledged or asked for.       *)
(**************************************************************************)

RequestState == [pc : {"idle", "load", "save", "publish", "forget"},
                 changes : Overrides, merged : Overrides, lone : BOOLEAN]

\* What setting k may be saved as.
May(k) == {acked[k]} \cup tried[k]

InStep == \A k \in Settings : db[k] \in May(k) /\ cache[k] \in May(k)

\* The record a request is to save keeps what it does not change.
Merged(r) ==
    \A k \in Settings :
        req[r].merged[k] \in IF req[r].changes[k] = Unset THEN May(k) ELSE {req[r].changes[k]}

\* A lone request works alone: what it wrote still stands, and unless an
\* earlier race left the stores apart, it merges into what may be saved.
LoneRequest(r) ==
    /\ \A q \in Requests \ {r} : req[q].pc = "idle"
    /\ req[r].pc # "idle"
    /\ req[r].pc = "publish" => db = req[r].merged
    /\ req[r].pc = "forget" => cache = NoRecord
    /\ ~raced /\ req[r].pc \in {"load", "save"} => InStep
    /\ ~raced /\ req[r].pc \in {"save", "publish"} => Merged(r)
    /\ ~raced /\ req[r].pc = "publish" => \A k \in Settings : cache[k] \in May(k)
    /\ ~raced /\ req[r].pc = "forget" => \A k \in Settings : db[k] \in May(k)

\* Without a race nobody is under way but a lone request.
ConfigInv ==
    /\ ConfigTypeOK
    /\ \A r \in Requests : req[r].lone => LoneRequest(r)
    /\ ~raced => \A r \in Requests : req[r].pc # "idle" => req[r].lone
    /\ AcknowledgedIsSaved

LEMMA UnsetIsNoRecord == NoRecord \in Overrides /\ NoRequest \in RequestState /\ ~NoRequest.lone /\ NoRequest.pc = "idle"
  BY DEF NoRecord, Overrides, NoRequest, RequestState, Unset

LEMMA OverTyped ==
    ASSUME NEW old \in Overrides, NEW new \in Overrides
    PROVE  Over(old, new) \in Overrides
  BY DEF Over, Overrides

\* Values stay values.
LEMMA OverValues ==
    ASSUME NEW old \in [Settings -> Values], NEW new \in Overrides
    PROVE  Over(old, new) \in [Settings -> Values]
  BY DEF Over, Overrides, Unset

LEMMA InitConfigInv == ConfigInit => ConfigInv
<1> SUFFICES ASSUME ConfigInit PROVE ConfigInv
  OBVIOUS
<1>1. ConfigTypeOK
  BY ConfigAssumption, UnsetIsNoRecord DEF ConfigInit, ConfigTypeOK, Defaults, RequestState
<1>2. \A r \in Requests : req[r] = NoRequest
  BY DEF ConfigInit
<1>3. AcknowledgedIsSaved
  BY DEF ConfigInit, AcknowledgedIsSaved, NoRecord
<1> QED
  BY <1>1, <1>2, <1>3, UnsetIsNoRecord DEF ConfigInit, ConfigInv

\* A store is in step with what may be saved, whenever nothing is under way.
LEMMA QuietInStep == AcknowledgedIsSaved <=> (Quiet /\ ~raced => InStep)
  BY DEF AcknowledgedIsSaved, InStep, May

\* A request begins: it is lone if nobody is under way, and then nobody else is.
LEMMA BeginsAlone ==
    ASSUME ConfigInv, NEW r \in Requests, NEW new \in RequestState, Begin(r, new),
           new.pc # "idle", req[r].pc = "idle", UNCHANGED <<db, acked, tried>>,
           (new.pc = "load" /\ cache' = cache) \/ (new.pc = "forget" /\ cache' = NoRecord),
           ConfigTypeOK'
    PROVE  ConfigInv'
<1>1. /\ req \in [Requests -> RequestState] /\ raced \in BOOLEAN
      /\ raced' = (raced \/ ~Quiet) /\ req'[r] = [new EXCEPT !.lone = Quiet]
      /\ \A q \in Requests \ {r} : req'[q] = [req[q] EXCEPT !.lone = FALSE]
  BY DEF ConfigInv, ConfigTypeOK, RequestState, Begin
<1>2. /\ req'[r].pc = new.pc /\ req'[r].lone = Quiet
      /\ \A q \in Requests \ {r} : req'[q].pc = req[q].pc /\ req'[q].lone = FALSE
  <2> DEFINE b == Quiet
  <2>1. b \in BOOLEAN /\ req'[r] = [new EXCEPT !.lone = b]
    BY <1>1 DEF Quiet
  <2> HIDE DEF b
  <2>2. req'[r].pc = new.pc /\ req'[r].lone = b
    BY <2>1 DEF RequestState
  <2>3. ASSUME NEW q \in Requests \ {r} PROVE req'[q].pc = req[q].pc /\ req'[q].lone = FALSE
    <3>1. req[q] \in RequestState /\ req'[q] = [req[q] EXCEPT !.lone = FALSE]
      BY <1>1
    <3> QED
      BY <3>1 DEF RequestState
  <2> QED
    BY <2>2, <2>3 DEF b
<1>3. ~Quiet' /\ AcknowledgedIsSaved'
  BY <1>2 DEF Quiet, AcknowledgedIsSaved
<1>4. CASE Quiet
  <2>1. LoneRequest(r)'
    <3>1. /\ \A q \in Requests \ {r} : req'[q].pc = "idle"
          /\ req'[r].pc \in {"load", "forget"}
          /\ req'[r].pc = "forget" => cache' = NoRecord
      BY <1>2, <1>4 DEF Quiet
    <3>2. ~raced => InStep
      BY <1>4, QuietInStep DEF ConfigInv
    <3>3. ~raced' => ~raced
      BY <1>1
    <3>4. ~raced' => /\ \A k \in Settings : db'[k] \in May(k)'
                     /\ req'[r].pc = "load" => InStep'
      BY <1>2, <3>2, <3>3 DEF InStep, May
    <3> QED
      BY <3>1, <3>4 DEF LoneRequest
  <2>2. \A q \in Requests : req'[q].lone \/ req'[q].pc = "idle"
    BY <1>2, <1>4 DEF Quiet
  <2>3. \A q \in Requests : req'[q].lone => q = r
    BY <1>2
  <2> QED
    BY <1>3, <2>1, <2>2, <2>3 DEF ConfigInv
<1>5. CASE ~Quiet
  BY <1>1, <1>2, <1>3, <1>5 DEF ConfigInv
<1> QED
  BY <1>4, <1>5

\* What a process works with are values.
LEMMA StoredTyped ==
    ConfigTypeOK => Stored \in SUBSET Overrides /\ Defaults \in [Settings -> Values]
  BY ConfigAssumption DEF ConfigTypeOK, Stored, Defaults

LEMMA NextTyped == ConfigTypeOK /\ [ConfigNext]_configVars => ConfigTypeOK'
<1> SUFFICES ASSUME ConfigTypeOK, [ConfigNext]_configVars PROVE ConfigTypeOK'
  OBVIOUS
<1>1. /\ db \in Overrides /\ cache \in Overrides /\ acked \in Overrides /\ raced \in BOOLEAN
      /\ live \in [Holders -> [Settings -> Values]] /\ req \in [Requests -> RequestState]
      /\ "api" \in Holders /\ Services \subseteq Holders
      /\ tried \in [Settings -> SUBSET (Values \cup {Unset})]
  BY DEF ConfigTypeOK, RequestState, Holders
<1> DEFINE Typed == /\ db' \in Overrides /\ cache' \in Overrides /\ acked' \in Overrides
                    /\ live' \in [Holders -> [Settings -> Values]]
                    /\ req' \in [Requests -> RequestState] /\ raced' \in BOOLEAN
                    /\ tried' \in [Settings -> SUBSET (Values \cup {Unset})]
<1>2. SUFFICES Typed
  BY DEF ConfigTypeOK, RequestState
<1>2a. ASSUME NEW r \in Requests, NEW k \in Settings
       PROVE  Left(r, k) \in SUBSET (Values \cup {Unset})
  <2>1. req[r].changes[k] \in Values \cup {Unset}
    BY <1>1 DEF RequestState, Overrides
  <2> QED
    BY <2>1 DEF Left
<1>3. ASSUME NEW r \in Requests, NEW new \in RequestState, Begin(r, new)
      PROVE  req' \in [Requests -> RequestState] /\ raced' \in BOOLEAN
  <2>1. Quiet \in BOOLEAN
    BY DEF Quiet
  <2>2. ASSUME NEW e \in RequestState, NEW b \in BOOLEAN
        PROVE  [e EXCEPT !.lone = b] \in RequestState
    BY DEF RequestState
  <2>3. [new EXCEPT !.lone = Quiet] \in RequestState
    BY <2>1, <2>2
  <2>4. \A q \in Requests : [req[q] EXCEPT !.lone = FALSE] \in RequestState
    BY <1>1, <2>2
  <2> QED
    BY <1>1, <1>3, <2>3, <2>4 DEF Begin
<1>4. ASSUME NEW r \in Requests, NEW changes \in Saves, Apply(r, changes) PROVE Typed
  <2>1. changes \in Overrides
    BY ConfigAssumption DEF Overrides, Unset
  <2>2. [NoRequest EXCEPT !.pc = "load", !.changes = changes] \in RequestState
    BY <2>1, UnsetIsNoRecord DEF RequestState
  <2> QED
    BY <1>1, <1>3, <1>4, <2>2 DEF Apply
<1>5. ASSUME NEW r \in Requests, LoadStored(r) PROVE Typed
  <2>1. PICK stored \in Stored :
            req' = [req EXCEPT ![r].pc = "save", ![r].merged = Over(stored, req[r].changes)]
    BY <1>5 DEF LoadStored
  <2>2. Over(stored, req[r].changes) \in Overrides
    BY <1>1, StoredTyped, OverTyped DEF RequestState
  <2>3. UNCHANGED <<db, cache, live, acked, tried, raced>>
    BY <1>5 DEF LoadStored
  <2> HIDE DEF Over
  <2>4. req' \in [Requests -> RequestState]
    BY <1>1, <2>1, <2>2 DEF RequestState
  <2> QED
    BY <1>1, <2>3, <2>4
<1>6. ASSUME NEW r \in Requests, SaveRecord(r) PROVE Typed
  BY <1>1, <1>6 DEF SaveRecord, RequestState
<1>7. ASSUME NEW r \in Requests, Publish(r) PROVE Typed
  <2>1. /\ Over(acked, req[r].changes) \in Overrides /\ req[r].merged \in Overrides
        /\ Over(live["api"], req[r].changes) \in [Settings -> Values]
    BY <1>1, OverTyped, OverValues DEF RequestState
  <2>2. raced' \in BOOLEAN /\ tried' \in [Settings -> SUBSET (Values \cup {Unset})]
    BY <1>1, <1>7 DEF Publish
  <2>3. db' \in Overrides /\ cache' \in Overrides /\ req' \in [Requests -> RequestState]
    BY <1>1, <1>7, <2>1, UnsetIsNoRecord DEF Publish
  <2>4. acked' \in Overrides
    BY <1>7, <2>1 DEF Publish
  <2>5. live' \in [Holders -> [Settings -> Values]]
    BY <1>1, <1>7, <2>1 DEF Publish
  <2> QED
    BY <2>2, <2>3, <2>4, <2>5
<1>8. ASSUME NEW r \in Requests, Reset(r) PROVE Typed
  <2>1. [NoRequest EXCEPT !.pc = "forget"] \in RequestState
    BY UnsetIsNoRecord DEF RequestState
  <2> QED
    BY <1>1, <1>3, <1>8, <2>1, UnsetIsNoRecord DEF Reset
<1>9. ASSUME NEW r \in Requests, Forget(r) PROVE Typed
  <2>1. raced' \in BOOLEAN /\ tried' \in [Settings -> SUBSET (Values \cup {Unset})]
    BY <1>9 DEF Forget
  <2>2. live' \in [Holders -> [Settings -> Values]]
    BY <1>1, <1>9, ConfigAssumption DEF Forget
  <2>3. /\ db' \in Overrides /\ cache' \in Overrides /\ acked' \in Overrides
        /\ req' \in [Requests -> RequestState]
    BY <1>1, <1>9, UnsetIsNoRecord DEF Forget
  <2> QED
    BY <2>1, <2>2, <2>3
<1>10. ASSUME NEW r \in Requests, RequestFails(r) PROVE Typed
  <2>1. tried' \in [Settings -> SUBSET (Values \cup {Unset})]
    BY <1>1, <1>2a, <1>10 DEF RequestFails
  <2>2. req[r].merged \in Overrides
    BY <1>1 DEF RequestState
  <2>3. cache' \in Overrides /\ db' \in Overrides
    BY <1>1, <1>10, <2>2, UnsetIsNoRecord DEF RequestFails
  <2> QED
    BY <1>1, <1>10, <2>1, <2>3, UnsetIsNoRecord DEF RequestFails
<1>11. ASSUME NEW p \in Holders, Refresh(p) PROVE Typed
  BY <1>1, <1>11, OverValues DEF Refresh
<1>12. ASSUME NEW p \in Holders, Boot(p) PROVE Typed
  <2>1. PICK stored \in Stored \cup {NoRecord} :
            live' = [live EXCEPT ![p] = Over(Defaults, stored)]
    BY <1>12 DEF Boot
  <2>2. Over(Defaults, stored) \in [Settings -> Values]
    BY StoredTyped, OverValues, UnsetIsNoRecord
  <2>3. /\ req' \in [Requests -> RequestState]
        /\ tried' \in [Settings -> SUBSET (Values \cup {Unset})]
    BY <1>1, <1>2a, <1>12, UnsetIsNoRecord DEF Boot
  <2>4. UNCHANGED <<db, cache, acked, raced>>
    BY <1>12 DEF Boot
  <2> QED
    BY <1>1, <2>1, <2>2, <2>3, <2>4
<1>13. CASE Show
  <2>1. PICK stored \in Stored : live' = [live EXCEPT !["api"] = Over(@, stored)]
    BY <1>13 DEF Show
  <2>2. Over(live["api"], stored) \in [Settings -> Values]
    BY <1>1, StoredTyped, OverValues
  <2> QED
    BY <1>1, <1>13, <2>1, <2>2 DEF Show
<1>14. CASE UNCHANGED configVars
  BY <1>1, <1>14 DEF configVars
<1> HIDE DEF Typed
<1> QED
  BY <1>1, <1>4, <1>5, <1>6, <1>7, <1>8, <1>9, <1>10, <1>11, <1>12, <1>13, <1>14 DEF ConfigNext

\* Wherever a lone request stops, the stores hold what may be saved or what the
\* request may leave; and so does what it was about to write.
LEMMA LoneLeaves ==
    ASSUME ConfigTypeOK, NEW r \in Requests, LoneRequest(r), ~raced
    PROVE  \A k \in Settings : {db[k], cache[k]} \subseteq May(k) \cup Left(r, k)
<1> SUFFICES ASSUME NEW k \in Settings PROVE {db[k], cache[k]} \subseteq May(k) \cup Left(r, k)
  OBVIOUS
<1>1. req[r].pc \in {"load", "save", "publish", "forget"}
  BY DEF ConfigTypeOK, LoneRequest
<1>2. CASE req[r].pc \in {"load", "save"}
  BY <1>2 DEF LoneRequest, InStep
<1>3. CASE req[r].pc = "publish"
  <2>1. db[k] = req[r].merged[k] /\ Merged(r) /\ cache[k] \in May(k)
    BY <1>3 DEF LoneRequest
  <2> QED
    BY <1>3, <2>1 DEF Merged, Left
<1>4. CASE req[r].pc = "forget"
  <2>1. cache[k] = Unset /\ db[k] \in May(k)
    BY <1>4 DEF LoneRequest, NoRecord
  <2> QED
    BY <1>4, <2>1 DEF Left
<1> QED
  BY <1>1, <1>2, <1>3, <1>4

LEMMA LoneWrites ==
    ASSUME NEW r \in Requests, LoneRequest(r), ~raced
    PROVE  \A k \in Settings :
              /\ req[r].pc = "publish" => req[r].merged[k] \in May(k) \cup Left(r, k)
              /\ req[r].pc = "forget" => NoRecord[k] \in May(k) \cup Left(r, k)
  BY DEF LoneRequest, Merged, Left, NoRecord

\* The request that is under way takes a step; the others do nothing.
LEMMA NextConfigInv == ConfigInv /\ [ConfigNext]_configVars => ConfigInv'
<1> SUFFICES ASSUME ConfigInv, [ConfigNext]_configVars PROVE ConfigInv'
  OBVIOUS
<1>1. /\ req \in [Requests -> RequestState] /\ raced \in BOOLEAN /\ ConfigTypeOK
      /\ db \in Overrides /\ cache \in Overrides /\ acked \in Overrides
  BY DEF ConfigInv, ConfigTypeOK, RequestState
<1>2. ConfigTypeOK'
  BY <1>1, NextTyped
<1>3. ASSUME NEW r \in Requests, NEW changes \in Saves, Apply(r, changes) PROVE ConfigInv'
  <2> DEFINE new == [NoRequest EXCEPT !.pc = "load", !.changes = changes]
  <2>1. changes \in Overrides
    BY ConfigAssumption DEF Overrides, Unset
  <2>2. new \in RequestState /\ new.pc = "load"
    BY <2>1, UnsetIsNoRecord DEF RequestState
  <2>3. Begin(r, new) /\ req[r].pc = "idle" /\ UNCHANGED <<db, cache, acked, tried>>
    BY <1>3 DEF Apply
  <2> HIDE DEF new
  <2> QED
    BY <1>2, <2>2, <2>3, BeginsAlone
<1>4. ASSUME NEW r \in Requests, Reset(r) PROVE ConfigInv'
  <2> DEFINE new == [NoRequest EXCEPT !.pc = "forget"]
  <2>1. new \in RequestState /\ new.pc = "forget"
    BY UnsetIsNoRecord DEF RequestState
  <2>2. Begin(r, new) /\ req[r].pc = "idle" /\ UNCHANGED <<db, acked, tried>> /\ cache' = NoRecord
    BY <1>4 DEF Reset
  <2> HIDE DEF new
  <2> QED
    BY <1>2, <2>1, <2>2, BeginsAlone
<1>5. ASSUME NEW r \in Requests, LoadStored(r) \/ SaveRecord(r) PROVE ConfigInv'
  <2>1. /\ req[r].pc \in {"load", "save"} /\ req'[r].pc \in {"save", "publish"}
        /\ req'[r].changes = req[r].changes /\ req'[r].lone = req[r].lone
        /\ \A q \in Requests \ {r} : req'[q] = req[q]
        /\ UNCHANGED <<cache, acked, tried, raced>>
    BY <1>1, <1>5 DEF LoadStored, SaveRecord, RequestState
  <2>2. ~Quiet' /\ AcknowledgedIsSaved'
    BY <2>1 DEF Quiet, AcknowledgedIsSaved
  <2>3. ASSUME NEW q \in Requests, req'[q].lone PROVE LoneRequest(q)'
    <3>1. q = r /\ req[r].lone
      BY <2>1, <2>3 DEF ConfigInv, LoneRequest
    <3>2. LoneRequest(r)
      BY <3>1 DEF ConfigInv
    <3>3. CASE LoadStored(r)
      <4>1. PICK stored \in Stored :
               /\ req'[r].pc = "save" /\ req'[r].merged = Over(stored, req[r].changes)
               /\ req[r].pc = "load" /\ db' = db
        BY <1>1, <3>3 DEF LoadStored, RequestState
      <4>2. ~raced => InStep
        BY <3>2, <4>1 DEF LoneRequest
      <4>3. ~raced => \A k \in Settings : stored[k] \in May(k)
        BY <4>2 DEF InStep, Stored
      <4>4. ~raced => Merged(r)'
        BY <2>1, <4>1, <4>3 DEF Merged, Over, May
      <4>5. ~raced => InStep'
        BY <2>1, <4>1, <4>2 DEF InStep, May
      <4> QED
        BY <2>1, <3>1, <3>2, <4>1, <4>4, <4>5 DEF LoneRequest
    <3>4. CASE SaveRecord(r)
      <4>1. /\ req'[r].pc = "publish" /\ req'[r].merged = req[r].merged
            /\ req[r].pc = "save" /\ db' = req[r].merged
        BY <1>1, <3>4 DEF SaveRecord, RequestState
      <4>2. ~raced => InStep /\ Merged(r)
        BY <3>2, <4>1 DEF LoneRequest
      <4>3. ~raced => Merged(r)' /\ \A k \in Settings : cache'[k] \in May(k)'
        BY <2>1, <4>1, <4>2 DEF Merged, InStep, May
      <4> QED
        BY <2>1, <3>1, <3>2, <4>1, <4>3 DEF LoneRequest
    <3> QED
      BY <1>5, <3>3, <3>4
  <2>4. ~raced' => \A q \in Requests : req'[q].pc # "idle" => req'[q].lone
    BY <2>1 DEF ConfigInv
  <2> QED
    BY <1>2, <2>2, <2>3, <2>4 DEF ConfigInv
<1>6. ASSUME NEW r \in Requests, Publish(r) \/ Forget(r) \/ RequestFails(r) PROVE ConfigInv'
  <2>1. /\ req[r].pc # "idle" /\ req'[r] = NoRequest /\ \A q \in Requests \ {r} : req'[q] = req[q]
    BY <1>1, <1>6 DEF Publish, Forget, RequestFails
  <2>2. CASE req[r].lone
    <3>1. LoneRequest(r)
      BY <2>2 DEF ConfigInv
    <3>2. \A q \in Requests : req'[q].pc = "idle" /\ ~req'[q].lone
      <4>1. \A q \in Requests \ {r} : req[q].pc = "idle" /\ ~req[q].lone
        BY <3>1 DEF LoneRequest, ConfigInv
      <4> QED
        BY <2>1, <4>1, UnsetIsNoRecord
    <3>3. ~raced' => InStep'
      <4>1. CASE Publish(r)
        <5>1. /\ req[r].pc = "publish" /\ db' = db /\ cache' = req[r].merged
              /\ acked' = IF raced THEN req[r].merged ELSE Over(acked, req[r].changes)
              /\ \A k \in Settings :
                    tried'[k] = IF raced \/ req[r].changes[k] # Unset THEN {} ELSE tried[k]
          BY <2>2, <4>1 DEF Publish
        <5>2. db = req[r].merged /\ (~raced => Merged(r))
          BY <3>1, <5>1 DEF LoneRequest
        <5>3. ASSUME NEW k \in Settings PROVE req[r].merged[k] \in May(k)'
          BY <5>1, <5>2, <5>3 DEF Merged, May, Over
        <5> QED
          BY <5>1, <5>2, <5>3 DEF InStep
      <4>2. CASE Forget(r)
        <5>1. db' = NoRecord /\ cache' = NoRecord /\ acked' = NoRecord
          BY <3>1, <4>2 DEF Forget, LoneRequest
        <5> QED
          BY <5>1 DEF InStep, May
      <4>3. CASE RequestFails(r)
        <5>1. /\ acked' = acked /\ raced' = raced
              /\ cache' = cache \/ (req[r].pc = "publish" /\ cache' = req[r].merged)
              /\ db' = db \/ (req[r].pc = "forget" /\ db' = NoRecord)
              /\ \A k \in Settings : tried'[k] = tried[k] \cup Left(r, k)
          BY <4>3 DEF RequestFails
        <5>2. ~raced => \A k \in Settings : {db[k], cache[k]} \subseteq May(k) \cup Left(r, k)
          BY <1>1, <3>1, LoneLeaves
        <5> QED
          BY <1>1, <3>1, <5>1, <5>2, LoneWrites DEF InStep, May
      <4> QED
        BY <1>6, <4>1, <4>2, <4>3
    <3> QED
      BY <1>2, <3>2, <3>3 DEF ConfigInv, AcknowledgedIsSaved, InStep, May
  <2>3. CASE ~req[r].lone
    <3>1. raced
      BY <2>1, <2>3 DEF ConfigInv
    <3>2. raced'
      BY <1>6, <2>3, <3>1 DEF Publish, Forget, RequestFails
    <3>3. ASSUME NEW q \in Requests, req'[q].lone PROVE FALSE
      <4>1. q # r /\ req[q].lone
        BY <2>1, <3>3, UnsetIsNoRecord
      <4> QED
        BY <2>1, <4>1 DEF ConfigInv, LoneRequest
    <3> QED
      BY <1>2, <3>2, <3>3 DEF ConfigInv, AcknowledgedIsSaved
  <2> QED
    BY <2>2, <2>3
<1>7. CASE UNCHANGED <<db, cache, req, acked, tried, raced>>
  BY <1>2, <1>7 DEF ConfigInv, LoneRequest, InStep, Merged, May, AcknowledgedIsSaved, Quiet
<1>8. CASE Boot("api")
  <2>1. /\ \A q \in Requests : req'[q] = NoRequest
        /\ UNCHANGED <<db, cache, acked, raced>>
        /\ \A k \in Settings : tried'[k] = tried[k] \cup UNION {Left(r, k) : r \in Requests}
    BY <1>8 DEF Boot
  <2>2. ~raced => \A k \in Settings : {db[k], cache[k]} \subseteq May(k)'
    <3>1. CASE Quiet
      BY <2>1, <3>1, QuietInStep DEF ConfigInv, InStep, May
    <3>2. CASE ~Quiet /\ ~raced
      <4>1. PICK r \in Requests : LoneRequest(r)
        BY <3>2 DEF Quiet, ConfigInv
      <4>2. \A k \in Settings : {db[k], cache[k]} \subseteq May(k) \cup Left(r, k)
        BY <1>1, <3>2, <4>1, LoneLeaves
      <4> QED
        BY <2>1, <4>2 DEF May
    <3> QED
      BY <3>1, <3>2
  <2>3. AcknowledgedIsSaved'
    BY <2>1, <2>2 DEF AcknowledgedIsSaved, May
  <2> QED
    BY <1>2, <2>1, <2>3, UnsetIsNoRecord DEF ConfigInv
<1>9. ASSUME NEW p \in Holders, Refresh(p) \/ Boot(p) \/ Show
      PROVE  UNCHANGED <<db, cache, req, acked, tried, raced>> \/ Boot("api")
  BY <1>9 DEF Refresh, Boot, Show
<1>10. UNCHANGED configVars => UNCHANGED <<db, cache, req, acked, tried, raced>>
  BY DEF configVars
<1>11. Show => UNCHANGED <<db, cache, req, acked, tried, raced>>
  BY DEF Show
<1> QED
  BY <1>3, <1>4, <1>5, <1>6, <1>7, <1>8, <1>9, <1>10, <1>11 DEF ConfigNext, Holders

\* What the requests have left holds of every behaviour.
THEOREM ConfigInvariant == ConfigSpec => []ConfigInv
  BY InitConfigInv, NextConfigInv, PTL DEF ConfigSpec

\* Records, caches and working values stay well typed.
THEOREM RuntimeConfigTypeOK == ConfigSpec => []ConfigTypeOK
<1>1. ConfigInv => ConfigTypeOK
  BY DEF ConfigInv
<1> QED
  BY <1>1, ConfigInvariant, PTL

\* A setting acknowledged stays saved, in the record and in the cache, through
\* requests that fail between any two writes, but for what a later request that
\* was never answered asked for, unless requests overlapped; and the next lone
\* request mends that.
THEOREM SavedStaysSaved == ConfigSpec => []AcknowledgedIsSaved
<1>1. ConfigInv => AcknowledgedIsSaved
  BY DEF ConfigInv
<1> QED
  BY <1>1, ConfigInvariant, PTL

=============================================================================
