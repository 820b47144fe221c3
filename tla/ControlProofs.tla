---------------------------- MODULE ControlProofs ---------------------------
(**************************************************************************)
(* What the controls stop and what they must not stop: the kill switch,   *)
(* and the live exits that end in a sale.                                 *)
(**************************************************************************)
EXTENDS SystemControl, ExitLoop, TLAPS

-----------------------------------------------------------------------------
(**************************************************************************)
(* The kill switch for any number of operators and signing requests.      *)
(**************************************************************************)

\* While a kill is in force the latch is up: that is what makes
\* NoSpendAfterKill inductive.  A completed kill, a kill between its two
\* writes whose latch nobody cleared, and a signing request that began after a
\* completed kill each imply it.
LatchHeld ==
    /\ killDone => kill
    /\ \A o \in Operators : op[o].pc = "kill_state" /\ op[o].fresh => kill
    /\ \A q \in Signings : signing[q].afterKill => kill

ControlInv == ControlTypeOK /\ LatchHeld /\ NoSpendAfterKill

\* KeysInit with idle operators and requests satisfies the invariant.
LEMMA InitControlInv == ControlInit => ControlInv
<1> SUFFICES ASSUME ControlInit PROVE ControlInv
  OBVIOUS
<1>1. IdleOp \in Op /\ IdleReq \in Req
  BY DEF IdleOp, IdleReq, Op, Req, Absent
<1>2. ControlTypeOK
  BY <1>1 DEF ControlInit, ControlTypeOK, KeysInit, KeysTypeOK
<1>3. LatchHeld
  BY DEF ControlInit, LatchHeld, IdleOp, IdleReq
<1> QED
  BY <1>2, <1>3 DEF ControlInit, ControlInv, NoSpendAfterKill

\* A step that gives one request a new record of type Req keeps the type of
\* req, and the other requests keep their records.
LEMMA OneRequest ==
    ASSUME NEW q \in Signings, NEW r \in Req, signing \in [Signings -> Req],
           signing' = [signing EXCEPT ![q] = r]
    PROVE  /\ signing' \in [Signings -> Req]
           /\ signing'[q] = r
           /\ \A x \in Signings : x # q => signing'[x] = signing[x]
  OBVIOUS

\* The steps of a signing request leave the control keys, the commands and the
\* ghosts alone, so the invariant depends on the new record only: of type Req,
\* and begun after a kill only where the latch is up.
LEMMA RequestStep ==
    ASSUME NEW q \in Signings, NEW r \in Req, ControlInv,
           r.afterKill => kill,
           signing' = [signing EXCEPT ![q] = r],
           UNCHANGED <<keyVars, op, killDone, armed>>,
           overspent' = FALSE
    PROVE  ControlInv'
<1>1. /\ signing' \in [Signings -> Req]
      /\ signing'[q] = r
      /\ \A x \in Signings : x # q => signing'[x] = signing[x]
  BY OneRequest DEF ControlInv, ControlTypeOK
<1>2. ControlTypeOK'
  BY <1>1 DEF ControlInv, ControlTypeOK, KeysTypeOK, keyVars
<1>3. \A x \in Signings : signing'[x].afterKill => kill
  BY <1>1 DEF ControlInv, LatchHeld
<1>4. LatchHeld'
  BY <1>3 DEF ControlInv, LatchHeld, keyVars
<1> QED
  BY <1>2, <1>4 DEF ControlInv, NoSpendAfterKill

\* No command or signing step, from any state satisfying it, breaks it.
LEMMA NextControlInv == ControlInv /\ [ControlNext]_controlVars => ControlInv'
<1> USE DEF ControlInv, ControlTypeOK, LatchHeld, NoSpendAfterKill, KeysTypeOK, keyVars,
            ghosts, controlVars
<1> SUFFICES ASSUME ControlInv, [ControlNext]_controlVars PROVE ControlInv'
  OBVIOUS
<1>1. ASSUME NEW o \in Operators, GetLatch(o) PROVE ControlInv'
  BY <1>1 DEF GetLatch, NoCommand, IdleOp, Op
<1>2. ASSUME NEW o \in Operators, GetState(o) PROVE ControlInv'
  BY <1>2 DEF GetState, IdleOp, Op
<1>3. ASSUME NEW o \in Operators, SetRunning(o) PROVE ControlInv'
  BY <1>3 DEF SetRunning, SetState, SystemState, IdleOp, Op
<1>4. ASSUME NEW o \in Operators, CliResume(o) PROVE ControlInv'
  BY <1>4 DEF CliResume, SetState, SystemState
<1>5. ASSUME NEW o \in Operators, StopOrPause(o) PROVE ControlInv'
  BY <1>5 DEF StopOrPause, SetState, SystemState
<1>6. ASSUME NEW o \in Operators, KillLatch(o) PROVE ControlInv'
  BY <1>6 DEF KillLatch, LatchKill, NoCommand, Op
<1>7. ASSUME NEW o \in Operators, KillState(o) PROVE ControlInv'
  BY <1>7 DEF KillState, SetState, SystemState, IdleOp, Op
<1>8. ASSUME NEW o \in Operators, ClearKill(o) PROVE ControlInv'
  <2>1. op' \in [Operators -> Op] /\ \A x \in Operators : ~(op'[x].fresh /\ kill)
    BY <1>8 DEF ClearKill, Op
  <2>2. \A x \in Operators : op'[x].pc = op[x].pc /\ (op'[x].fresh => op[x].fresh)
    BY <1>8 DEF ClearKill, Op
  <2>3. signing' \in [Signings -> Req] /\ \A q \in Signings : ~signing'[q].afterKill
    BY <1>8 DEF ClearKill, Req
  <2>4. ControlTypeOK'
    BY <1>8, <2>1, <2>3 DEF ClearKill, ClearLatch, SystemState
  <2>5. LatchHeld'
    BY <1>8, <2>1, <2>2, <2>3 DEF ClearKill, ClearLatch
  <2> QED
    BY <1>8, <2>4, <2>5 DEF ClearKill
<1>9. ASSUME NEW o \in Operators, OperatorCrash(o) PROVE ControlInv'
  BY <1>9 DEF OperatorCrash, IdleOp, Op
<1>10. CASE Grant
  BY <1>10 DEF Grant, EntriesOpen
<1>11. ASSUME NEW q \in Signings, DaemonState(q) PROVE ControlInv'
  <2> DEFINE r == [pc |-> IF sys \in {"killed", "hard_paused"} THEN "refused" ELSE "daemon_kill",
                   seen |-> sys, latch |-> FALSE, afterKill |-> killDone]
  <2>1. r \in Req /\ (r.afterKill => kill)
    BY DEF Req
  <2>2. signing' = [signing EXCEPT ![q] = r] /\ UNCHANGED <<keyVars, op, ghosts>>
    BY <1>11 DEF DaemonState
  <2> HIDE DEF r
  <2> QED
    BY <2>1, <2>2, RequestStep
<1>12. ASSUME NEW q \in Signings, DaemonKill(q) PROVE ControlInv'
  <2> DEFINE r == [signing[q] EXCEPT !.pc = IF kill THEN "refused" ELSE "enforce_state",
                                 !.latch = kill]
  <2>1. r \in Req /\ r.afterKill = signing[q].afterKill
    BY DEF Req
  <2>2. signing' = [signing EXCEPT ![q] = r] /\ UNCHANGED <<keyVars, op, ghosts>>
    BY <1>12 DEF DaemonKill
  <2> HIDE DEF r
  <2> QED
    BY <2>1, <2>2, RequestStep
<1>13. ASSUME NEW q \in Signings, EnforceState(q) PROVE ControlInv'
  <2> DEFINE behind == [signing[q] EXCEPT !.pc = "enforce_kill", !.seen = sys]
             direct == [pc |-> "enforce_kill", seen |-> sys,
                        latch |-> FALSE, afterKill |-> killDone]
  <2>1. /\ behind \in Req /\ behind.afterKill = signing[q].afterKill
        /\ direct \in Req /\ direct.afterKill = killDone
    BY DEF Req
  <2>2. /\ signing' = [signing EXCEPT ![q] = behind] \/ signing' = [signing EXCEPT ![q] = direct]
        /\ UNCHANGED <<keyVars, op, ghosts>>
    BY <1>13 DEF EnforceState
  <2> HIDE DEF behind, direct
  <2> QED
    BY <2>1, <2>2, RequestStep
<1>14. ASSUME NEW q \in Signings, EnforceKill(q) PROVE ControlInv'
  <2> DEFINE granted == ~kill /\ signing[q].seen \in SignableState
             r == [signing[q] EXCEPT !.pc = IF granted THEN "signed" ELSE "refused",
                                 !.latch = kill]
  <2>1. r \in Req /\ r.afterKill = signing[q].afterKill
    BY DEF Req
  <2>2. /\ signing' = [signing EXCEPT ![q] = r] /\ UNCHANGED <<keyVars, op, killDone, armed>>
        /\ overspent' = (overspent \/ (granted /\ signing[q].afterKill))
    BY <1>14 DEF EnforceKill
  <2>3. overspent' = FALSE
    BY <2>2
  <2> HIDE DEF r
  <2> QED
    BY <2>1, <2>2, <2>3, RequestStep
<1>15. ASSUME NEW q \in Signings, Answered(q) PROVE ControlInv'
  <2>1. IdleReq \in Req /\ ~IdleReq.afterKill
    BY DEF IdleReq, Req, Absent
  <2>2. signing' = [signing EXCEPT ![q] = IdleReq] /\ UNCHANGED <<keyVars, op, ghosts>>
    BY <1>15 DEF Answered
  <2> QED
    BY <2>1, <2>2, RequestStep
<1>16. CASE UNCHANGED controlVars
  BY <1>16
<1> QED
  BY <1>1, <1>2, <1>3, <1>4, <1>5, <1>6, <1>7, <1>8, <1>9, <1>10, <1>11, <1>12, <1>13,
     <1>14, <1>15, <1>16 DEF ControlNext

\* The invariant holds of every behaviour of the controls.
THEOREM SystemControlInvariant == ControlSpec => []ControlInv
  BY InitControlInv, NextControlInv, PTL DEF ControlSpec

\* The control keys, the commands and the requests keep their types.
THEOREM SystemControlTypeOK == ControlSpec => []ControlTypeOK
<1>1. ControlInv => ControlTypeOK
  BY DEF ControlInv
<1> QED
  BY <1>1, SystemControlInvariant, PTL

\* Once kill() has returned nothing is reserved and nothing is signed until
\* clear_kill, however many commands and signing requests interleave.
THEOREM NothingSpentAfterKill == ControlSpec => []NoSpendAfterKill
<1>1. ControlInv => NoSpendAfterKill
  BY DEF ControlInv
<1> QED
  BY <1>1, SystemControlInvariant, PTL

\* However commands interleave and crash, only one that writes RUNNING reopens
\* entries after clear_kill.
THEOREM ClearingReopensNothing == ControlSpec => []ReopenedByCommand
<1> USE DEF ReopenedByCommand, EntriesOpen, keyVars, ghosts, controlVars
<1>1. ControlInit => ReopenedByCommand
  BY DEF ControlInit, KeysInit, Absent
<1>2. ReopenedByCommand /\ [ControlNext]_controlVars => ReopenedByCommand'
  <2> SUFFICES ASSUME ReopenedByCommand, [ControlNext]_controlVars PROVE ReopenedByCommand'
    OBVIOUS
  <2>1. ASSUME NEW o \in Operators, GetLatch(o) \/ GetState(o) \/ OperatorCrash(o)
        PROVE  ReopenedByCommand'
    BY <2>1 DEF GetLatch, GetState, OperatorCrash
  <2>2. ASSUME NEW o \in Operators, SetRunning(o) \/ CliResume(o) PROVE ReopenedByCommand'
    BY <2>2 DEF SetRunning, CliResume
  <2>3. ASSUME NEW o \in Operators, StopOrPause(o) \/ KillState(o) \/ ClearKill(o)
        PROVE  ReopenedByCommand'
    BY <2>3 DEF StopOrPause, KillState, ClearKill, SetState, ClearLatch
  <2>4. ASSUME NEW o \in Operators, KillLatch(o) PROVE ReopenedByCommand'
    BY <2>4 DEF KillLatch, LatchKill
  <2>5. CASE Grant
    BY <2>5 DEF Grant
  <2>6. ASSUME NEW q \in Signings,
               \/ DaemonState(q) \/ DaemonKill(q) \/ EnforceState(q)
               \/ EnforceKill(q) \/ Answered(q)
        PROVE  ReopenedByCommand'
    BY <2>6 DEF DaemonState, DaemonKill, EnforceState, EnforceKill, Answered
  <2> QED
    BY <2>1, <2>2, <2>3, <2>4, <2>5, <2>6 DEF ControlNext
<1> QED
  BY <1>1, <1>2, PTL DEF ControlSpec

-----------------------------------------------------------------------------
(**************************************************************************)
(* Live exits of a position of any size, whatever the executor returns    *)
(* and wherever the service and the emergency job crash.                  *)
(**************************************************************************)

Exit == [pc : {"idle", "claim", "prepare", "sign", "sent", "book", "clear"},
         why : {"none", "stop_loss", "mirror", "emergency"},
         qty : Nat, full : BOOLEAN]

ExitsTyped ==
    /\ ex \in [Exiters -> Exit]
    /\ source \in {"none", "half", "all"}
    /\ amount \in Int /\ held \in Nat

\* What x has sold and not yet booked.
Sold(x) == IF ex[x].pc = "book" THEN ex[x].qty ELSE 0

\* The row covers what the wallet holds and what has been sold and not booked.
\* With that, an exit of everything can be booked only when nothing else is
\* left to book: it sells at least what the row still shows.
RowCovers ==
    /\ held + Sold(Service) + Sold(Job) <= amount
    /\ \A x \in Exiters : ex[x].pc # "idle" /\ ex[x].full => ex[x].qty >= amount

IInv == ExitsTyped /\ RowCovers

LEMMA NoExitTyped == NoExit \in Exit /\ NoExit.pc = "idle"
  BY DEF NoExit, Exit

LEMMA ExitersAre == Service \in Exiters /\ Job \in Exiters /\ Service # Job
                    /\ \A x \in Exiters : x = Service \/ x = Job
  BY DEF Exiters, Service, Job

\* What x has sold is a natural number.
LEMMA SoldType == ExitsTyped => \A x \in Exiters : Sold(x) \in Nat
  BY DEF ExitsTyped, Exit, Sold

LEMMA InitIInv == ExitInit => IInv
<1> SUFFICES ASSUME ExitInit PROVE IInv
  OBVIOUS
<1>1. ExitsTyped
  BY NoExitTyped, ExitAssumption DEF ExitInit, ExitsTyped
<1>2. Sold(Service) = 0 /\ Sold(Job) = 0
  BY NoExitTyped, ExitersAre DEF ExitInit, Sold
<1>3. \A x \in Exiters : ex[x].pc = "idle"
  BY NoExitTyped DEF ExitInit
<1>4. amount \in Nat /\ held = amount
  BY ExitAssumption DEF ExitInit
<1> QED
  BY <1>1, <1>2, <1>3, <1>4 DEF IInv, RowCovers

\* A step of x that books nothing, takes nothing out of the row and leaves the
\* other exiter alone keeps the invariant, if what x has sold came out of the
\* wallet and an exit of everything still sells what the row shows.
LEMMA StepKeeps ==
    ASSUME IInv, NEW x \in Exiters, NEW new \in Exit,
           ex' = [ex EXCEPT ![x] = new], amount' = amount, held' \in Nat,
           source' \in {"none", "half", "all"},
           held' + (IF new.pc = "book" THEN new.qty ELSE 0) <= held + Sold(x),
           new.pc # "idle" /\ new.full => new.qty >= amount
    PROVE  IInv'
<1>1. ExitsTyped'
  BY DEF IInv, ExitsTyped
<1>2. /\ ex'[x] = new
      /\ \A y \in Exiters : y # x => ex'[y] = ex[y]
  BY DEF IInv, ExitsTyped
<1>3. /\ Sold(x)' = IF new.pc = "book" THEN new.qty ELSE 0
      /\ \A y \in Exiters : y # x => Sold(y)' = Sold(y)
  BY <1>2 DEF Sold
<1>4. /\ Sold(Service) \in Nat /\ Sold(Job) \in Nat
      /\ Sold(Service)' \in Nat /\ Sold(Job)' \in Nat /\ Sold(x)' \in Nat
  <2>1. \A y \in Exiters : Sold(y) \in Nat
    BY SoldType DEF IInv
  <2>2. Sold(x)' \in Nat
    BY <1>3 DEF Exit
  <2> QED
    BY <2>1, <2>2, <1>3, ExitersAre
<1>5. held' + Sold(x)' <= held + Sold(x)
  BY <1>3
<1>6. held' + Sold(Service)' + Sold(Job)' <= amount'
  <2>1. held \in Int /\ held' \in Int /\ amount \in Int
    BY DEF IInv, ExitsTyped
  <2>2. held + Sold(Service) + Sold(Job) <= amount
    BY DEF IInv, RowCovers
  <2>3. CASE x = Service
    <3>1. Sold(Job)' = Sold(Job)
      BY <2>3, <1>3, ExitersAre
    <3>2. held' + Sold(Service)' <= held + Sold(Service)
      BY <2>3, <1>5
    <3> QED
      BY <2>1, <2>2, <3>1, <3>2, <1>4
  <2>4. CASE x = Job
    <3>1. Sold(Service)' = Sold(Service)
      BY <2>4, <1>3, ExitersAre
    <3>2. held' + Sold(Job)' <= held + Sold(Job)
      BY <2>4, <1>5
    <3> QED
      BY <2>1, <2>2, <3>1, <3>2, <1>4
  <2> QED
    BY <2>3, <2>4, ExitersAre
<1>7. \A y \in Exiters : ex'[y].pc # "idle" /\ ex'[y].full => ex'[y].qty >= amount'
  BY <1>2 DEF IInv, RowCovers
<1> QED
  BY <1>1, <1>6, <1>7 DEF IInv, RowCovers

\* An exit that ends without a fill.
LEMMA EndKeeps ==
    ASSUME IInv, NEW x \in Exiters, ex' = [ex EXCEPT ![x] = NoExit], amount' = amount,
           held' \in Nat, held' <= held, source' \in {"none", "half", "all"}
    PROVE  IInv'
<1>1. Sold(x) \in Nat /\ held \in Nat
  BY SoldType DEF IInv, ExitsTyped
<1>2. held' + (IF NoExit.pc = "book" THEN NoExit.qty ELSE 0) <= held + Sold(x)
  BY <1>1, NoExitTyped
<1> QED
  BY <1>2, NoExitTyped, StepKeeps

\* A step of x from one place to another, before the fill.
LEMMA MoveKeeps ==
    ASSUME IInv, NEW x \in Exiters, NEW pc \in {"prepare", "sign", "sent"}, Move(x, pc),
           ex[x].pc # "idle", amount' = amount, held' = held, source' = source
    PROVE  IInv'
<1> DEFINE new == [ex[x] EXCEPT !.pc = pc]
<1>1. ex[x] \in Exit
  BY DEF IInv, ExitsTyped
<1>2. /\ new \in Exit /\ new.pc = pc /\ new.qty = ex[x].qty /\ new.full = ex[x].full
  BY <1>1 DEF Exit
<1>3. ex' = [ex EXCEPT ![x] = new]
  BY DEF Move
<1>4. Sold(x) \in Nat /\ held \in Nat /\ source \in {"none", "half", "all"}
  BY SoldType DEF IInv, ExitsTyped
<1>5. held' + (IF new.pc = "book" THEN new.qty ELSE 0) <= held + Sold(x)
  BY <1>2, <1>4
<1>6. new.pc # "idle" /\ new.full => new.qty >= amount
  BY <1>2 DEF IInv, RowCovers
<1> HIDE DEF new
<1> QED
  BY <1>2, <1>3, <1>4, <1>5, <1>6, StepKeeps

\* Booking: the only step that takes something out of the row.
LEMMA BookKeeps ==
    ASSUME IInv, NEW x \in Exiters, Book(x)
    PROVE  IInv'
<1> DEFINE other == IF x = Service THEN Job ELSE Service
<1>1. /\ other \in Exiters /\ other # x
      /\ \A y \in Exiters : y = x \/ y = other
  BY ExitersAre
<1>2. ex[x] \in Exit /\ ex[other] \in Exit /\ amount \in Int /\ held \in Nat
      /\ source \in {"none", "half", "all"} /\ source' = source /\ held' = held
  BY <1>1 DEF IInv, ExitsTyped, Book, market
<1>3. ex' = [ex EXCEPT ![x] = NoExit] \/ ex' = [ex EXCEPT ![x].pc = "clear"]
  BY ExitersAre DEF Book, Move
<1>4. PICK new \in Exit : /\ ex' = [ex EXCEPT ![x] = new]
                          /\ new.pc \in {"idle", "clear"}
                          /\ new.pc = "clear" => new.qty = ex[x].qty /\ new.full = ex[x].full
  <2>1. CASE ex' = [ex EXCEPT ![x] = NoExit]
    BY <2>1, NoExitTyped
  <2>2. CASE ex' = [ex EXCEPT ![x].pc = "clear"]
    <3> DEFINE n == [ex[x] EXCEPT !.pc = "clear"]
    <3>1. n \in Exit /\ n.pc = "clear" /\ n.qty = ex[x].qty /\ n.full = ex[x].full
      BY <1>2 DEF Exit
    <3>2. ex' = [ex EXCEPT ![x] = n]
      BY <2>2
    <3> QED
      BY <3>1, <3>2
  <2> QED
    BY <1>3, <2>1, <2>2
<1>5. /\ ex'[x] = new /\ ex'[other] = ex[other]
      /\ ex' \in [Exiters -> Exit]
  BY <1>1, <1>4 DEF IInv, ExitsTyped
<1>6. Sold(x)' = 0 /\ Sold(other)' = Sold(other) /\ Sold(x) = ex[x].qty
  BY <1>4, <1>5 DEF Sold, Book
<1>7. ex[x].qty \in Nat /\ Sold(other) \in Nat
  BY <1>1, <1>2, SoldType DEF IInv, Exit
<1>8. held + ex[x].qty + Sold(other) <= amount
  <2>1. held + Sold(Service) + Sold(Job) <= amount
    BY DEF IInv, RowCovers
  <2>2. CASE x = Service
    BY <2>1, <2>2, <1>6
  <2>3. CASE x = Job
    <3>1. other = Service
      BY <2>3, ExitersAre
    <3> QED
      BY <2>1, <2>3, <3>1, <1>2, <1>6, <1>7
  <2> QED
    BY <2>2, <2>3, ExitersAre
<1>9. /\ amount' \in Int /\ amount' <= amount
      /\ held' + Sold(other)' <= amount'
  <2>1. CASE ex[x].full
    <3>1. ex[x].qty >= amount
      BY <2>1 DEF IInv, RowCovers, Book
    <3>2. amount' = 0
      BY <2>1 DEF Book
    <3>3. held = 0 /\ Sold(other) = 0 /\ amount >= 0
      BY <1>2, <1>7, <1>8, <3>1
    <3> QED
      BY <1>2, <1>6, <3>2, <3>3
  <2>2. CASE ~ex[x].full
    <3>1. amount' = amount - ex[x].qty
      BY <2>2 DEF Book
    <3> QED
      BY <1>2, <1>6, <1>7, <1>8, <3>1
  <2> QED
    BY <2>1, <2>2
<1>10. held' + Sold(Service)' + Sold(Job)' <= amount'
  <2>1. CASE x = Service
    BY <2>1, <1>2, <1>6, <1>7, <1>9
  <2>2. CASE x = Job
    <3>1. other = Service
      BY <2>2, ExitersAre
    <3> QED
      BY <2>2, <3>1, <1>2, <1>6, <1>7, <1>9
  <2> QED
    BY <2>1, <2>2, ExitersAre
<1>11. \A y \in Exiters : ex'[y].pc # "idle" /\ ex'[y].full => ex'[y].qty >= amount'
  <2>1. ASSUME new.pc # "idle", new.full PROVE new.qty >= amount'
    <3>1. new.qty = ex[x].qty /\ ex[x].full
      BY <1>4, <2>1
    <3>2. ex[x].qty >= amount
      BY <3>1 DEF IInv, RowCovers, Book
    <3> QED
      BY <3>1, <3>2, <1>2, <1>7, <1>9
  <2>2. ASSUME ex[other].pc # "idle", ex[other].full PROVE ex[other].qty >= amount'
    <3>1. ex[other].qty >= amount /\ ex[other].qty \in Nat
      BY <1>1, <1>2, <2>2 DEF IInv, RowCovers, Exit
    <3> QED
      BY <3>1, <1>2, <1>9
  <2> HIDE DEF other
  <2> QED
    BY <1>1, <1>5, <2>1, <2>2
<1> QED
  BY <1>2, <1>5, <1>9, <1>10, <1>11 DEF IInv, RowCovers, ExitsTyped

LEMMA EvaluateKeeps == IInv /\ Evaluate => IInv'
<1> SUFFICES ASSUME IInv, Evaluate PROVE IInv'
  OBVIOUS
<1> DEFINE q == Quantity(Why)
           new == [pc |-> "claim", why |-> Why, qty |-> q, full |-> q = amount]
<1>1. amount \in Nat /\ amount > 0 /\ held \in Nat /\ source \in {"none", "half", "all"}
  BY DEF IInv, ExitsTyped, Evaluate
<1>2. q \in Nat
  BY <1>1 DEF Quantity
<1>3. Why \in {"stop_loss", "mirror"}
  BY DEF Why
<1>4. ex' = [ex EXCEPT ![Service] = new] /\ amount' = amount /\ held' = held /\ source' = source
  BY DEF Evaluate, position, market
<1>5. new \in Exit /\ new.pc = "claim" /\ (new.full => new.qty >= amount)
  <2>1. (q = amount) \in BOOLEAN
    OBVIOUS
  <2> HIDE DEF q
  <2>2. new.pc = "claim" /\ new.full = (q = amount) /\ new.qty = q
    OBVIOUS
  <2>3. new \in Exit
    BY <1>1, <1>2, <1>3, <2>1 DEF Exit
  <2>4. ASSUME new.full PROVE new.qty >= amount
    <3>1. q = amount
      BY <2>2, <2>4, Zenon
    <3> QED
      BY <1>1, <1>2, <2>2, <3>1
  <2> QED
    BY <2>2, <2>3, <2>4
<1>6. Sold(Service) \in Nat
  BY SoldType, ExitersAre DEF IInv
<1> HIDE DEF new
<1>7. held' \in Nat /\ held' + (IF new.pc = "book" THEN new.qty ELSE 0) <= held + Sold(Service)
  BY <1>1, <1>4, <1>5, <1>6
<1> QED
  BY <1>1, <1>4, <1>5, <1>7, ExitersAre, StepKeeps

LEMMA JobStartKeeps == IInv /\ JobStart => IInv'
<1> SUFFICES ASSUME IInv, JobStart PROVE IInv'
  OBVIOUS
<1> DEFINE new == [pc |-> "claim", why |-> "emergency", qty |-> amount, full |-> TRUE]
<1>1. amount \in Int /\ held \in Nat /\ source \in {"none", "half", "all"}
      /\ amount' = amount /\ held' = held /\ source' = source
  BY DEF IInv, ExitsTyped, JobStart, position, market
<1>2. CASE amount > 0
  <2>1. ex' = [ex EXCEPT ![Job] = new]
    BY <1>2 DEF JobStart
  <2>2. new \in Exit /\ new.pc = "claim" /\ new.qty = amount
    BY <1>1, <1>2 DEF Exit
  <2>3. Sold(Job) \in Nat
    BY SoldType, ExitersAre DEF IInv
  <2> HIDE DEF new
  <2>4. held' \in Nat /\ held' + (IF new.pc = "book" THEN new.qty ELSE 0) <= held + Sold(Job)
    BY <1>1, <2>2, <2>3
  <2>5. new.qty >= amount
    BY <1>1, <2>2
  <2> QED
    BY <1>1, <2>1, <2>2, <2>4, <2>5, ExitersAre, StepKeeps
<1>3. CASE ~(amount > 0)
  <2>1. ex' = ex
    BY <1>3 DEF JobStart
  <2> QED
    BY <1>1, <2>1 DEF IInv, ExitsTyped, RowCovers, Sold
<1> QED
  BY <1>2, <1>3

\* No step of an exit, taken Live, breaks the invariant.
LEMMA ProceedKeeps ==
    ASSUME Live, IInv, NEW x \in Exiters, Proceed(x)
    PROVE  IInv'
<1>0. held \in Nat /\ source \in {"none", "half", "all"} /\ ex[x] \in Exit
  BY DEF IInv, ExitsTyped
<1>1. CASE Claim(x) \/ Prepared(x) \/ Sign(x)
  <2>1. /\ \E pc \in {"prepare", "sign", "sent"} : Move(x, pc)
        /\ ex[x].pc # "idle" /\ amount' = amount /\ held' = held /\ source' = source
    BY <1>1 DEF Claim, Prepared, Sign, position, market
  <2> QED
    BY <2>1, MoveKeeps
<1>2. CASE \/ Duplicate(x) \/ Refused(x) \/ SignerRefuses(x) \/ Raised(x) \/ Reverted(x)
           \/ Unbooked(x)
  <2>1. /\ ex' = [ex EXCEPT ![x] = NoExit]
        /\ amount' = amount /\ held' = held /\ source' = source
    BY <1>2 DEF Duplicate, Refused, SignerRefuses, Raised, Reverted, Unbooked, Unsold, position,
                market
  <2>2. held' \in Nat /\ held' <= held
    BY <1>0, <2>1
  <2> QED
    BY <1>0, <2>1, <2>2, EndKeeps
<1>3. CASE Unknown(x)
  <2>1. /\ ex' = [ex EXCEPT ![x] = NoExit]
        /\ amount' = amount /\ source' = source
        /\ held' \in {held, held - ex[x].qty} \cap Nat
    BY <1>3 DEF Unknown, Unsold, market
  <2>2. ex[x].qty \in Nat
    BY <1>0 DEF Exit
  <2>3. held' \in Nat /\ held' <= held
    BY <1>0, <2>1, <2>2
  <2> QED
    BY <1>0, <2>1, <2>3, EndKeeps
<1>4. CASE Fill(x)
  <2> DEFINE new == [ex[x] EXCEPT !.pc = "book"]
  <2>1. /\ ex' = [ex EXCEPT ![x] = new]
        /\ amount' = amount /\ source' = source
        /\ held >= ex[x].qty /\ held' = held - ex[x].qty /\ ex[x].pc = "sent"
    BY <1>4 DEF Fill, Move, market
  <2>2. new \in Exit /\ new.pc = "book" /\ new.qty = ex[x].qty /\ new.full = ex[x].full
        /\ ex[x].qty \in Nat
    BY <1>0 DEF Exit
  <2>3. Sold(x) = 0
    BY <2>1 DEF Sold
  <2>4. held' \in Nat /\ held' + (IF new.pc = "book" THEN new.qty ELSE 0) <= held + Sold(x)
    <3> HIDE DEF new
    <3> QED
      BY <1>0, <2>1, <2>2, <2>3
  <2>5. new.full => new.qty >= amount
    BY <2>1, <2>2 DEF IInv, RowCovers
  <2> HIDE DEF new
  <2> QED
    BY <1>0, <2>1, <2>2, <2>4, <2>5, StepKeeps
<1>5. CASE Book(x)
  BY <1>5, BookKeeps
<1>6. ~PaperFill(x) /\ ~PaperRefused(x)
  BY DEF PaperFill, PaperRefused
<1> QED
  BY <1>1, <1>2, <1>3, <1>4, <1>5, <1>6 DEF Proceed

\* The invariant speaks of the wallet, which exists only when trading is live.
LiveInv == Live => IInv

LEMMA NextIInv == Live /\ IInv /\ [ExitNext]_exitVars => IInv'
<1> SUFFICES ASSUME Live, IInv, [ExitNext]_exitVars PROVE IInv'
  OBVIOUS
<1>0. held \in Nat /\ source \in {"none", "half", "all"}
  BY DEF IInv, ExitsTyped
<1>1. ASSUME ex' = ex, amount' = amount, held' = held, source' \in {"none", "half", "all"}
      PROVE IInv'
  BY <1>1 DEF IInv, ExitsTyped, RowCovers, Sold
<1>2. CASE \/ Operate \/ EmergencyStop \/ PriceMoves \/ SourceExpires \/ UNCHANGED exitVars
           \/ \E fraction \in {"half", "all"} : SourceSells(fraction)
           \/ \E k \in Keys : ClaimExpires(k)
  <2>1. ex' = ex /\ amount' = amount /\ held' = held /\ source' \in {"none", "half", "all"}
    BY <1>0, <1>2 DEF Operate, EmergencyStop, PriceMoves, SourceExpires, SourceSells, ClaimExpires,
                      exitVars, position, market
  <2> QED
    BY <1>1, <2>1
<1>3. CASE Evaluate \/ JobStart
  BY <1>3, EvaluateKeeps, JobStartKeeps
<1>4. CASE ClearSource
  <2>1. ex' = [ex EXCEPT ![Service] = NoExit] /\ amount' = amount /\ held' = held
        /\ source' = "none"
    BY <1>4 DEF ClearSource, position
  <2>2. held' \in Nat /\ held' <= held
    BY <1>0, <2>1
  <2> QED
    BY <2>1, <2>2, EndKeeps, ExitersAre
<1>5. ASSUME NEW x \in Exiters, Proceed(x) PROVE IInv'
  BY <1>5, ProceedKeeps
<1>6. ASSUME NEW x \in Exiters, Stopped(x) PROVE IInv'
  <2>1. /\ ex' = [ex EXCEPT ![x] = NoExit] /\ amount' = amount /\ source' = source
        /\ held' \in {held, held - ex[x].qty} \cap Nat
    BY <1>0, <1>6 DEF Stopped, market
  <2>2. ex[x].qty \in Nat
    BY DEF IInv, ExitsTyped, Exit
  <2>3. held' \in Nat /\ held' <= held
    BY <1>0, <2>1, <2>2
  <2> QED
    BY <1>0, <2>1, <2>3, EndKeeps
<1> QED
  BY <1>2, <1>3, <1>4, <1>5, <1>6, ExitersAre DEF ExitNext, Dies, CutShort

\* The executor is built once: no step changes it.
LEMMA ExecutorIsFixed == [ExitNext]_exitVars => executor' = executor
  BY DEF ExitNext, exitVars, market, Operate, EmergencyStop, PriceMoves, SourceSells, SourceExpires,
         Evaluate, JobStart, ClearSource, Proceed, Stopped, Dies, CutShort, ClaimExpires, Claim,
         Duplicate, Prepared, Refused, Sign, SignerRefuses, Raised, Fill, Reverted, Unknown,
         PaperFill, PaperRefused, Book, Unbooked

\* In live mode no token is ever left in the wallet that the position's row no
\* longer shows, for any position size and whatever the chain, the signer,
\* deaths and a concurrent emergency job do.
THEOREM NoTokenStranded == ExitSpec => []NothingStranded
<1>1. ExitInit => LiveInv
  BY InitIInv DEF LiveInv
<1>2. LiveInv /\ [ExitNext]_exitVars => LiveInv'
  BY NextIInv, ExecutorIsFixed DEF LiveInv, Live
<1>3. LiveInv => NothingStranded
  <2> SUFFICES ASSUME IInv PROVE held <= amount
    BY DEF LiveInv, NothingStranded
  <2>1. Sold(Service) \in Nat /\ Sold(Job) \in Nat
    BY SoldType, ExitersAre DEF IInv
  <2> QED
    BY <2>1 DEF IInv, ExitsTyped, RowCovers
<1> QED
  BY <1>1, <1>2, <1>3, PTL DEF ExitSpec

-----------------------------------------------------------------------------
(* Types, live or on paper *)

\* What x does, or is made to do, once it is under way.
Steps(x) == Proceed(x) \/ Dies(x) \/ (x = Job /\ CutShort)

\* What has neither amounts nor keys in it.
FlagsTyped ==
    /\ KeysTypeOK
    /\ executor \in Executor /\ falling \in BOOLEAN /\ source \in {"none", "half", "all"}
    /\ job \in {"none", "queued", "running", "done", "cut"} /\ alert \in BOOLEAN
    /\ lost \in BOOLEAN

\* An order under way has a reason and sells part of what was bought: its key
\* is one of Keys.
Busy(exit) == exit.pc \notin {"idle", "clear"}
WellMade(exit) ==
    exit \in Exit /\ (Busy(exit) => exit.why # "none" /\ exit.qty \in 1 .. Units)

OrdersTyped == ex \in [Exiters -> Exit] /\ \A x \in Exiters : WellMade(ex[x])

\* The row never shows more than was bought, which bounds what is ordered.
AmountsTyped ==
    /\ amount \in Int /\ amount <= Units
    /\ held \in 0 .. Units
    /\ deaths \in 0 .. MaxDeaths

IdemTyped == idem \in [Keys -> {"free", "pending", "signed"}]

TypeInv == FlagsTyped /\ OrdersTyped /\ AmountsTyped /\ IdemTyped

LEMMA InitTypeInv == ExitInit => TypeInv
<1> SUFFICES ASSUME ExitInit PROVE TypeInv
  OBVIOUS
<1>1. FlagsTyped
  BY ExitAssumption DEF ExitInit, FlagsTyped, KeysTypeOK, SystemState
<1>2. OrdersTyped
  BY NoExitTyped DEF ExitInit, OrdersTyped, WellMade, Busy
<1>3. AmountsTyped
  BY ExitAssumption DEF ExitInit, AmountsTyped
<1>4. IdemTyped
  BY DEF ExitInit, IdemTyped
<1> QED
  BY <1>1, <1>2, <1>3, <1>4 DEF TypeInv

\* The key of an order under way exists.
LEMMA KeyExists == OrdersTyped => \A x \in Exiters : Busy(ex[x]) => Key(x) \in Keys
<1> SUFFICES ASSUME OrdersTyped, NEW x \in Exiters, Busy(ex[x]) PROVE Key(x) \in Keys
  OBVIOUS
<1>1. ex[x].why \in {"stop_loss", "mirror", "emergency"} /\ ex[x].qty \in 1 .. Units
  BY DEF OrdersTyped, WellMade, Exit
<1> QED
  BY <1>1 DEF Key, Keys

\* Giving one exiter a well-made exit.
LEMMA OneOrder ==
    ASSUME OrdersTyped, NEW x \in Exiters, NEW new, WellMade(new), ex' = [ex EXCEPT ![x] = new]
    PROVE  OrdersTyped'
<1>1. new \in Exit
  BY DEF WellMade
<1>2. ex' \in [Exiters -> Exit] /\ ex'[x] = new /\ \A y \in Exiters : y # x => ex'[y] = ex[y]
  BY <1>1 DEF OrdersTyped
<1>3. \A y \in Exiters : WellMade(ex'[y])
  BY <1>2 DEF OrdersTyped
<1> QED
  BY <1>2, <1>3 DEF OrdersTyped

\* Dropping an exit, or moving one that is under way, leaves it well made.
LEMMA MovedOrder ==
    ASSUME OrdersTyped, NEW x \in Exiters,
           \/ ex' = [ex EXCEPT ![x] = NoExit]
           \/ /\ Busy(ex[x])
              /\ \E pc \in {"prepare", "sign", "sent", "book", "clear"} : Move(x, pc)
    PROVE  OrdersTyped'
<1>1. CASE ex' = [ex EXCEPT ![x] = NoExit]
  <2>1. WellMade(NoExit)
    BY NoExitTyped DEF WellMade, Busy
  <2> QED
    BY <1>1, <2>1, OneOrder
<1>2. ASSUME Busy(ex[x]), NEW pc \in {"prepare", "sign", "sent", "book", "clear"}, Move(x, pc)
      PROVE  OrdersTyped'
  <2> DEFINE new == [ex[x] EXCEPT !.pc = pc]
  <2>1. WellMade(ex[x])
    BY DEF OrdersTyped
  <2>2. /\ new \in Exit /\ new.why = ex[x].why /\ new.qty = ex[x].qty
    BY <2>1 DEF WellMade, Exit
  <2>3. WellMade(new)
    BY <1>2, <2>1, <2>2 DEF WellMade
  <2>4. ex' = [ex EXCEPT ![x] = new]
    BY <1>2 DEF Move
  <2> QED
    BY <2>3, <2>4, OneOrder
<1> QED
  BY <1>1, <1>2

\* What the service and the job put into an order is part of the row.
LEMMA QuantityInRow ==
    ASSUME NEW why, amount \in Int, amount > 0
    PROVE  Quantity(why) \in Int /\ Quantity(why) <= amount
  BY DEF Quantity

LEMMA NextFlags == FlagsTyped /\ [ExitNext]_exitVars => FlagsTyped'
<1> SUFFICES ASSUME FlagsTyped, [ExitNext]_exitVars PROVE FlagsTyped'
  OBVIOUS
<1> USE DEF FlagsTyped, KeysTypeOK, market
<1>1. CASE Operate \/ EmergencyStop
  BY <1>1 DEF Operate, EmergencyStop, SetState, ClearLatch, SystemState
<1>2. CASE \/ PriceMoves \/ SourceExpires \/ Evaluate \/ ClearSource \/ UNCHANGED exitVars
           \/ \E fraction \in {"half", "all"} : SourceSells(fraction)
           \/ \E k \in Keys : ClaimExpires(k)
  BY <1>2 DEF PriceMoves, SourceExpires, SourceSells, Evaluate, ClearSource, ClaimExpires, exitVars
<1>3. CASE JobStart
  BY <1>3 DEF JobStart
<1>4. ASSUME NEW x \in Exiters, Steps(x) PROVE FlagsTyped'
  <2>1. UNCHANGED <<sys, kill, executor, falling, source>>
    BY <1>4 DEF Steps, Proceed, Dies, CutShort, Stopped, Claim, Duplicate, Prepared, Refused,
                Sign, SignerRefuses, Raised, Fill, Reverted, Unknown, PaperFill, PaperRefused,
                Book, Unbooked
  <2>2. job' \in {job, "done", "queued", "cut"} /\ alert' \in {alert, TRUE}
    BY <1>4 DEF Steps, Proceed, Dies, CutShort, Stopped, Claim, Duplicate, Prepared, Refused,
                Sign, SignerRefuses, Raised, Fill, Reverted, Unknown, PaperFill, PaperRefused,
                Book, Unbooked, Unsold
  <2>3. lost' \in BOOLEAN
    BY <1>4, Zenon
       DEF Steps, Proceed, Dies, CutShort, Stopped, Claim, Duplicate, Prepared, Refused,
           Sign, SignerRefuses, Raised, Fill, Reverted, Unknown, PaperFill, PaperRefused,
           Book, Unbooked
  <2> QED
    BY <2>1, <2>2, <2>3
<1> QED
  BY <1>1, <1>2, <1>3, <1>4, ExitersAre DEF ExitNext, Steps

LEMMA NextOrders == OrdersTyped /\ AmountsTyped /\ [ExitNext]_exitVars => OrdersTyped'
<1> SUFFICES ASSUME OrdersTyped, AmountsTyped, [ExitNext]_exitVars PROVE OrdersTyped'
  OBVIOUS
<1>0. amount \in Int /\ amount <= Units
  BY DEF AmountsTyped
<1>1. CASE ex' = ex
  BY <1>1 DEF OrdersTyped
<1>2. CASE Evaluate
  <2> DEFINE q == Quantity(Why)
             full == q = amount
             new == [pc |-> "claim", why |-> Why, qty |-> q, full |-> full]
  <2>1. q \in Int /\ q > 0 /\ q <= amount
    BY <1>0, <1>2, QuantityInRow DEF Evaluate
  <2>2. q \in 1 .. Units
    BY <1>0, <2>1, ExitAssumption
  <2>3. Why \in {"stop_loss", "mirror"}
    BY DEF Why
  <2>4. ex' = [ex EXCEPT ![Service] = new]
    BY <1>2 DEF Evaluate
  <2>5. full \in BOOLEAN
    OBVIOUS
  <2> HIDE DEF q, full
  <2>6. WellMade(new)
    BY <2>2, <2>3, <2>5 DEF WellMade, Busy, Exit
  <2> HIDE DEF new
  <2> QED
    BY <2>4, <2>6, OneOrder, ExitersAre
<1>3. CASE JobStart
  <2> DEFINE new == [pc |-> "claim", why |-> "emergency", qty |-> amount, full |-> TRUE]
  <2>1. CASE amount > 0
    <3>1. amount \in 1 .. Units
      BY <1>0, <2>1, ExitAssumption
    <3>2. WellMade(new)
      BY <3>1 DEF WellMade, Busy, Exit
    <3>3. ex' = [ex EXCEPT ![Job] = new]
      BY <1>3, <2>1 DEF JobStart
    <3> HIDE DEF new
    <3> QED
      BY <3>2, <3>3, OneOrder, ExitersAre
  <2>2. CASE ~(amount > 0)
    BY <1>1, <1>3, <2>2 DEF JobStart
  <2> QED
    BY <2>1, <2>2
<1>4. CASE ClearSource
  BY <1>4, MovedOrder, ExitersAre DEF ClearSource
<1>5. ASSUME NEW x \in Exiters, Steps(x) PROVE OrdersTyped'
  <2>1. \/ ex' = [ex EXCEPT ![x] = NoExit]
        \/ /\ Busy(ex[x])
           /\ \E pc \in {"prepare", "sign", "sent", "book", "clear"} : Move(x, pc)
    BY <1>5, ExitersAre
       DEF Steps, Proceed, Dies, CutShort, Stopped, Claim, Duplicate, Prepared, Refused,
           Sign, SignerRefuses, Raised, Fill, Reverted, Unknown, PaperFill, PaperRefused,
           Book, Unbooked, Unsold, Busy
  <2> QED
    BY <2>1, MovedOrder
<1>6. CASE \/ Operate \/ EmergencyStop \/ PriceMoves \/ SourceExpires \/ UNCHANGED exitVars
           \/ \E fraction \in {"half", "all"} : SourceSells(fraction)
           \/ \E k \in Keys : ClaimExpires(k)
  BY <1>1, <1>6 DEF Operate, EmergencyStop, PriceMoves, SourceExpires, SourceSells,
                    ClaimExpires, exitVars
<1> QED
  BY <1>2, <1>3, <1>4, <1>5, <1>6, ExitersAre DEF ExitNext, Steps

LEMMA NextAmounts == OrdersTyped /\ AmountsTyped /\ [ExitNext]_exitVars => AmountsTyped'
<1> SUFFICES ASSUME OrdersTyped, AmountsTyped, [ExitNext]_exitVars PROVE AmountsTyped'
  OBVIOUS
<1>0. /\ amount \in Int /\ amount <= Units /\ held \in 0 .. Units
      /\ deaths \in 0 .. MaxDeaths /\ Units \in Nat
  BY ExitAssumption DEF AmountsTyped
<1>1. CASE UNCHANGED <<amount, held, deaths>>
  BY <1>0, <1>1 DEF AmountsTyped
<1>2. ASSUME NEW x \in Exiters, Fill(x) \/ Unknown(x) PROVE AmountsTyped'
  <2>1. ex[x].qty \in Nat
    BY DEF OrdersTyped, Exit
  <2>2. /\ held' \in {held, held - ex[x].qty} /\ held' >= 0
        /\ amount' = amount /\ deaths' = deaths
    BY <1>0, <1>2, <2>1 DEF Fill, Unknown
  <2> QED
    BY <1>0, <2>1, <2>2 DEF AmountsTyped
<1>3. ASSUME NEW x \in Exiters, Book(x) PROVE AmountsTyped'
  <2>1. ex[x].qty \in Nat
    BY DEF OrdersTyped, Exit
  <2>2. amount' \in {0, amount - ex[x].qty} /\ held' = held /\ deaths' = deaths
    BY <1>3 DEF Book
  <2> QED
    BY <1>0, <2>1, <2>2 DEF AmountsTyped
<1>4. ASSUME NEW x \in Exiters, Dies(x) \/ CutShort PROVE AmountsTyped'
  <2>1. PICK y \in Exiters : Stopped(y)
    BY <1>4, ExitersAre DEF Dies, CutShort
  <2>2. ex[y].qty \in Nat
    BY DEF OrdersTyped, Exit
  <2>3. held' \in {held, held - ex[y].qty} /\ held' >= 0 /\ amount' = amount
    BY <1>0, <2>1, <2>2 DEF Stopped
  <2>4. deaths' \in 0 .. MaxDeaths
    BY <1>0, <1>4, ExitAssumption DEF Dies, CutShort
  <2> QED
    BY <1>0, <2>2, <2>3, <2>4 DEF AmountsTyped
<1>5. ASSUME NEW x \in Exiters, Proceed(x), ~Fill(x), ~Unknown(x), ~Book(x)
      PROVE  AmountsTyped'
  BY <1>1, <1>5 DEF Proceed, Claim, Duplicate, Prepared, Refused, Sign, SignerRefuses,
                    Raised, Reverted, PaperFill, PaperRefused, Unbooked, position
<1>6. CASE \/ Operate \/ EmergencyStop \/ PriceMoves \/ SourceExpires \/ UNCHANGED exitVars
           \/ \E fraction \in {"half", "all"} : SourceSells(fraction)
           \/ Evaluate \/ JobStart \/ ClearSource
           \/ \E k \in Keys : ClaimExpires(k)
  BY <1>1, <1>6 DEF Operate, EmergencyStop, PriceMoves, SourceExpires, SourceSells,
                    Evaluate, JobStart, ClearSource, ClaimExpires, exitVars, position
<1> QED
  BY <1>2, <1>3, <1>4, <1>5, <1>6, ExitersAre DEF ExitNext

LEMMA NextIdem == OrdersTyped /\ IdemTyped /\ [ExitNext]_exitVars => IdemTyped'
<1> SUFFICES ASSUME OrdersTyped, IdemTyped, [ExitNext]_exitVars PROVE IdemTyped'
  OBVIOUS
<1>1. ASSUME NEW k \in Keys, NEW state \in {"free", "pending", "signed"},
             idem' = [idem EXCEPT ![k] = state]
      PROVE  IdemTyped'
  BY <1>1 DEF IdemTyped
<1>2. ASSUME NEW x \in Exiters, Steps(x), idem' # idem PROVE IdemTyped'
  <2>1. Busy(ex[x]) /\ \E state \in {"free", "pending", "signed"} :
                          idem' = [idem EXCEPT ![Key(x)] = state]
    BY <1>2 DEF Steps, Proceed, Dies, CutShort, Stopped, Claim, Duplicate, Prepared, Refused,
                Sign, SignerRefuses, Raised, Fill, Reverted, Unknown, PaperFill, PaperRefused,
                Book, Unbooked, Busy
  <2>2. Key(x) \in Keys
    BY <2>1, KeyExists
  <2> QED
    BY <1>1, <2>1, <2>2
<1>3. ASSUME NEW k \in Keys, ClaimExpires(k) PROVE IdemTyped'
  BY <1>1, <1>3 DEF ClaimExpires
<1>4. CASE idem' = idem
  BY <1>4 DEF IdemTyped
<1>5. CASE \/ Operate \/ EmergencyStop \/ PriceMoves \/ SourceExpires \/ UNCHANGED exitVars
           \/ \E fraction \in {"half", "all"} : SourceSells(fraction)
           \/ Evaluate \/ JobStart \/ ClearSource
  BY <1>4, <1>5 DEF Operate, EmergencyStop, PriceMoves, SourceExpires, SourceSells,
                    Evaluate, JobStart, ClearSource, exitVars
<1> QED
  BY <1>2, <1>3, <1>4, <1>5, ExitersAre DEF ExitNext, Steps

\* Live or on paper, the row, the wallet, the idempotency keys and both exiters
\* keep their types: no order is ever made out for nothing or for more than
\* was bought, and the wallet is never overdrawn.
THEOREM ExitLoopTypeOK == ExitSpec => []ExitTypeOK
<1>1. TypeInv => ExitTypeOK
  <2> SUFFICES ASSUME TypeInv PROVE ExitTypeOK
    OBVIOUS
  <2>1. \A x \in Exiters : /\ ex[x].pc \in {"idle", "claim", "prepare", "sign", "sent", "book",
                                            "clear"}
                           /\ ex[x].pc \notin {"idle", "clear"} => Key(x) \in Keys
    BY KeyExists DEF TypeInv, OrdersTyped, Exit, Busy
  <2> QED
    BY <2>1 DEF TypeInv, FlagsTyped, AmountsTyped, IdemTyped, ExitTypeOK
<1>2. TypeInv /\ [ExitNext]_exitVars => TypeInv'
  BY NextFlags, NextOrders, NextAmounts, NextIdem DEF TypeInv
<1> QED
  BY <1>1, <1>2, InitTypeInv, PTL DEF ExitSpec

-----------------------------------------------------------------------------
(* The emergency job *)

\* The job sells all of the row, so that booking its sale closes it.
JobSellsAll == ex[Job].pc # "idle" => ex[Job].full

LEMMA NextJobSellsAll == OrdersTyped /\ JobSellsAll /\ [ExitNext]_exitVars => JobSellsAll'
<1> SUFFICES ASSUME OrdersTyped, JobSellsAll, [ExitNext]_exitVars PROVE JobSellsAll'
  OBVIOUS
<1>0. ex \in [Exiters -> Exit] /\ Service \in Exiters /\ Job \in Exiters /\ Service # Job
      /\ NoExit.pc = "idle"
  BY ExitersAre, NoExitTyped DEF OrdersTyped
<1>1. CASE ex' = ex
  BY <1>1 DEF JobSellsAll
<1>2. CASE Evaluate \/ ClearSource
  BY <1>0, <1>2 DEF Evaluate, ClearSource, JobSellsAll
<1>3. CASE JobStart
  BY <1>0, <1>3 DEF JobStart, JobSellsAll
<1>4. ASSUME NEW x \in Exiters, Steps(x) PROVE JobSellsAll'
  <2>1. \/ ex' = [ex EXCEPT ![x] = NoExit]
        \/ ex[x].pc # "idle" /\ \E pc \in {"prepare", "sign", "sent", "book", "clear"} : Move(x, pc)
    BY <1>4, ExitersAre
       DEF Steps, Proceed, Dies, CutShort, Stopped, Claim, Duplicate, Prepared, Refused,
           Sign, SignerRefuses, Raised, Fill, Reverted, Unknown, PaperFill, PaperRefused, Book,
           Unbooked, Unsold
  <2> QED
    BY <1>0, <2>1 DEF Move, Exit, JobSellsAll
<1>5. CASE \/ Operate \/ EmergencyStop \/ PriceMoves \/ SourceExpires \/ UNCHANGED exitVars
           \/ \E fraction \in {"half", "all"} : SourceSells(fraction)
           \/ \E k \in Keys : ClaimExpires(k)
  BY <1>1, <1>5 DEF Operate, EmergencyStop, PriceMoves, SourceExpires, SourceSells,
                    ClaimExpires, exitVars
<1> QED
  BY <1>2, <1>3, <1>4, <1>5, ExitersAre DEF ExitNext, Steps

\* A row that is closed stays closed, an alert raised stays raised, and the job
\* ends in no other way than by closing the row or raising the alert.
LEMMA NextAnswered ==
    TypeInv /\ JobSellsAll /\ EmergencyIsAnswered /\ [ExitNext]_exitVars => EmergencyIsAnswered'
<1> SUFFICES ASSUME TypeInv, JobSellsAll, EmergencyIsAnswered, [ExitNext]_exitVars, job' = "done"
             PROVE  amount' <= 0 \/ alert'
  BY DEF EmergencyIsAnswered
<1>0. amount \in Int /\ \A x \in Exiters : ex[x].qty \in Nat
  BY DEF TypeInv, AmountsTyped, OrdersTyped, Exit
<1>1. CASE UNCHANGED <<amount, alert, job>>
  BY <1>1 DEF EmergencyIsAnswered
<1>2. CASE JobStart
  BY <1>0, <1>2 DEF JobStart, position
<1>3. ASSUME NEW x \in Exiters, Book(x) PROVE amount' <= 0 \/ alert'
  <2>1. CASE x = Job
    BY <1>3, <2>1 DEF Book, JobSellsAll
  <2>2. CASE x # Job
    <3>1. job' = job /\ alert' = alert /\ amount' \in {0, amount - ex[x].qty}
      BY <1>3, <2>2 DEF Book
    <3> QED
      BY <1>0, <3>1 DEF EmergencyIsAnswered
  <2> QED
    BY <2>1, <2>2
<1>4. ASSUME NEW x \in Exiters, Proceed(x), ~Book(x) PROVE amount' <= 0 \/ alert'
  <2>1. amount' = amount /\ ((job' = job /\ alert' = alert) \/ alert' = TRUE)
    BY <1>4 DEF Proceed, Claim, Duplicate, Prepared, Refused, Sign, SignerRefuses, Raised, Fill,
                Reverted, Unknown, PaperFill, PaperRefused, Unbooked, Unsold, position
  <2> QED
    BY <2>1 DEF EmergencyIsAnswered
<1>5. ASSUME NEW x \in Exiters, Dies(x) \/ CutShort PROVE amount' <= 0 \/ alert'
  BY <1>1, <1>5 DEF Dies, CutShort, Stopped
<1>6. CASE \/ Operate \/ EmergencyStop \/ PriceMoves \/ SourceExpires \/ UNCHANGED exitVars
           \/ \E fraction \in {"half", "all"} : SourceSells(fraction)
           \/ Evaluate \/ ClearSource
           \/ \E k \in Keys : ClaimExpires(k)
  BY <1>1, <1>6 DEF Operate, EmergencyStop, PriceMoves, SourceExpires, SourceSells,
                    Evaluate, ClearSource, ClaimExpires, exitVars, position
<1> QED
  BY <1>2, <1>3, <1>4, <1>5, <1>6, ExitersAre DEF ExitNext

\* An emergency job that has run to its end has closed the position or raised the
\* alert, whatever the executor, the signer and the kill switch made of its
\* sale and however often it died and was run again.
THEOREM EmergencyAnswered == ExitSpec => []EmergencyIsAnswered
<1>1. ExitInit => TypeInv /\ JobSellsAll /\ EmergencyIsAnswered
  BY InitTypeInv, NoExitTyped, ExitersAre DEF ExitInit, JobSellsAll, EmergencyIsAnswered
<1>2. /\ TypeInv /\ JobSellsAll /\ EmergencyIsAnswered /\ [ExitNext]_exitVars
      => (TypeInv /\ JobSellsAll /\ EmergencyIsAnswered)'
  BY NextFlags, NextOrders, NextAmounts, NextIdem, NextJobSellsAll, NextAnswered DEF TypeInv
<1> QED
  BY <1>1, <1>2, PTL DEF ExitSpec

=============================================================================
