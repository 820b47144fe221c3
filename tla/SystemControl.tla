---------------------------- MODULE SystemControl ----------------------------
(***************************************************************************)
(* Emergency controls.  Operators (API requests and CLI invocations) run   *)
(* concurrently; a command is a sequence of Redis accesses, each a step of *)
(* its own.  Spenders are the RESERVE script, which sees both keys at      *)
(* once, and signing requests, which read the keys one after the other.    *)
(***************************************************************************)
EXTENDS SystemKeys

CONSTANTS
    Operators,   \* concurrent operator commands
    Signings     \* concurrent signing requests

VARIABLES
    op,         \* op[o]: the command o is running and its program counter
    signing,    \* signing[q]: where signing request q is and what it has read
    killDone,   \* ghost: a kill has returned and no clear_kill came after it
    armed,      \* ghost: since clear_kill RUNNING was written by a "fresh" command,
                \*   begun after the kill cleared, by a "stale" one, or by "none"
    overspent   \* ghost: something was spent although killDone held throughout

ghosts == <<killDone, armed, overspent>>

controlVars == <<sys, kill, op, signing, killDone, armed, overspent>>

IdleOp == [pc |-> "idle", fresh |-> FALSE, latch |-> FALSE]

IdleReq == [pc |-> "idle", seen |-> Absent, latch |-> FALSE, afterKill |-> FALSE]

Op == [pc : {"idle", "get_state", "set_running", "kill_state"},
       fresh : BOOLEAN, latch : BOOLEAN]

Req == [pc : {"idle", "daemon_kill", "enforce_state", "enforce_kill", "signed", "refused"},
        seen : SystemState \cup {Absent}, latch : BOOLEAN, afterKill : BOOLEAN]

\* The controls' variables and ghosts stay in their types.
ControlTypeOK ==
    /\ KeysTypeOK
    /\ op \in [Operators -> Op]
    /\ signing \in [Signings -> Req]
    /\ killDone \in BOOLEAN /\ armed \in {"none", "stale", "fresh"} /\ overspent \in BOOLEAN

ControlInit ==
    /\ KeysInit
    /\ op = [o \in Operators |-> IdleOp]
    /\ signing = [q \in Signings |-> IdleReq]
    /\ killDone = FALSE /\ armed = "none" /\ overspent = FALSE

-----------------------------------------------------------------------------
(* Operator commands *)

NoCommand(o) == op[o].pc = "idle"

\* SystemControl.start and POST /system/resume begin with get(): first the
\* latch, then (in GetState) the state string.
GetLatch(o) ==
    /\ NoCommand(o)
    /\ op' = [op EXCEPT ![o] = IF kill THEN IdleOp
                               ELSE [pc |-> "get_state", fresh |-> TRUE, latch |-> kill]]
    /\ UNCHANGED <<keyVars, signing, ghosts>>

\* ... and refuse when the effective state is KILLED.
GetState(o) ==
    /\ op[o].pc = "get_state"
    /\ op' = [op EXCEPT ![o] = IF EffectiveState(op[o].latch, sys) = "killed" THEN IdleOp
                               ELSE [op[o] EXCEPT !.pc = "set_running"]]
    /\ UNCHANGED <<keyVars, signing, ghosts>>

SetRunning(o) ==
    /\ op[o].pc = "set_running"
    /\ SetState("running")
    /\ armed' = IF op[o].fresh THEN "fresh" ELSE "stale"
    /\ op' = [op EXCEPT ![o] = IdleOp]
    /\ UNCHANGED <<signing, killDone, overspent>>

\* The CLI's resume writes RUNNING without looking.
CliResume(o) ==
    /\ NoCommand(o)
    /\ SetState("running")
    /\ armed' = "fresh"
    /\ UNCHANGED <<op, signing, killDone, overspent>>

\* stop and both pauses are one unconditional write.
StopOrPause(o) ==
    /\ NoCommand(o)
    /\ \E state \in {"stopped", "soft_paused", "hard_paused"} : SetState(state)
    /\ UNCHANGED <<op, signing, ghosts>>

KillLatch(o) ==
    /\ NoCommand(o)
    /\ LatchKill
    /\ op' = [op EXCEPT ![o] = [pc |-> "kill_state", fresh |-> TRUE, latch |-> FALSE]]
    /\ UNCHANGED <<signing, ghosts>>

\* The kill is complete only if its latch was not cleared between the writes.
KillState(o) ==
    /\ op[o].pc = "kill_state"
    /\ SetState("killed")
    /\ killDone' = (killDone \/ op[o].fresh)
    /\ op' = [op EXCEPT ![o] = IdleOp]
    /\ UNCHANGED <<signing, armed, overspent>>

ClearKill(o) ==
    /\ NoCommand(o)
    /\ ClearLatch
    /\ op' = [x \in Operators |-> [op[x] EXCEPT !.fresh = @ /\ ~kill]]
    /\ signing' = [q \in Signings |-> [signing[q] EXCEPT !.afterKill = FALSE]]
    /\ killDone' = FALSE /\ armed' = "none"
    /\ UNCHANGED overspent

\* A killed process leaves the command half done.
OperatorCrash(o) ==
    /\ ~NoCommand(o)
    /\ op' = [op EXCEPT ![o] = IdleOp]
    /\ UNCHANGED <<keyVars, signing, ghosts>>

-----------------------------------------------------------------------------
(* Spending *)

\* A reservation is granted (every other check of RESERVE passing).
Grant ==
    /\ EntriesOpen
    /\ overspent' = (overspent \/ killDone)
    /\ UNCHANGED <<keyVars, op, signing, killDone, armed>>

\* SignerService._check, first read.
DaemonState(q) ==
    /\ signing[q].pc = "idle"
    /\ signing' = [signing EXCEPT ![q] =
                  [pc |-> IF sys \in {"killed", "hard_paused"} THEN "refused" ELSE "daemon_kill",
                   seen |-> sys, latch |-> FALSE, afterKill |-> killDone]]
    /\ UNCHANGED <<keyVars, op, ghosts>>

\* SignerService._check, second read.
DaemonKill(q) ==
    /\ signing[q].pc = "daemon_kill"
    /\ signing' = [signing EXCEPT ![q].pc = IF kill THEN "refused" ELSE "enforce_state",
                          ![q].latch = kill]
    /\ UNCHANGED <<keyVars, op, ghosts>>

\* LocalSigner._enforce, first read: behind the daemon, or called directly
\* when the keypair is in the environment.
EnforceState(q) ==
    /\ \/ /\ signing[q].pc = "enforce_state"
          /\ signing' = [signing EXCEPT ![q].pc = "enforce_kill", ![q].seen = sys]
       \/ /\ signing[q].pc = "idle"
          /\ signing' = [signing EXCEPT ![q] = [pc |-> "enforce_kill", seen |-> sys,
                                        latch |-> FALSE, afterKill |-> killDone]]
    /\ UNCHANGED <<keyVars, op, ghosts>>

SignableState == {Absent, "running", "soft_paused"}

\* LocalSigner._enforce, second read and verdict.
EnforceKill(q) ==
    /\ signing[q].pc = "enforce_kill"
    /\ LET granted == ~kill /\ signing[q].seen \in SignableState IN
       /\ signing' = [signing EXCEPT ![q].pc = IF granted THEN "signed" ELSE "refused",
                             ![q].latch = kill]
       /\ overspent' = (overspent \/ (granted /\ signing[q].afterKill))
    /\ UNCHANGED <<keyVars, op, killDone, armed>>

\* The answer is delivered and the connection closed.
Answered(q) ==
    /\ signing[q].pc \in {"signed", "refused"}
    /\ signing' = [signing EXCEPT ![q] = IdleReq]
    /\ UNCHANGED <<keyVars, op, ghosts>>

ControlNext ==
    \/ \E o \in Operators :
          \/ GetLatch(o) \/ GetState(o) \/ SetRunning(o) \/ CliResume(o)
          \/ StopOrPause(o) \/ KillLatch(o) \/ KillState(o) \/ ClearKill(o)
          \/ OperatorCrash(o)
    \/ Grant
    \/ \E q \in Signings :
          \/ DaemonState(q) \/ DaemonKill(q) \/ EnforceState(q) \/ EnforceKill(q)
          \/ Answered(q)

ControlSpec == ControlInit /\ [][ControlNext]_controlVars

-----------------------------------------------------------------------------
(* Properties *)

\* Once kill() has returned, and until clear_kill, no reservation is granted
\* and no transaction whose check began after that is signed, whatever
\* starts, resumes, pauses and half-done kills interleave: the latch, not the
\* state string they overwrite, is what RESERVE and the signer obey.
NoSpendAfterKill == ~overspent

\* After clear_kill only a command that writes RUNNING reopens entries: the
\* clearing itself does not, whatever string half-done kills, pauses and
\* crashes had left behind.
ReopenedByCommand == EntriesOpen => armed # "none"

=============================================================================
