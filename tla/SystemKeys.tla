----------------------------- MODULE SystemKeys -----------------------------
(***************************************************************************)
(* The two Redis keys every component of the system consults before it     *)
(* spends: the system-state string and the kill-switch latch.  The         *)
(* services, the API, the CLI and the signer share them and nothing else   *)
(* synchronises their accesses: each operator below is ONE Redis command   *)
(* (or one MULTI/EXEC pipeline).                                           *)
(***************************************************************************)

VARIABLES
    sys,    \* keys.SYSTEM_STATE, Absent before the first write
    kill    \* TRUE when keys.KILL_SWITCH exists

keyVars == <<sys, kill>>

Absent == "absent"

SystemState == {"stopped", "running", "soft_paused", "hard_paused", "killed"}

KeysTypeOK == sys \in SystemState \cup {Absent} /\ kill \in BOOLEAN

KeysInit == sys = Absent /\ kill = FALSE

\* The effective state for a pair of values read from the two keys.
EffectiveState(latch, state) ==
    IF latch THEN "killed" ELSE IF state = Absent THEN "stopped" ELSE state

AllowsExits(state) == state # "killed"

\* Mutant: the gate trusts the state string alone.
EntriesOpenByStateOnly == sys = "running"

\* The system gate of the RESERVE script, which reads both keys atomically.
EntriesOpen == ~kill /\ sys = "running"

\* SystemControl.set
SetState(state) == sys' = state /\ UNCHANGED kill

\* First of the two writes of SystemControl.kill; the second is SetState.
LatchKill == kill' = TRUE /\ UNCHANGED sys

\* Mutant: clearing the latch leaves the state string as it is.
ClearLatchOnly == kill' = FALSE /\ UNCHANGED sys

\* SystemControl.clear_kill is a transaction.
ClearLatch == sys' = "hard_paused" /\ kill' = FALSE

=============================================================================
