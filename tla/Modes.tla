-------------------------------- MODULE Modes --------------------------------
(***************************************************************************)
(* Mode progression: backtest, paper, shadow, live.  Each process holds    *)
(* its own settings.mode; asm:mode in Redis is what a service loads when   *)
(* it starts.  API requests and the worker's hourly auto_advance change    *)
(* the mode in several awaits; the decision service opens positions in its *)
(* mode and the position service closes those of its mode.                 *)
(***************************************************************************)
EXTENDS Integers, FiniteSets

CONSTANTS
    ApiRequests,   \* concurrent requests of the API process
    InitialMode,   \* ASM_INITIAL_MODE, the default of every process
    MaxOpen        \* bound on the open positions of a mode

Mode == {"backtest", "paper", "shadow", "live"}

ASSUME ModesAssumption == /\ "worker" \notin ApiRequests
                          /\ InitialMode \in Mode /\ MaxOpen \in Nat

Changers == ApiRequests \cup {"worker"}
Process == {"api", "worker", "decision", "position"}
ProcessOf(r) == IF r = "worker" THEN "worker" ELSE "api"

VARIABLES
    stored,     \* asm:mode, "none" before the first change
    mode,       \* mode[p]: settings.mode of process p
    open,       \* open[m]: positions open, reducing or pending in mode m
    change,     \* change[r]: a change of mode between its awaits
    excused,    \* ghost: modes entered or left behind in a race, see below
    chosen      \* ghost: the stage whose gates let POST /mode/live through

modesVars == <<stored, mode, open, change, excused, chosen>>

Rank == [backtest |-> 0, paper |-> 1, shadow |-> 2, live |-> 3]
NoChange == [pc |-> "idle", cmd |-> "none", from |-> InitialMode,
         target |-> InitialMode, counted |-> InitialMode]

\* What a service that starts now would run in.
Loaded == IF stored = "none" THEN InitialMode ELSE stored

ModesTypeOK ==
    /\ stored \in Mode \cup {"none"}
    /\ mode \in [Process -> Mode]
    /\ open \in [Mode -> 0..MaxOpen]
    /\ change \in [Changers -> [pc : {"idle", "gates", "count", "switch", "persist"},
                             cmd : {"none", "advance", "live", "set"},
                             from : Mode, target : Mode, counted : Mode]]
    /\ excused \subseteq Mode
    /\ chosen \in Mode \cup {"none"}

ModesInit ==
    /\ stored = "none"
    /\ mode = [p \in Process |-> InitialMode]
    /\ open = [m \in Mode |-> 0]
    /\ change = [r \in Changers |-> NoChange]
    /\ excused = {} /\ chosen = "none"

-----------------------------------------------------------------------------
(* Changing the mode *)

\* readiness: the next stage of each stage.
NextStage == [backtest |-> "paper", paper |-> "shadow", shadow |-> "live"]

\* Mutant: the stage above is taken whatever it is.
AdvanceModeAnywhere(r, cmd) ==
    LET from == mode[ProcessOf(r)] IN
    /\ change[r].pc = "idle"
    /\ \/ cmd = "live" /\ r \in ApiRequests
       \/ cmd = "advance" /\ from # "live"
    /\ change' = [change EXCEPT ![r] = [NoChange EXCEPT
             !.pc = "gates", !.cmd = cmd, !.from = from,
             !.target = IF cmd = "live" THEN "live" ELSE NextStage[from]]]
    /\ UNCHANGED <<stored, mode, open, excused, chosen>>

\* POST /mode/advance, POST /mode/live (with its phrase) and auto_advance read
\* the process's mode; without an explicit target LIVE is refused.
AdvanceMode(r, cmd) ==
    LET from == mode[ProcessOf(r)] IN
    /\ change[r].pc = "idle"
    /\ \/ cmd = "live" /\ r \in ApiRequests
       \/ cmd = "advance" /\ from \notin {"shadow", "live"}
    /\ change' = [change EXCEPT ![r] = [NoChange EXCEPT
             !.pc = "gates", !.cmd = cmd, !.from = from,
             !.target = IF cmd = "live" THEN "live" ELSE NextStage[from]]]
    /\ UNCHANGED <<stored, mode, open, excused, chosen>>

\* POST /mode/set: only down, or to the same stage.
SetMode(r, target) ==
    /\ r \in ApiRequests /\ change[r].pc = "idle"
    /\ Rank[target] <= Rank[mode["api"]]
    /\ change' = [change EXCEPT ![r] = [NoChange EXCEPT
             !.pc = "count", !.cmd = "set", !.target = target]]
    /\ UNCHANGED <<stored, mode, open, excused, chosen>>

\* The gates of the stage the request began in: paper and shadow may fail.
Gates(r) ==
    /\ change[r].pc = "gates"
    /\ \/ change' = [change EXCEPT ![r].pc = "count"]
       \/ change[r].from \in {"paper", "shadow"} /\ change' = [change EXCEPT ![r] = NoChange]
    /\ UNCHANGED <<stored, mode, open, excused, chosen>>

\* Mutant: the positions are not counted.
CountOpenSkipped(r) ==
    /\ change[r].pc = "count"
    /\ change' = [change EXCEPT ![r].pc = "switch", ![r].counted = mode[ProcessOf(r)]]
    /\ UNCHANGED <<stored, mode, open, excused, chosen>>

\* open_positions(settings.mode) must be zero.
CountOpen(r) ==
    /\ change[r].pc = "count"
    /\ LET m == mode[ProcessOf(r)] IN
       change' = IF open[m] > 0 THEN [change EXCEPT ![r] = NoChange]
              ELSE [change EXCEPT ![r].pc = "switch", ![r].counted = m]
    /\ UNCHANGED <<stored, mode, open, excused, chosen>>

\* settings.mode = target, in this process.
Switch(r) ==
    /\ change[r].pc = "switch"
    /\ mode' = [mode EXCEPT ![ProcessOf(r)] = change[r].target]
    /\ change' = [change EXCEPT ![r].pc = "persist"]
    /\ chosen' = IF change[r].cmd = "live" /\ mode[ProcessOf(r)] # "live"
                 THEN change[r].from ELSE chosen
    /\ UNCHANGED <<stored, open, excused>>

\* _persist_mode.  The positions counted were those of the process's mode: when
\* the stored mode is another one, its positions were never looked at.
Persist(r) ==
    /\ change[r].pc = "persist"
    /\ stored' = change[r].target
    /\ change' = [change EXCEPT ![r] = NoChange]
    /\ excused' = IF open[Loaded] = 0 \/ Loaded \in {change[r].counted, change[r].target}
                  THEN excused ELSE excused \cup {Loaded}
    /\ UNCHANGED <<mode, open, chosen>>

\* A service starts or restarts and calls load_mode; the worker does not call it.
Start(p) ==
    /\ mode' = [mode EXCEPT ![p] = IF p = "worker" THEN InitialMode ELSE Loaded]
    /\ change' = [r \in Changers |-> IF ProcessOf(r) = p THEN NoChange ELSE change[r]]
    /\ UNCHANGED <<stored, open, excused, chosen>>

-----------------------------------------------------------------------------
(* Trading *)

\* A change of mode has counted and not yet stored its result.
Changing == \E r \in Changers : change[r].pc \in {"switch", "persist"}

\* The decision service opens a position in its own mode.
OpenPosition ==
    LET m == mode["decision"] IN
    /\ open[m] < MaxOpen
    /\ open' = [open EXCEPT ![m] = @ + 1]
    /\ excused' = IF Changing \/ m # Loaded THEN excused \cup {m} ELSE excused
    /\ UNCHANGED <<stored, mode, change, chosen>>

\* The position service closes one of its own mode.
ClosePosition ==
    LET m == mode["position"] IN
    /\ open[m] > 0
    /\ open' = [open EXCEPT ![m] = @ - 1]
    /\ excused' = IF open[m] = 1 THEN excused \ {m} ELSE excused
    /\ UNCHANGED <<stored, mode, change, chosen>>

ModesNext ==
    \/ \E r \in Changers :
          \/ \E cmd \in {"advance", "live"} : AdvanceMode(r, cmd)
          \/ \E m \in Mode : SetMode(r, m)
          \/ Gates(r) \/ CountOpen(r) \/ Switch(r) \/ Persist(r)
    \/ \E p \in Process : Start(p)
    \/ OpenPosition \/ ClosePosition

ModesSpec == ModesInit /\ [][ModesNext]_modesVars

-----------------------------------------------------------------------------
(* Properties *)

\* "Nothing automatic ever reaches live": no process runs live, and live is not
\* stored, before POST /mode/live has been used; auto_advance, /mode/advance and
\* /mode/set cannot bring it about between them.
LiveIsChosen ==
    stored = "live" \/ (\E p \in Process : mode[p] = "live") => chosen # "none"

\* "No stage change can strand open positions": every open position is of the
\* mode the position service loads when it starts, unless it was opened while a
\* change was under way or by a service still in another mode, or the change was
\* made by a process whose own mode was not the stored one.
StrandedOnlyByRace == \A m \in Mode \ excused : open[m] > 0 => m = Loaded

=============================================================================
