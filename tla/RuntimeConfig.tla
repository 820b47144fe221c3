---------------------------- MODULE RuntimeConfig ----------------------------
(***************************************************************************)
(* Runtime settings.  The database row "runtime" is the record, a Redis    *)
(* key is the cache the other processes poll, and each process holds its   *)
(* own values in memory.  A save of the API is a read of the record, a     *)
(* write of the merged record and a write of the cache; several saves and  *)
(* resets may be under way at once, and each may fail between any two.     *)
(***************************************************************************)
EXTENDS Integers, FiniteSets

CONSTANTS
    Settings,       \* the tunable settings (FIELDS)
    RootKeys,   \* those of section "root"
    Values,     \* values within bounds, as coerce returns them
    Default,    \* the default built into the code
    Saves,      \* the changes a request may ask for
    Services,   \* the processes that poll the cache
    Once,       \* those that read the settings when they start and never again
    Requests    \* requests of the API process

ASSUME ConfigAssumption ==
    /\ RootKeys \subseteq Settings /\ Default \in Values
    /\ Saves \subseteq [Settings -> Values \cup {"unset"}]
    /\ "api" \notin Services \cup Once /\ Services \cap Once = {}

Holders == Services \cup Once \cup {"api"}

VARIABLES
    db,       \* the stored record: Unset where it has no entry
    cache,    \* asm:config:overrides
    live,     \* live[p][k]: the value process p works with
    req,      \* req[r]: a save or reset between its awaits
    acked,    \* ghost: what the last acknowledged request left for each key
    tried,    \* ghost: what requests that failed after that may have left
    raced     \* ghost: requests overlapped and no lone one has succeeded since

configVars == <<db, cache, live, req, acked, tried, raced>>

Unset == "unset"
Overrides == [Settings -> Values \cup {Unset}]
NoRecord == [k \in Settings |-> Unset]
Defaults == [k \in Settings |-> Default]

\* The entries of new over those of old.
Over(old, new) == [k \in Settings |-> IF new[k] = Unset THEN old[k] ELSE new[k]]

NoRequest == [pc |-> "idle", changes |-> NoRecord, merged |-> NoRecord, lone |-> FALSE]
Quiet == \A r \in Requests : req[r].pc = "idle"

\* A request begins; it is lone unless another is under way.
Begin(r, new) ==
    /\ req' = [q \in Requests |-> IF q = r THEN [new EXCEPT !.lone = Quiet]
                                 ELSE [req[q] EXCEPT !.lone = FALSE]]
    /\ raced' = (raced \/ ~Quiet)

ConfigTypeOK ==
    /\ db \in Overrides /\ cache \in Overrides /\ acked \in Overrides
    /\ live \in [Holders -> [Settings -> Values]]
    /\ req \in [Requests -> [pc : {"idle", "load", "save", "publish", "forget"},
                             changes : Overrides, merged : Overrides, lone : BOOLEAN]]
    /\ tried \in [Settings -> SUBSET (Values \cup {Unset})]
    /\ raced \in BOOLEAN

ConfigInit ==
    /\ db = NoRecord /\ cache = NoRecord /\ acked = NoRecord
    /\ live = [p \in Holders |-> Defaults]
    /\ req = [r \in Requests |-> NoRequest]
    /\ tried = [k \in Settings |-> {}]
    /\ raced = FALSE

-----------------------------------------------------------------------------
(* Saving *)

\* PUT /config: every value is validated before anything is stored.
Apply(r, changes) ==
    /\ req[r].pc = "idle" /\ changes # NoRecord
    /\ Begin(r, [NoRequest EXCEPT !.pc = "load", !.changes = changes])
    /\ UNCHANGED <<db, cache, live, acked, tried>>

\* load_stored: the database, or the cache when the database has no record or
\* cannot be read.
Stored == {IF db # NoRecord THEN db ELSE cache, cache}

\* Mutant: only the changes are saved, in place of the record.
LoadStoredForgets(r) ==
    /\ req[r].pc = "load"
    /\ req' = [req EXCEPT ![r].pc = "save", ![r].merged = req[r].changes]
    /\ UNCHANGED <<db, cache, live, acked, tried, raced>>

LoadStored(r) ==
    /\ req[r].pc = "load"
    /\ \E stored \in Stored :
          req' = [req EXCEPT ![r].pc = "save", ![r].merged = Over(stored, req[r].changes)]
    /\ UNCHANGED <<db, cache, live, acked, tried, raced>>

\* _save_stored: the commit ...
SaveRecord(r) ==
    /\ req[r].pc = "save"
    /\ db' = req[r].merged
    /\ req' = [req EXCEPT ![r].pc = "publish"]
    /\ UNCHANGED <<cache, live, acked, tried, raced>>

\* ... and the cache; then this process takes the values and answers.
Publish(r) ==
    /\ req[r].pc = "publish"
    /\ cache' = req[r].merged
    /\ live' = [live EXCEPT !["api"] = Over(@, req[r].changes)]
    /\ acked' = IF raced /\ req[r].lone THEN req[r].merged ELSE Over(acked, req[r].changes)
    /\ tried' = [k \in Settings |->
                    IF (raced /\ req[r].lone) \/ req[r].changes[k] # Unset THEN {} ELSE tried[k]]
    /\ raced' = (raced /\ ~req[r].lone)
    /\ req' = [req EXCEPT ![r] = NoRequest]
    /\ UNCHANGED db

\* POST /config/reset: the cache first ...
Reset(r) ==
    /\ req[r].pc = "idle"
    /\ cache' = NoRecord
    /\ Begin(r, [NoRequest EXCEPT !.pc = "forget"])
    /\ UNCHANGED <<db, live, acked, tried>>

\* ... then the record; this process returns to the defaults of the sections
\* risk and copyability.
Forget(r) ==
    /\ req[r].pc = "forget"
    /\ db' = NoRecord /\ acked' = NoRecord
    /\ tried' = [k \in Settings |-> {}]
    /\ live' = [live EXCEPT !["api"] =
                   [k \in Settings |-> IF k \in RootKeys THEN @[k] ELSE Default]]
    /\ raced' = (raced /\ ~req[r].lone)
    /\ req' = [req EXCEPT ![r] = NoRequest]
    /\ UNCHANGED cache

\* What a request that ends now without an answer may have left for setting k.
Left(r, k) ==
    CASE req[r].pc = "publish" /\ req[r].changes[k] # Unset -> {req[r].changes[k]}
      [] req[r].pc = "forget" -> {Unset}
      [] OTHER -> {}

\* A request raises: before its next write, or after it but with no answer.
RequestFails(r) ==
    /\ req[r].pc # "idle"
    /\ cache' \in IF req[r].pc = "publish" THEN {cache, req[r].merged} ELSE {cache}
    /\ db' \in IF req[r].pc = "forget" THEN {db, NoRecord} ELSE {db}
    /\ tried' = [k \in Settings |-> tried[k] \cup Left(r, k)]
    /\ req' = [req EXCEPT ![r] = NoRequest]
    /\ UNCHANGED <<live, acked, raced>>

-----------------------------------------------------------------------------
(* Reading *)

\* refresh: a service takes what the cache holds.
Refresh(p) ==
    /\ p \in Services
    /\ live' = [live EXCEPT ![p] = Over(@, cache)]
    /\ UNCHANGED <<db, cache, req, acked, tried, raced>>

\* refresh(force) in GET /config.
Show ==
    /\ \E stored \in Stored : live' = [live EXCEPT !["api"] = Over(@, stored)]
    /\ UNCHANGED <<db, cache, req, acked, tried, raced>>

\* A process starts from the defaults and reads the record; when neither store
\* answers it keeps the defaults.  The requests under way die with the API.
Boot(p) ==
    /\ \E stored \in Stored \cup {NoRecord} :
          live' = [live EXCEPT ![p] = Over(Defaults, stored)]
    /\ \/ /\ p = "api"
          /\ req' = [r \in Requests |-> NoRequest]
          /\ tried' = [k \in Settings |-> tried[k] \cup UNION {Left(r, k) : r \in Requests}]
       \/ /\ p # "api"
          /\ UNCHANGED <<req, tried>>
    /\ UNCHANGED <<db, cache, acked, raced>>

ConfigNext ==
    \/ \E r \in Requests :
          \/ \E changes \in Saves : Apply(r, changes)
          \/ LoadStored(r) \/ SaveRecord(r) \/ Publish(r)
          \/ Reset(r) \/ Forget(r) \/ RequestFails(r)
    \/ \E p \in Services : Refresh(p)
    \/ \E p \in Holders : Boot(p)
    \/ Show

\* The pollers of the decision and position services repeat for ever.
ConfigFairness == \A p \in Services : WF_configVars(Refresh(p))

ConfigSpec == ConfigInit /\ [][ConfigNext]_configVars /\ ConfigFairness

-----------------------------------------------------------------------------
(* Properties *)

\* A saved setting stays saved: through requests that fail or die between any two
\* of their writes, reads of the record that fall back on the cache and restarts,
\* record and cache hold for every setting what was acknowledged last, or what a
\* request that never answered had asked for since.  Requests that overlapped are
\* excused until one that did not has succeeded.
AcknowledgedIsSaved ==
    Quiet /\ ~raced =>
        \A k \in Settings : {db[k], cache[k]} \subseteq {acked[k]} \cup tried[k]

\* "Saved to the database, applied to the running services within a few seconds.
\* Reset restores the defaults built into the code": once saves and resets have
\* come to rest, record and cache holding what was acknowledged last, every process
\* works with the record and, where that has no entry, with the default.
SettingsReachServices ==
    \A p \in Holders, k \in Settings :
        <>[](Quiet /\ db = acked /\ cache = acked) => []<>(live[p][k] = Over(Defaults, db)[k])

=============================================================================
