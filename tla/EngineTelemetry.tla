--------------------------- MODULE EngineTelemetry ---------------------------
(***************************************************************************)
(* The telemetry of the runtimes: backend/app/monitoring/engine_poller.py  *)
(* and engine_history.py.                                                  *)
(*                                                                         *)
(* One background task loads the active runtimes from the database, evicts *)
(* the others from its cache, polls the active ones concurrently and then  *)
(* sleeps.  An answer goes into the cache and into the runtime's ring      *)
(* buffer, labelled with the run that is registered on the runtime.  Load  *)
(* tests, thread groups of a plan and benchmarks register themselves while *)
(* they run; several may run on one runtime.                               *)
(***************************************************************************)
EXTENDS Naturals, Sequences, FiniteSets

CONSTANTS
    Runtimes,           \* runtimes that may be configured
    Runs,               \* load-test and benchmark runs with a runtime_id
    None,               \* no run
    MaxSamples          \* MAX_SAMPLES_PER_RUNTIME (720)

ASSUME TelemetryAssumption ==
    /\ None \notin Runs
    /\ MaxSamples \in Nat \ {0}

VARIABLES
    registered,         \* rows of the runtimes table with is_active set
    poller,             \* where the poller loop awaits
    runtimes,           \* the rows this iteration of the loop has loaded
    polls,              \* runtimes whose poll is still under way
    cache,              \* _engine_cache: "absent", "stats" or "error"
    history,            \* _history_buffers; <<>> stands for no buffer
    active_run,         \* _active_runs.get(runtime_id), or None
    running,            \* running[r]: runs that are executing on runtime r
    fresh,              \* runs that have not started yet
    shared              \* history: runs that did not have a runtime to themselves

vars == <<registered, poller, runtimes, polls, cache, history, active_run,
          running, fresh, shared>>
pollerVars == <<poller, runtimes, polls, cache, history>>
runVars == <<active_run, running, fresh, shared>>

\* `during' is a history field: the runs in progress when the poll ended.
Samples == [run_id : Runs \cup {None}, during : SUBSET Runs]

Init ==
    /\ registered = {}
    /\ poller = "asleep"
    /\ runtimes = {}
    /\ polls = {}
    /\ cache = [r \in Runtimes |-> "absent"]
    /\ history = [r \in Runtimes |-> <<>>]
    /\ active_run = [r \in Runtimes |-> None]
    /\ running = [r \in Runtimes |-> {}]
    /\ fresh = Runs
    /\ shared = {}

-----------------------------------------------------------------------------
(***************************************************************************)
(* The poller loop.                                                        *)
(***************************************************************************)

\* The select of the active runtimes.  One that raises is logged and changes
\* nothing: the loop sleeps and comes back here.
Load ==
    /\ poller = "asleep"
    /\ poller' = "loaded"
    /\ runtimes' = registered
    /\ UNCHANGED <<registered, polls, cache, history, runVars>>

\* Slip: the ring buffer is left behind.
EvictCacheOnly ==
    /\ poller = "loaded"
    /\ poller' = "polling"
    /\ polls' = polls \cup runtimes
    /\ cache' = [r \in Runtimes |-> IF r \in runtimes THEN cache[r] ELSE "absent"]
    /\ UNCHANGED <<registered, runtimes, history, runVars>>

\* The session is closed.  Whatever is cached for a runtime that was not
\* loaded goes, its ring buffer with it; then every poll is started.
Evict ==
    /\ poller = "loaded"
    /\ poller' = "polling"
    /\ polls' = polls \cup runtimes
    /\ LET gone == {r \in Runtimes \ runtimes : cache[r] # "absent"}
       IN  /\ cache' = [r \in Runtimes |-> IF r \in gone THEN "absent" ELSE cache[r]]
           /\ history' = [r \in Runtimes |-> IF r \in gone THEN <<>> ELSE history[r]]
    /\ UNCHANGED <<registered, runtimes, runVars>>

\* A deque with a maxlen drops its oldest entry.
Remember(buffer, sample) ==
    IF Len(buffer) < MaxSamples
    THEN Append(buffer, sample)
    ELSE Append(Tail(buffer), sample)

\* The runtime answered: its cache entry and one labelled sample.
PollAnswers(r) ==
    /\ r \in polls
    /\ polls' = polls \ {r}
    /\ cache' = [cache EXCEPT ![r] = "stats"]
    /\ history' = [history EXCEPT ![r] =
                      Remember(@, [run_id |-> active_run[r], during |-> running[r]])]
    /\ UNCHANGED <<registered, poller, runtimes, runVars>>

\* Slip: a failed poll takes the runtime out of the cache.
PollFailsForgets(r) ==
    /\ r \in polls
    /\ polls' = polls \ {r}
    /\ cache' = [cache EXCEPT ![r] = "absent"]
    /\ UNCHANGED <<registered, poller, runtimes, history, runVars>>

\* It raised: the error is noted in the entry, and nothing is recorded.
PollFails(r) ==
    /\ r \in polls
    /\ polls' = polls \ {r}
    /\ cache' = [cache EXCEPT ![r] = "error"]
    /\ UNCHANGED <<registered, poller, runtimes, history, runVars>>

\* Four seconds are over; the poll is cancelled and leaves no trace.
PollTimesOut(r) ==
    /\ r \in polls
    /\ polls' = polls \ {r}
    /\ UNCHANGED <<registered, poller, runtimes, cache, history, runVars>>

\* gather() has every verdict; the loop sleeps for POLL_INTERVAL_SECONDS.
Sleep ==
    /\ poller = "polling"
    /\ polls = {}
    /\ poller' = "asleep"
    /\ UNCHANGED <<registered, runtimes, polls, cache, history, runVars>>

-----------------------------------------------------------------------------
(***************************************************************************)
(* The runs, and the users who configure runtimes.                         *)
(***************************************************************************)

\* run_load_test or run_benchmark is entered.
Start(k, r) ==
    /\ k \in fresh
    /\ fresh' = fresh \ {k}
    /\ active_run' = [active_run EXCEPT ![r] = k]
    /\ running' = [running EXCEPT ![r] = @ \cup {k}]
    /\ shared' = IF running[r] = {} THEN shared ELSE shared \cup running[r] \cup {k}
    /\ UNCHANGED <<registered, pollerVars>>

\* Slip: a run that is over stays registered.
FinishKeepsTag(k, r) ==
    /\ k \in running[r]
    /\ running' = [running EXCEPT ![r] = @ \ {k}]
    /\ UNCHANGED <<registered, pollerVars, active_run, fresh, shared>>

\* Its finally block: the registration is cleared, whoever's it is.
Finish(k, r) ==
    /\ k \in running[r]
    /\ running' = [running EXCEPT ![r] = @ \ {k}]
    /\ active_run' = [active_run EXCEPT ![r] = None]
    /\ UNCHANGED <<registered, pollerVars, fresh, shared>>

\* A runtime is created or set active.
Register(r) ==
    /\ r \notin registered
    /\ registered' = registered \cup {r}
    /\ UNCHANGED <<pollerVars, runVars>>

\* It is deleted or set inactive; runs on it are not told.
Deregister(r) ==
    /\ r \in registered
    /\ registered' = registered \ {r}
    /\ UNCHANGED <<pollerVars, runVars>>

-----------------------------------------------------------------------------
Poll(r) == PollAnswers(r) \/ PollFails(r) \/ PollTimesOut(r)

Next ==
    \/ Load \/ Evict \/ Sleep
    \/ \E r \in Runtimes :
          \/ PollAnswers(r)
          \/ PollFails(r)
          \/ PollTimesOut(r)
          \/ Register(r)
          \/ Deregister(r)
          \/ \E k \in Runs : Start(k, r) \/ Finish(k, r)

Spec == Init /\ [][Next]_vars

\* The loop catches every exception and is only cancelled at shut-down, a
\* poll is bounded by its time-out, and the database is not locked for ever.
FairSpec ==
    /\ Spec
    /\ WF_vars(Load) /\ WF_vars(Evict) /\ WF_vars(Sleep)
    /\ \A r \in Runtimes : WF_vars(Poll(r))

-----------------------------------------------------------------------------
(***************************************************************************)
(* Properties.                                                             *)
(***************************************************************************)

\* Every variable holds a value the code could store in it, and no ring buffer
\* exceeds its capacity.
TypeOK ==
    /\ registered \in SUBSET Runtimes
    /\ poller \in {"asleep", "loaded", "polling"}
    /\ runtimes \in SUBSET Runtimes
    /\ polls \in SUBSET Runtimes
    /\ cache \in [Runtimes -> {"absent", "stats", "error"}]
    /\ history \in [Runtimes -> Seq(Samples)]
    /\ \A r \in Runtimes : Len(history[r]) <= MaxSamples
    /\ active_run \in [Runtimes -> Runs \cup {None}]
    /\ running \in [Runtimes -> SUBSET Runs]
    /\ fresh \in SUBSET Runs
    /\ shared \in SUBSET Runs

\* Eviction walks the cache, not the buffers: a buffer without a cache entry
\* would stay for as long as the server runs.  Failed polls, evictions and
\* runtimes that come back must keep the two dictionaries together.
BufferIsEvictable ==
    \A r \in Runtimes : history[r] # <<>> => cache[r] # "absent"

\* While the polls are under way and until the next select, nothing is cached
\* for a runtime that this iteration did not load: an answer cannot bring back
\* what was just evicted.
CacheFollowsDatabase ==
    poller # "loaded" => \A r \in Runtimes : cache[r] # "absent" => r \in runtimes

\* Eviction reaches every buffer, and what it removed stays removed.
EvictionIsComplete == BufferIsEvictable /\ CacheFollowsDatabase

\* A label names a run that is executing on that very runtime: samples are
\* never attributed to a run that is over, or that runs elsewhere.
LabelsAreTrue ==
    \A r \in Runtimes :
        /\ active_run[r] # None => active_run[r] \in running[r]
        /\ \A i \in DOMAIN history[r] :
              history[r][i].run_id # None => history[r][i].run_id \in history[r][i].during

\* A run that has its runtime to itself finds every sample of its time under
\* its name (get_history_for_run), evictions and re-registrations of the
\* runtime included.
LoneRunIsLabelled ==
    \A r \in Runtimes :
        \A i \in DOMAIN history[r] : \A k \in Runs \ shared :
            k \in history[r][i].during => history[r][i].run_id = k

\* A runtime that was deleted or deactivated for good is forgotten.
InactiveIsForgotten ==
    \A r \in Runtimes :
        <>[](r \notin registered) => <>[](cache[r] = "absent" /\ history[r] = <<>>)
=============================================================================
