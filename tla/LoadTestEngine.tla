--------------------------- MODULE LoadTestEngine ---------------------------
(***************************************************************************)
(* One load-test run: run_load_test of backend/app/loadtest/engine.py.     *)
(*                                                                         *)
(* The engine is a set of asyncio tasks of one event loop, so an action    *)
(* below is the code between two awaits.  The tasks are                    *)
(*                                                                         *)
(*   the controller  runs the traffic pattern as a sequence of tiers; for  *)
(*                   each it starts `users' worker tasks, polls the stop   *)
(*                   flag and the clock, cancels the workers, waits for    *)
(*                   them and commits the tier's results in one            *)
(*                   transaction;                                          *)
(*   the workers     send one request after another, with one retry after  *)
(*                   a transient network error;                            *)
(*   the watchdog    pings the runtime and condemns the run when the ping  *)
(*                   fails.                                                *)
(*                                                                         *)
(* They share the run's entry of the dictionary _ACTIVE_RUNS, which the    *)
(* stop endpoint and the watchdog lower.                                   *)
(***************************************************************************)
EXTENDS Integers, Sequences, FiniteSets

CONSTANTS
    Patterns,           \* traffic patterns a run may be asked for
    TargetUsers,        \* target_users of the request
    StepUsers,          \* rampup_step_users
    StepSeconds,        \* rampup_step_seconds, in ticks
    Duration,           \* duration_seconds, in ticks
    WarmUsers,          \* users of the spike's warm-up tier (5 in the code)
    WarmSeconds,        \* length of the warm-up: min(10, 0.2 * Duration)
    MaxConcurrentUsers, \* settings.MAX_CONCURRENT_USERS (200)
    RequestBudget       \* bound: requests one run may send

ASSUME EngineAssumption ==
    /\ Patterns \subseteq {"constant", "rampup", "spike", "stress"}
    /\ TargetUsers \in Nat
    /\ StepUsers \in Nat
    /\ StepSeconds \in Nat
    /\ Duration \in Nat
    /\ WarmUsers \in Nat
    /\ WarmSeconds \in 0..Duration
    /\ MaxConcurrentUsers \in Nat
    /\ RequestBudget \in Nat

MaxAttempts == 2        \* max_attempts of _single_request

VARIABLES
    ctl,            \* where the controller awaits
    users,          \* current_users_holder[0]: tasks and permits of the tier
    stage,          \* traffic_pattern while more tiers may come, then how
                    \* the run's last tier was reached
    left,           \* ticks until the tier's deadline
    now,            \* ticks since t_run_start, saturating above Duration
    active,         \* _ACTIVE_RUNS.get(run_id)
    worker,         \* worker[w]: where task w of the tier awaits
    attempt,        \* attempt[w]: which try of its request task w is on
    tier_buffer,    \* results of this tier
    all_results,    \* results of the run
    persisted,      \* load_test_results rows of the run
    up,             \* the runtime answers
    watchdog,       \* where the watchdog task awaits
    healthy,        \* runtime_healthy_holder[0]
    abort_reason,   \* abort_reason_holder[0]
    failing,        \* an exception is on its way out of run_load_test
    report,         \* the aggregates the call returned
    issued,         \* history: requests sent so far
    dropped         \* history: requests cut off by a cancellation

ctlVars    == <<ctl, users, stage, left>>
workVars   == <<worker, attempt, issued, dropped>>
bufVars    == <<tier_buffer, all_results>>
healthVars == <<watchdog, healthy, abort_reason>>
vars == <<ctl, users, stage, left, now, active, worker, attempt, tier_buffer,
          all_results, persisted, up, watchdog, healthy, abort_reason,
          failing, report, issued, dropped>>

-----------------------------------------------------------------------------
Smaller(a, b) == IF a <= b THEN a ELSE b

Workers  == 1..TargetUsers
Outcomes == {"ok", "failed"}
Stages   == {"constant", "rampup", "spike", "stress", "hold", "second"}
Results  == [users : 0..TargetUsers, outcome : Outcomes]
NoReport == [total |-> 0, healthy |-> TRUE, abort |-> "none"]

IsActive == active = "on"

\* The call of run_load_test has not reached its finally block.
Running == {"hello", "tier", "gather", "persist", "advance"}
\* The finally block has run: the watchdog is cancelled, the entry popped.
Over    == {"closing", "returned", "raised"}

Live    == {w \in Workers : worker[w] # "done"}
\* A worker holds its semaphore permit from the first send to the verdict.
Holders == {w \in Workers : worker[w] \in {"request", "backoff"}}

Init ==
    /\ ctl = "boot"
    /\ users = 0
    /\ stage \in Patterns
    /\ left = 0
    /\ now = 0
    /\ active \in {"absent", "off"}
    /\ worker = [w \in Workers |-> "done"]
    /\ attempt = [w \in Workers |-> 0]
    /\ tier_buffer = <<>>
    /\ all_results = <<>>
    /\ persisted = <<>>
    /\ up = TRUE
    /\ watchdog = "off"
    /\ healthy = TRUE
    /\ abort_reason = "none"
    /\ failing = FALSE
    /\ report = NoReport
    /\ issued = 0
    /\ dropped = 0

-----------------------------------------------------------------------------
(***************************************************************************)
(* The controller.                                                         *)
(***************************************************************************)

\* The call is entered: the entry is set whatever it was, the watchdog is
\* created, and the first progress message is awaited.
Begin ==
    /\ ctl = "boot"
    /\ ctl' = "hello"
    /\ active' = "on"
    /\ watchdog' = "sleep"
    /\ UNCHANGED <<users, stage, left, now, worker, attempt, tier_buffer,
                   all_results, persisted, up, healthy, abort_reason,
                   failing, report, issued, dropped>>

\* Entry of run_with_concurrency: a fresh semaphore, buffer and task set.
StartTier(kind, n, ticks) ==
    /\ ctl' = "tier"
    /\ stage' = kind
    /\ users' = n
    /\ left' = ticks
    /\ worker' = [w \in Workers |-> IF w <= n THEN "top" ELSE "done"]
    /\ attempt' = [w \in Workers |-> 0]
    /\ tier_buffer' = <<>>
    /\ UNCHANGED <<active, failing>>

\* Slip: the entry is not popped.
FinallyKeepsEntry(exc) ==
    /\ ctl' = "closing"
    /\ failing' = exc
    /\ UNCHANGED <<active, users, stage, left, worker, attempt, tier_buffer>>

\* The finally block.
Finally(exc) ==
    /\ ctl' = "closing"
    /\ active' = "absent"
    /\ failing' = exc
    /\ UNCHANGED <<users, stage, left, worker, attempt, tier_buffer>>

\* The tail of the rampup branch: hold the target for the time that is left.
Hold ==
    IF now < Duration /\ IsActive
    THEN StartTier("hold", TargetUsers, Duration - now)
    ELSE Finally(FALSE)

\* Slip: the step is not cut to the time that remains.
RampUpUncut(u) ==
    IF u <= TargetUsers /\ IsActive /\ now <= Duration
    THEN StartTier("rampup", u, Smaller(StepSeconds, Duration))
    ELSE Hold

\* One evaluation of the rampup loop with its variable `users' equal to u.
RampUp(u) ==
    IF u <= TargetUsers /\ IsActive /\ now <= Duration
    THEN StartTier("rampup", u, Smaller(StepSeconds, Duration - now))
    ELSE Hold

\* Slip: the limit of the settings is forgotten.
StressUncapped(u) ==
    IF u <= TargetUsers /\ IsActive /\ now <= Duration
    THEN StartTier("stress", u, Smaller(StepSeconds, Duration - now))
    ELSE Finally(FALSE)

\* One evaluation of the stress loop.
Stress(u) ==
    IF /\ u <= Smaller(TargetUsers, MaxConcurrentUsers)
       /\ IsActive
       /\ now <= Duration
    THEN StartTier("stress", u, Smaller(StepSeconds, Duration - now))
    ELSE Finally(FALSE)

\* The second tier of a spike: its length is not corrected for the time the
\* first one really took.
Spike ==
    IF WarmSeconds < Duration /\ IsActive
    THEN StartTier("second", TargetUsers, Duration - WarmSeconds)
    ELSE Finally(FALSE)

Failures(results) ==
    Cardinality({i \in DOMAIN results : results[i].outcome = "failed"})

\* fail_rate > 0.2 over the tier's results; an empty tier never stops it.
TooManyFailures(results) == 5 * Failures(results) > Len(results)

\* The first message is out; the pattern's first tier starts.
FirstTier ==
    /\ ctl = "hello"
    /\ \/ stage = "constant" /\ StartTier("constant", TargetUsers, Duration)
       \/ stage = "rampup"   /\ RampUp(StepUsers)
       \/ stage = "spike"
          /\ StartTier("spike", Smaller(WarmUsers, TargetUsers), WarmSeconds)
       \/ stage = "stress"   /\ Stress(StepUsers)
    /\ UNCHANGED <<now, all_results, persisted, up, healthVars, report,
                   issued, dropped>>

\* The poll loop ends on the deadline or on a lowered flag, and every task
\* of the tier is cancelled.
EndTier ==
    /\ ctl = "tier"
    /\ left = 0 \/ ~IsActive
    /\ ctl' = "gather"
    /\ UNCHANGED <<users, stage, left, now, active, workVars, bufVars, persisted,
                   up, healthVars, failing, report>>

\* Slip: the tasks are cancelled but not awaited.
GatheredEarly ==
    /\ ctl = "gather"
    /\ ctl' = "persist"
    /\ UNCHANGED <<users, stage, left, now, active, workVars, bufVars, persisted,
                   up, healthVars, failing, report>>

\* gather() returns once every task is done; the insert begins.
Gathered ==
    /\ ctl = "gather"
    /\ Live = {}
    /\ ctl' = "persist"
    /\ UNCHANGED <<users, stage, left, now, active, workVars, bufVars, persisted,
                   up, healthVars, failing, report>>

\* Slip: the run's results are written instead of the tier's.
PersistAll ==
    /\ ctl = "persist"
    /\ ctl' = "advance"
    /\ persisted' = persisted \o all_results
    /\ UNCHANGED <<users, stage, left, now, active, workVars, bufVars, up,
                   healthVars, failing, report>>

\* The tier's rows are committed together; traces follow, errors swallowed.
Persist ==
    /\ ctl = "persist"
    /\ ctl' = "advance"
    /\ persisted' = persisted \o tier_buffer
    /\ UNCHANGED <<users, stage, left, now, active, workVars, bufVars, up,
                   healthVars, failing, report>>

\* The commit raises (a locked database): no row, straight to finally.
PersistFails ==
    /\ ctl = "persist"
    /\ tier_buffer # <<>>
    /\ Finally(TRUE)
    /\ UNCHANGED <<now, all_results, persisted, up, healthVars, report,
                   issued, dropped>>

\* The tier is over; the pattern's branch runs on from there.
Advance ==
    /\ ctl = "advance"
    /\ \/ stage \in {"constant", "hold", "second"} /\ Finally(FALSE)
       \/ stage = "rampup" /\ RampUp(users + StepUsers)
       \/ stage = "spike"  /\ Spike
       \/ /\ stage = "stress"
          /\ IF TooManyFailures(tier_buffer)
             THEN Finally(FALSE)
             ELSE Stress(users + StepUsers)
    /\ UNCHANGED <<now, all_results, persisted, up, healthVars, report,
                   issued, dropped>>

\* The HTTP client is closed and the aggregates of the whole run computed,
\* or the exception leaves the call.
Return ==
    /\ ctl = "closing"
    /\ ctl' = IF failing THEN "raised" ELSE "returned"
    /\ report' = IF failing
                 THEN report
                 ELSE [total   |-> Len(all_results),
                       healthy |-> healthy,
                       abort   |-> abort_reason]
    /\ UNCHANGED <<users, stage, left, now, active, workVars, bufVars,
                   persisted, up, healthVars, failing>>

-----------------------------------------------------------------------------
(***************************************************************************)
(* A worker task w of the tier.  Once EndTier has cancelled it, the next   *)
(* time it runs is CancelWorker: every other worker step requires "tier".  *)
(***************************************************************************)

WorkerFrame == UNCHANGED <<ctlVars, now, active, persisted, up, healthVars,
                           failing, report>>

\* Slip: the flag is not tested again after the permit was taken.
SendUnchecked(w) ==
    /\ ctl = "tier"
    /\ worker[w] = "top"
    /\ Cardinality(Holders) < users
    /\ issued < RequestBudget
    /\ worker' = [worker EXCEPT ![w] = "request"]
    /\ attempt' = [attempt EXCEPT ![w] = 1]
    /\ issued' = issued + 1
    /\ UNCHANGED <<dropped, bufVars>>
    /\ WorkerFrame

\* Top of the loop with the flag up: take a permit (asyncio.Semaphore(users)),
\* test the flag again and send, all without an await in between.
Send(w) ==
    /\ ctl = "tier"
    /\ worker[w] = "top"
    /\ IsActive
    /\ Cardinality(Holders) < users
    /\ issued < RequestBudget
    /\ worker' = [worker EXCEPT ![w] = "request"]
    /\ attempt' = [attempt EXCEPT ![w] = 1]
    /\ issued' = issued + 1
    /\ UNCHANGED <<dropped, bufVars>>
    /\ WorkerFrame

\* Top of the loop with the flag down: the task returns.
Quit(w) ==
    /\ ctl = "tier"
    /\ worker[w] = "top"
    /\ ~IsActive
    /\ worker' = [worker EXCEPT ![w] = "done"]
    /\ UNCHANGED <<attempt, issued, dropped, bufVars>>
    /\ WorkerFrame

\* Slip: a failed request is not recorded.
RecordSuccesses(w, o) ==
    /\ worker' = [worker EXCEPT ![w] = "report"]
    /\ IF o = "ok"
       THEN LET r == [users |-> users, outcome |-> o]
            IN  /\ tier_buffer' = Append(tier_buffer, r)
                /\ all_results' = Append(all_results, r)
       ELSE UNCHANGED bufVars
    /\ UNCHANGED <<attempt, issued, dropped>>

\* The request got its verdict o: both lists get the result, the permit is
\* released, and the progress message is awaited.
Record(w, o) ==
    LET r == [users |-> users, outcome |-> o]
    IN  /\ worker' = [worker EXCEPT ![w] = "report"]
        /\ tier_buffer' = Append(tier_buffer, r)
        /\ all_results' = Append(all_results, r)
        /\ UNCHANGED <<attempt, issued, dropped>>

\* Success, time-out and other errors end the request at once.
Answer(w) ==
    /\ ctl = "tier"
    /\ worker[w] = "request"
    /\ \/ up /\ Record(w, "ok")
       \/ Record(w, "failed")
    /\ WorkerFrame

\* A transient network error: one more try if the run is still active,
\* otherwise a failed result.
NetworkError(w) ==
    /\ ctl = "tier"
    /\ worker[w] = "request"
    /\ IF attempt[w] < MaxAttempts /\ IsActive
       THEN /\ worker' = [worker EXCEPT ![w] = "backoff"]
            /\ UNCHANGED <<attempt, issued, dropped, bufVars>>
       ELSE Record(w, "failed")
    /\ WorkerFrame

\* The pause before the retry is over.  The flag is not read again here.
Retry(w) ==
    /\ ctl = "tier"
    /\ worker[w] = "backoff"
    /\ worker' = [worker EXCEPT ![w] = "request"]
    /\ attempt' = [attempt EXCEPT ![w] = @ + 1]
    /\ UNCHANGED <<issued, dropped, bufVars>>
    /\ WorkerFrame

\* The progress message is out and the think time (or 5 ms) is over.
Rest(w) ==
    /\ ctl = "tier"
    /\ worker[w] = "report"
    /\ worker' = [worker EXCEPT ![w] = "top"]
    /\ UNCHANGED <<attempt, issued, dropped, bufVars>>
    /\ WorkerFrame

\* Slip: a request in flight swallows the cancellation.
CancelWaiting(w) ==
    /\ ctl = "gather"
    /\ worker[w] \notin {"request", "done"}
    /\ worker' = [worker EXCEPT ![w] = "done"]
    /\ dropped' = IF w \in Holders THEN dropped + 1 ELSE dropped
    /\ UNCHANGED <<attempt, issued, bufVars>>
    /\ WorkerFrame

\* CancelledError reaches the task, wherever it waits; a request in flight
\* leaves no result.
CancelWorker(w) ==
    /\ ctl = "gather"
    /\ worker[w] # "done"
    /\ worker' = [worker EXCEPT ![w] = "done"]
    /\ dropped' = IF w \in Holders THEN dropped + 1 ELSE dropped
    /\ UNCHANGED <<attempt, issued, bufVars>>
    /\ WorkerFrame

-----------------------------------------------------------------------------
(***************************************************************************)
(* The watchdog task.                                                      *)
(***************************************************************************)

WatchdogFrame == UNCHANGED <<ctlVars, now, workVars, bufVars, persisted, up,
                             failing, report>>

\* Two seconds are over: ping, or leave if the run is no longer active.
WatchdogWakes ==
    /\ watchdog = "sleep"
    /\ ctl \notin Over
    /\ watchdog' = IF IsActive THEN "ping" ELSE "done"
    /\ UNCHANGED <<active, healthy, abort_reason>>
    /\ WatchdogFrame

\* The ping succeeds; the loop condition is evaluated again.
PingSucceeds ==
    /\ watchdog = "ping"
    /\ up
    /\ watchdog' = IF IsActive THEN "sleep" ELSE "done"
    /\ UNCHANGED <<active, healthy, abort_reason>>
    /\ WatchdogFrame

\* The ping reports an unhealthy runtime, or raises or exceeds its 4 s.  It
\* may do so although the runtime is up (overload).  With Python 3.11 (the
\* Dockerfile's) wait_for returns an answer that is already there even when
\* the task was just cancelled, so this may come right after `finally'.
PingFails ==
    /\ watchdog = "ping"
    /\ healthy' = FALSE
    /\ abort_reason' = "given"
    /\ active' = "off"
    /\ watchdog' = "alert"
    /\ WatchdogFrame

\* The runtime_health_alert message is out.
AlertSent ==
    /\ watchdog = "alert"
    /\ watchdog' = "done"
    /\ UNCHANGED <<active, healthy, abort_reason>>
    /\ WatchdogFrame

\* watchdog_task.cancel() of the finally block takes effect.
WatchdogCancelled ==
    /\ ctl \in Over
    /\ watchdog \in {"sleep", "ping", "alert"}
    /\ watchdog' = "done"
    /\ UNCHANGED <<active, healthy, abort_reason>>
    /\ WatchdogFrame

-----------------------------------------------------------------------------
(***************************************************************************)
(* The environment: the stop endpoint, the runtime and the clock.          *)
(***************************************************************************)

EnvFrame == UNCHANGED <<ctl, users, stage, workVars, bufVars, persisted,
                        healthVars, failing, report>>

\* stop_run(run_id), which writes the entry whether or not the run exists.
StopRun ==
    /\ active' = "off"
    /\ UNCHANGED <<left, now, up>>
    /\ EnvFrame

RuntimeCrashes ==
    /\ up
    /\ up' = FALSE
    /\ UNCHANGED <<left, now, active>>
    /\ EnvFrame

RuntimeRecovers ==
    /\ ~up
    /\ up' = TRUE
    /\ UNCHANGED <<left, now, active>>
    /\ EnvFrame

\* One tick of the run's clock and of the tier's.
Tick ==
    /\ ctl \in Running
    /\ now' = Smaller(now + 1, Duration + 1)
    /\ left' = IF ctl = "tier" /\ left > 0 THEN left - 1 ELSE left
    /\ UNCHANGED <<active, up>>
    /\ EnvFrame

-----------------------------------------------------------------------------
Controller == \/ Begin \/ FirstTier \/ EndTier \/ Gathered
              \/ Persist \/ PersistFails \/ Advance \/ Return

Worker(w) == \/ Send(w) \/ Quit(w) \/ Answer(w) \/ NetworkError(w)
             \/ Retry(w) \/ Rest(w) \/ CancelWorker(w)

Watchdog == \/ WatchdogWakes
            \/ PingSucceeds
            \/ PingFails
            \/ AlertSent
            \/ WatchdogCancelled

Environment == StopRun \/ RuntimeCrashes \/ RuntimeRecovers \/ Tick

Next == Controller \/ (\E w \in Workers : Worker(w)) \/ Watchdog \/ Environment

Spec == Init /\ [][Next]_vars

(***************************************************************************)
(* Fairness.  The event loop runs every task that is ready, the database   *)
(* answers (or raises), a message is delivered or its socket dropped, and  *)
(* the watchdog's ping is bounded by its own 4 s time-out.  Nothing is     *)
(* assumed of the runtime: a request may hang for ever.                    *)
(***************************************************************************)
PersistEnds == Persist \/ PersistFails
PingEnds == PingSucceeds \/ PingFails

SchedulerFairness ==
    /\ WF_vars(Begin)
    /\ WF_vars(FirstTier)
    /\ WF_vars(EndTier)
    /\ WF_vars(Gathered)
    /\ WF_vars(PersistEnds)
    /\ WF_vars(Advance)
    /\ WF_vars(Return)
    /\ \A w \in Workers : WF_vars(CancelWorker(w))
    /\ WF_vars(WatchdogWakes)
    /\ WF_vars(PingEnds)
    /\ WF_vars(AlertSent)
    /\ WF_vars(WatchdogCancelled)

FairSpec == Spec /\ SchedulerFairness

\* What is assumed in addition where a tier may have to wait for its
\* deadline: the clock runs.
DeadlinesPass == []<>(ctl = "tier" => left = 0)

-----------------------------------------------------------------------------
(***************************************************************************)
(* What the engine's callers see of all this: EngineContract, in which     *)
(* tiers, tasks, retries and clocks are gone.                              *)
(***************************************************************************)
PhaseOf == CASE ctl = "boot"    -> "boot"
             [] ctl \in Running -> "running"
             [] OTHER           -> ctl

Contract == INSTANCE EngineContract WITH
    MaxRows <- RequestBudget,
    phase   <- PhaseOf,
    flag    <- active,
    aborted <- ~healthy,
    rows    <- Len(persisted)

-----------------------------------------------------------------------------
(***************************************************************************)
(* Properties.                                                             *)
(***************************************************************************)

\* Every variable holds a value the code could store in it.
TypeOK ==
    /\ ctl \in {"boot"} \cup Running \cup Over
    /\ users \in 0..TargetUsers
    /\ stage \in Stages
    /\ left \in 0..Duration
    /\ now \in 0..(Duration + 1)
    /\ active \in {"absent", "on", "off"}
    /\ worker \in [Workers -> {"top", "request", "backoff", "report", "done"}]
    /\ attempt \in [Workers -> 0..MaxAttempts]
    /\ tier_buffer \in Seq(Results)
    /\ all_results \in Seq(Results)
    /\ persisted \in Seq(Results)
    /\ up \in BOOLEAN
    /\ watchdog \in {"off", "sleep", "ping", "alert", "done"}
    /\ healthy \in BOOLEAN
    /\ abort_reason \in {"none", "given"}
    /\ failing \in BOOLEAN
    /\ report \in [total : Nat, healthy : BOOLEAN,
                   abort : {"none", "given"}]
    /\ issued \in 0..RequestBudget
    /\ dropped \in Nat

\* A task pauses for a retry only after its first try, so the retry it then
\* sends without looking is its last: what keeps `attempt' within its type.
BackoffIsFirstTry ==
    \A w \in Workers : worker[w] = "backoff" => attempt[w] < MaxAttempts

\* The load a tier puts on the runtime is the load that was asked for: only
\* the tier's own tasks send, at most `users' of them at a time, and between
\* two tiers (while rows are written, or after the run) nothing is in flight.
LoadIsBounded ==
    /\ Live \subseteq 1..users
    /\ Cardinality(Holders) <= users
    /\ ctl \notin {"tier", "gather"} => Live = {}

\* No request is lost or counted twice: each one sent is recorded, still in
\* flight, or was cut off by the cancellation that ends a tier.  A worker
\* cancelled while it reports progress has already recorded its result.
RequestsAccounted ==
    issued = Len(all_results) + Cardinality(Holders) + dropped

\* The rows in the database are the results the aggregates are computed from
\* ("full in-memory list, matches DB count", engine.py:915), tier by tier: at
\* most the tier that is running, being written, or whose insert failed is
\* missing.
RowsMatchResults ==
    /\ ctl \in {"boot", "hello", "advance"} => persisted = all_results
    /\ ctl \in {"tier", "gather", "persist"} =>
          all_results = persisted \o tier_buffer
    /\ ctl \in Over /\ ~failing => persisted = all_results
    /\ ctl \in Over /\ failing => all_results = persisted \o tier_buffer
    /\ ctl = "returned" => report.total = Len(persisted)

\* The watchdog's verdict, its reason and the stop flag agree: a run is never
\* active again once the runtime was condemned, and the reason is given.
VerdictIsFinal ==
    /\ ~healthy <=> abort_reason # "none"
    /\ ~healthy => ~IsActive

\* The registry entry is TRUE only while the engine runs: no path (return,
\* exception, late watchdog, late stop) leaves a finished run active.
ActiveOnlyWhileRunning == IsActive => ctl \in Running

\* A tier whose length the ramp or the stress loop computed from the time
\* that was left ends within duration_seconds.  (A constant tier and those of
\* a spike do not subtract the time already spent: the first message for a
\* constant run, the overtime of the warm-up for a spike's second tier.)
DeadlineWithinBudget ==
    (ctl = "tier" /\ left > 0 /\ stage \in {"rampup", "stress", "hold"})
        => now + left <= Duration

\* After a stop (or the watchdog's verdict) no task sends a new request.  The
\* only messages that still leave are retries whose pause had begun before.
StopAdmitsOnlyPendingRetries ==
    [][\A w \in Workers :
         (~IsActive /\ worker[w] # "request" /\ worker'[w] = "request")
            => (worker[w] = "backoff" /\ attempt'[w] = MaxAttempts)]_vars

\* The load only grows: a new tier has more users than the one before it (or
\* as many, when the ramp ends exactly on its target), and never comes after a
\* stop.  A stress run is not pushed further when more than 20% of the
\* requests of the last tier failed (README.md:467), nor beyond the limit of
\* the settings.
LoadEscalatesSafely ==
    [][(ctl = "advance" /\ ctl' = "tier")
         => /\ users <= users'
            /\ IsActive
            /\ stage = "stress" => /\ ~TooManyFailures(tier_buffer)
                                    /\ users' <= MaxConcurrentUsers]_vars

\* The engine implements its contract: the registry entry, the watchdog's
\* verdict and the committed rows move only as EngineContract allows.
ImplementsContract == Contract!ContractSpec

\* It also keeps the contract's promises, given the clock: every run starts,
\* closes its registry entry and comes back, although a request may hang for
\* ever.
ImplementsFairContract == DeadlinesPass => Contract!ContractFairness
=============================================================================
