---------------------------- MODULE BenchmarkRun ----------------------------
(***************************************************************************)
(* One benchmark: the background task of backend/app/api/benchmarks.py,    *)
(* the sequential loop of backend/app/benchmark/engine.py it runs, and the *)
(* stop, delete and clear handlers.                                        *)
(*                                                                         *)
(* Unlike a load test, the loop works in the session of the task: what a   *)
(* failed statement leaves behind in that session decides the outcome.     *)
(* Every statement and commit may raise, and then changes nothing in the   *)
(* database; the update of a row that was deleted always raises.           *)
(***************************************************************************)
EXTENDS Integers, Sequences, FiniteSets

CONSTANTS
    Iterations,         \* num_runs, or the number of context lengths
    Stops,              \* calls of the stop endpoint
    Deletes             \* calls of the two delete endpoints

ASSUME IterationsAssumption == Iterations \in Nat

VARIABLES
    row,                \* committed status of the run's row, or "none"
    stored,             \* committed results of the run
    flag,               \* the run's entry in _ACTIVE_BENCH_RUNS
    task,               \* where _execute_benchmark awaits
    broken,             \* the task's session refuses every further statement
    index,              \* iterations begun
    results,            \* length of the list results
    stop,               \* stop[s]: where stop call s awaits
    seen,               \* seen[s]: run.status as loaded by stop call s
    mark,               \* mark[s]: iterations begun when s reached the loop, or -1
    delete,             \* delete[d]: where delete call d awaits
    events              \* messages broadcast about the run, oldest first

loopVars == <<index, results>>
stopVars == <<stop, seen, mark>>
vars == <<row, stored, flag, task, broken, loopVars, stopVars, delete, events>>

Statuses == {"pending", "running", "stopped", "completed", "failed"}
Kinds    == {"progress", "stopped", "completed", "failed"}

\* Where the task awaits while run_benchmark is running.
Looping == {"request", "insert", "commit", "tracing", "reporting"}

Broadcast(kind) == events' = Append(events, kind)

Init ==
    /\ row = "none"
    /\ stored = 0
    /\ flag = "absent"
    /\ task = "none"
    /\ broken = FALSE
    /\ index = 0
    /\ results = 0
    /\ stop = [s \in Stops |-> "idle"]
    /\ seen = [s \in Stops |-> "pending"]
    /\ mark = [s \in Stops |-> -1]
    /\ delete = [d \in Deletes |-> "idle"]
    /\ events = <<>>

\* POST /api/benchmarks: the row is committed before the response, and the
\* task is started after it.
Create ==
    /\ task = "none"
    /\ row' = "pending"
    /\ task' = "queued"
    /\ UNCHANGED <<stored, flag, broken, loopVars, stopVars, delete, events>>

-----------------------------------------------------------------------------
(***************************************************************************)
(* _execute_benchmark, up to the loop.                                     *)
(***************************************************************************)

TaskLoads ==
    /\ task = "queued"
    /\ \/ row # "none" /\ task' = "starting"
       \/ task' = "rescue"
    /\ UNCHANGED <<row, stored, flag, broken, loopVars, stopVars, delete, events>>

\* The commit of "running", whatever the row says by now.
TaskStarts ==
    /\ task = "starting"
    /\ \/ row # "none" /\ task' = "started" /\ row' = "running"
       \/ task' = "rescue" /\ UNCHANGED row
    /\ UNCHANGED <<stored, flag, broken, loopVars, stopVars, delete, events>>

-----------------------------------------------------------------------------
(***************************************************************************)
(* run_benchmark and _run_single.                                          *)
(***************************************************************************)

\* Slip: the entry is not asked.
NextIterationUnasked(entry) ==
    IF index < Iterations
    THEN /\ task' = "request"
         /\ index' = index + 1
         /\ flag' = entry
    ELSE /\ task' = "reloading"
         /\ flag' = "absent"
         /\ UNCHANGED index

\* The head of the loop: the next request, or the finally clause, which
\* removes the entry, and the return.
NextIteration(entry) ==
    IF entry = "on" /\ index < Iterations
    THEN /\ task' = "request"
         /\ index' = index + 1
         /\ flag' = entry
    ELSE /\ task' = "reloading"
         /\ flag' = "absent"
         /\ UNCHANGED index

\* run_benchmark is entered: the entry becomes TRUE, whatever it was.  No
\* adapter for the runtime's type: the finally clause, and the exception.
TaskEnters ==
    /\ task = "started"
    /\ \/ NextIteration("on")
       \/ task' = "rescue" /\ flag' = "absent" /\ UNCHANGED index
    /\ UNCHANGED <<row, stored, broken, results, stopVars, delete, events>>

\* generate or generate_stream is over; its exceptions become the result's
\* error.
RequestEnds ==
    /\ task = "request"
    /\ task' = "insert"
    /\ UNCHANGED <<row, stored, flag, broken, loopVars, stopVars, delete, events>>

\* The result is flushed, and the write lock of the database taken.
Insert ==
    /\ task = "insert"
    /\ ~broken
    /\ task' = "commit"
    /\ UNCHANGED <<row, stored, flag, broken, loopVars, stopVars, delete, events>>

\* The flush fails: the finally clause, and the exception.
InsertFails ==
    /\ task = "insert"
    /\ task' = "rescue"
    /\ flag' = "absent"
    /\ UNCHANGED <<row, stored, broken, loopVars, stopVars, delete, events>>

\* record_trace commits the result together with its trace.
Commit ==
    /\ task = "commit"
    /\ task' = "tracing"
    /\ stored' = stored + 1
    /\ UNCHANGED <<row, flag, broken, loopVars, stopVars, delete, events>>

\* Slip: the session is rolled back, and usable again.
CommitFailsRolledBack ==
    /\ task = "commit"
    /\ task' = "reporting"
    /\ results' = results + 1
    /\ UNCHANGED <<row, stored, flag, broken, index, stopVars, delete, events>>

\* The trace cannot be inserted or the commit fails.  _run_single swallows the
\* exception and returns the result, which was not stored; nobody rolls back
\* the session.
CommitFails ==
    /\ task = "commit"
    /\ task' = "reporting"
    /\ broken' = TRUE
    /\ results' = results + 1
    /\ UNCHANGED <<row, stored, flag, index, stopVars, delete, events>>

\* The trace is refreshed and the retention limit enforced (TraceStore); a
\* failed commit there is swallowed too.
Trace ==
    /\ task = "tracing"
    /\ task' = "reporting"
    /\ results' = results + 1
    /\ broken' \in BOOLEAN
    /\ UNCHANGED <<row, stored, flag, index, stopVars, delete, events>>

\* benchmark_progress, and back to the head of the loop.
Report ==
    /\ task = "reporting"
    /\ Broadcast("progress")
    /\ NextIteration(flag)
    /\ UNCHANGED <<row, stored, broken, results, stopVars, delete>>

-----------------------------------------------------------------------------
(***************************************************************************)
(* _execute_benchmark, after the loop.                                     *)
(***************************************************************************)

\* Slip: a deleted run needs no outcome.
TaskReloadsQuietly ==
    /\ task = "reloading"
    /\ \/ ~broken /\ row # "none" /\ task' = "finishing"
       \/ task' = "done"
    /\ UNCHANGED <<row, stored, flag, broken, loopVars, stopVars, delete, events>>

\* The second select.
TaskReloads ==
    /\ task = "reloading"
    /\ \/ ~broken /\ row # "none" /\ task' = "finishing"
       \/ task' = "rescue"
    /\ UNCHANGED <<row, stored, flag, broken, loopVars, stopVars, delete, events>>

\* The aggregates are committed together with "completed", unconditionally.
TaskFinishes ==
    /\ task = "finishing"
    /\ \/ row # "none" /\ task' = "finished" /\ row' = "completed"
       \/ task' = "rescue" /\ UNCHANGED row
    /\ UNCHANGED <<stored, flag, broken, loopVars, stopVars, delete, events>>

\* The except clause selects the row in a session of its own.  Nobody catches
\* what it raises: the task is lost, and with it the announcement.
TaskRescues ==
    /\ task = "rescue"
    /\ task' \in {IF row = "none" THEN "failed" ELSE "failing", "lost"}
    /\ UNCHANGED <<row, stored, flag, broken, loopVars, stopVars, delete, events>>

\* "failed" is committed.  If that raises the row keeps the status it has,
\* "running" as a rule, and nothing will be announced.
TaskFails ==
    /\ task = "failing"
    /\ \/ row # "none" /\ task' = "failed" /\ row' = "failed"
       \/ task' = "lost" /\ UNCHANGED row
    /\ UNCHANGED <<stored, flag, broken, loopVars, stopVars, delete, events>>

TaskAnnounces ==
    /\ \/ task = "finished" /\ Broadcast("completed")
       \/ task = "failed"   /\ Broadcast("failed")
    /\ task' = "done"
    /\ UNCHANGED <<row, stored, flag, broken, loopVars, stopVars, delete>>

-----------------------------------------------------------------------------
(***************************************************************************)
(* The handlers.                                                           *)
(***************************************************************************)

\* While the task's transaction is open nobody else writes.
WriteLocked == task = "commit"

\* The select, and then, without an await, stop_benchmark_run.  A missing row
\* is answered with 404, a failing select with 500.
StopLoads(s) ==
    /\ stop[s] = "idle"
    /\ task # "none"
    /\ \/ /\ row # "none"
          /\ stop' = [stop EXCEPT ![s] = "writing"]
          /\ seen' = [seen EXCEPT ![s] = row]
          /\ mark' = [mark EXCEPT ![s] = IF task \in Looping THEN index ELSE -1]
          /\ flag' = "off"
       \/ /\ stop' = [stop EXCEPT ![s] = "rejected"]
          /\ UNCHANGED <<seen, mark, flag>>
    /\ UNCHANGED <<row, stored, task, broken, loopVars, delete, events>>

\* The commit.  The object-relational mapper only writes a status that differs
\* from the one loaded.  If the commit raises, a lock that outlasts
\* busy_timeout included, the loop has been told to stop all the same.
StopWrites(s) ==
    /\ stop[s] = "writing"
    /\ \/ /\ row # "none" /\ ~WriteLocked
          /\ stop' = [stop EXCEPT ![s] = "written"]
          /\ row' = IF seen[s] = "stopped" THEN row ELSE "stopped"
       \/ /\ stop' = [stop EXCEPT ![s] = "rejected"]
          /\ UNCHANGED row
    /\ UNCHANGED <<stored, flag, task, broken, loopVars, seen, mark, delete, events>>

StopAnswers(s) ==
    /\ stop[s] = "written"
    /\ stop' = [stop EXCEPT ![s] = "accepted"]
    /\ Broadcast("stopped")
    /\ UNCHANGED <<row, stored, flag, task, broken, loopVars, seen, mark, delete>>

\* The select of the single-run endpoint.
DeleteLoads(d) ==
    /\ delete[d] = "idle"
    /\ task # "none"
    /\ \/ row # "none" /\ delete' = [delete EXCEPT ![d] = "writing"]
       \/ delete' = [delete EXCEPT ![d] = "rejected"]
    /\ UNCHANGED <<row, stored, flag, task, broken, loopVars, stopVars, events>>

\* Results and row go in one transaction; the loop is not told.  The clear-all
\* endpoint comes here without the select.
DeleteWrites(d) ==
    /\ \/ delete[d] = "writing"
       \/ delete[d] = "idle" /\ task # "none"
    /\ \/ /\ ~WriteLocked
          /\ delete' = [delete EXCEPT ![d] = "accepted"]
          /\ row' = "none"
          /\ stored' = 0
       \/ /\ delete' = [delete EXCEPT ![d] = "rejected"]
          /\ UNCHANGED <<row, stored>>
    /\ UNCHANGED <<flag, task, broken, loopVars, stopVars, events>>

-----------------------------------------------------------------------------
Task == \/ TaskLoads \/ TaskStarts \/ TaskEnters
        \/ RequestEnds \/ Insert \/ InsertFails \/ Commit \/ CommitFails
        \/ Trace \/ Report
        \/ TaskReloads \/ TaskFinishes \/ TaskRescues \/ TaskFails \/ TaskAnnounces

Next == \/ Create
        \/ Task
        \/ \E s \in Stops : StopLoads(s) \/ StopWrites(s) \/ StopAnswers(s)
        \/ \E d \in Deletes : DeleteLoads(d) \/ DeleteWrites(d)

Spec == Init /\ [][Next]_vars

\* The event loop resumes the task: the HTTP client ends every request (300 s
\* per read), and the database every statement.  Nobody is obliged to call
\* anything.
FairSpec == Spec /\ WF_vars(Task)

-----------------------------------------------------------------------------
(***************************************************************************)
(* Properties.                                                             *)
(***************************************************************************)
Happened(kind) == \E i \in DOMAIN events : events[i] = kind
Deleted == \E d \in Deletes : delete[d] = "accepted"

\* Every variable holds a value the code could store in it.
TypeOK ==
    /\ row \in {"none"} \cup Statuses
    /\ stored \in 0..Iterations
    /\ flag \in {"absent", "on", "off"}
    /\ task \in {"none", "queued", "starting", "started", "reloading", "finishing",
                 "finished", "rescue", "failing", "failed", "done", "lost"} \cup Looping
    /\ broken \in BOOLEAN
    /\ index \in 0..Iterations
    /\ results \in 0..Iterations
    /\ stop \in [Stops -> {"idle", "writing", "written", "accepted", "rejected"}]
    /\ seen \in [Stops -> Statuses]
    /\ mark \in [Stops -> -1..Iterations]
    /\ delete \in [Deletes -> {"idle", "writing", "accepted", "rejected"}]
    /\ events \in Seq(Kinds)

\* A completed run shows the aggregates of the results it keeps: although a
\* failed commit is swallowed where it happens, and its result is counted and
\* reported, the run cannot complete without it.
AggregatesAreBacked ==
    (row = "completed" \/ Happened("completed")) /\ ~Deleted => stored = results

\* "Signal a running benchmark to stop after its current iteration completes",
\* engine.py:71: a stop that finds the loop running lets no further iteration
\* begin.
StopEndsAfterIteration == \A s \in Stops : mark[s] # -1 => index = mark[s]

\* Every benchmark announces an outcome, whichever statement of its session
\* raises; only a delete can prevent it, or a statement of the except clause
\* itself that raises (benchmarks.py:67, 73), after which the row may say
\* "running" for ever.
OutcomeIsAnnounced ==
    task # "none" ~>
        (Happened("completed") \/ Happened("failed") \/ row = "none" \/ task = "lost")

-----------------------------------------------------------------------------
(***************************************************************************)
(* What a comment says of benchmarks, and the code does not do.            *)
(***************************************************************************)

\* The stop endpoint's status is persisted ("was missing - status was never
\* persisted", benchmarks.py:152): a run it stopped does not turn into a
\* completed one.
StoppedIsNotCompleted == [][row = "stopped" => row' # "completed"]_vars
=============================================================================
