---------------------------- MODULE RunLifecycle ----------------------------
(***************************************************************************)
(* The life of one load-test run in backend/app/api/load_tests.py: the     *)
(* create, stop, delete and clear handlers, the background task            *)
(* _execute_load_test, the run's row, and the events broadcast about it.   *)
(*                                                                         *)
(* Handlers and task interleave at their awaits, and each owns a database  *)
(* session: what a handler writes is decided by what it read, possibly     *)
(* long before.  Every statement and commit may raise (a lock held longer  *)
(* than busy_timeout, a full disk), and then changes nothing; the update   *)
(* of a row that was deleted always raises.  The engine is EngineContract, *)
(* which LoadTestEngine implements.                                        *)
(***************************************************************************)
EXTENDS EngineContract, Sequences, FiniteSets

CONSTANTS
    Stops,              \* calls of the stop endpoint
    Deletes             \* calls of the two delete endpoints

ASSUME LifecycleAssumption == MaxRows \in Nat

VARIABLES
    row,                \* committed status of the run's row, or "none"
    stored,             \* load_test_results rows of the run in the database
    task,               \* where _execute_load_test awaits
    cached,             \* run.status in the task's session
    stop,               \* stop[s]: where stop call s awaits
    seen,               \* seen[s]: run.status as loaded by stop call s
    delete,             \* delete[d]: where delete call d awaits
    events              \* messages broadcast about the run, oldest first

taskVars == <<task, cached>>
stopVars == <<stop, seen>>
vars == <<phase, flag, aborted, rows, row, stored, task, cached, stop, seen,
          delete, events>>

Statuses == {"pending", "running", "stopped", "completed", "failed"}
Kinds    == {"started", "progress", "alert", "stopped", "completed", "failed"}

\* The sessions are made with expire_on_commit=False: an object keeps the
\* values it had at the session's own last write, and a later select that
\* finds the same row returns the object as it is.
ExpireOnCommit == FALSE

\* run.status after the task has selected its row for the second time.
Reselected == IF ExpireOnCommit THEN row ELSE cached

Broadcast(kind) == events' = Append(events, kind)

Init ==
    /\ ContractInit
    /\ flag = "absent"
    /\ row = "none"
    /\ stored = 0
    /\ task = "none"
    /\ cached = "pending"
    /\ stop = [s \in Stops |-> "idle"]
    /\ seen = [s \in Stops |-> "pending"]
    /\ delete = [d \in Deletes |-> "idle"]
    /\ events = <<>>

-----------------------------------------------------------------------------
\* POST /api/load-tests: the row is committed before the response, and the
\* task is started after it.
Create ==
    /\ task = "none"
    /\ row' = "pending"
    /\ task' = "queued"
    /\ UNCHANGED <<contractVars, stored, cached, stopVars, delete, events>>

-----------------------------------------------------------------------------
(***************************************************************************)
(* _execute_load_test.                                                     *)
(***************************************************************************)

\* The first select, whose scalar_one raises when the row is gone.
TaskLoads ==
    /\ task = "queued"
    /\ \/ row # "none" /\ task' = "starting" /\ cached' = "running"
       \/ task' = "rescue" /\ UNCHANGED cached
    /\ UNCHANGED <<contractVars, row, stored, stopVars, delete, events>>

\* Slip: the row is written back even if it was deleted.
TaskStartsAnyway ==
    /\ task = "starting"
    /\ task' = "started"
    /\ row' = "running"
    /\ UNCHANGED <<contractVars, stored, cached, stopVars, delete, events>>

\* status = "running" is committed, whatever the row says by now.
TaskStarts ==
    /\ task = "starting"
    /\ \/ row # "none" /\ task' = "started" /\ row' = "running"
       \/ task' = "rescue" /\ UNCHANGED row
    /\ UNCHANGED <<contractVars, stored, cached, stopVars, delete, events>>

\* The broadcast is over and run_load_test is entered.
TaskEntersEngine ==
    /\ task = "announced"
    /\ Start
    /\ task' = "engine"
    /\ UNCHANGED <<row, stored, cached, stopVars, delete, events>>

\* Slip: an exception of the engine is not caught.
TaskReloadsUnguarded ==
    /\ task = "engine"
    /\ phase \in {"returned", "raised"}
    /\ \/ phase = "returned" /\ row # "none" /\ task' = "finishing" /\ cached' = Reselected
       \/ task' = "done" /\ UNCHANGED cached
    /\ UNCHANGED <<contractVars, row, stored, stopVars, delete, events>>

\* run_load_test returned: the second select.  It raised: the except clause.
TaskReloads ==
    /\ task = "engine"
    /\ phase \in {"returned", "raised"}
    /\ \/ phase = "returned" /\ row # "none" /\ task' = "finishing" /\ cached' = Reselected
       \/ task' = "rescue" /\ UNCHANGED cached
    /\ UNCHANGED <<contractVars, row, stored, stopVars, delete, events>>

\* Slip: a broadcast that raises sends a completed run to the except clause.
TaskAnnouncesOrFails ==
    /\ \/ task = "started"  /\ task' = "announced" /\ Broadcast("started")
       \/ task = "finished" /\ task' = "rescue"    /\ Broadcast("completed")
       \/ task = "failed"   /\ task' = "done"      /\ Broadcast("failed")
    /\ UNCHANGED <<contractVars, row, stored, cached, stopVars, delete>>

\* Back from a commit, the task broadcasts what it has just committed.
TaskAnnounces ==
    /\ \/ task = "started"  /\ task' = "announced" /\ Broadcast("started")
       \/ task = "finished" /\ task' = "done"      /\ Broadcast("completed")
       \/ task = "failed"   /\ task' = "done"      /\ Broadcast("failed")
    /\ UNCHANGED <<contractVars, row, stored, cached, stopVars, delete>>

\* The aggregates are committed together with "completed", unless the status
\* read by the second select is "stopped".
TaskFinishes ==
    /\ task = "finishing"
    /\ \/ /\ row # "none"
          /\ task' = "finished"
          /\ row' = IF cached = "stopped" THEN row ELSE "completed"
       \/ task' = "rescue" /\ UNCHANGED row
    /\ UNCHANGED <<contractVars, stored, cached, stopVars, delete, events>>

\* The except clause selects the row again in a session of its own.  Nobody
\* catches what it raises: the task is lost, and with it the announcement.
TaskRescues ==
    /\ task = "rescue"
    /\ task' \in {IF row = "none" THEN "failed" ELSE "failing", "lost"}
    /\ UNCHANGED <<contractVars, row, stored, cached, stopVars, delete, events>>

\* "failed" is committed.  If that raises the row keeps the status it has,
\* "running" as a rule, and nothing will be announced.
TaskFails ==
    /\ task = "failing"
    /\ \/ row # "none" /\ task' = "failed" /\ row' = "failed"
       \/ task' = "lost" /\ UNCHANGED row
    /\ UNCHANGED <<contractVars, stored, cached, stopVars, delete, events>>

-----------------------------------------------------------------------------
(***************************************************************************)
(* The engine at work, as its contract allows.                             *)
(***************************************************************************)

EngineFrame == UNCHANGED <<row, taskVars, stopVars, delete>>

\* A tier's rows are committed, whether or not the run's row still exists
\* (foreign keys are not enforced).
EngineCommitsRows ==
    /\ CommitRows
    /\ stored' = stored + (rows' - rows)
    /\ UNCHANGED events
    /\ EngineFrame

\* Slip: the ticker is not cancelled.
EngineProgressForEver ==
    /\ phase # "boot"
    /\ events[Len(events)] # "progress"
    /\ Broadcast("progress")
    /\ UNCHANGED <<contractVars, stored>>
    /\ EngineFrame

\* A progress message, of a worker or of the ticker.  Consecutive ones are
\* one event here.
EngineProgress ==
    /\ phase = "running"
    /\ events[Len(events)] # "progress"
    /\ Broadcast("progress")
    /\ UNCHANGED <<contractVars, stored>>
    /\ EngineFrame

\* The watchdog condemns the runtime and broadcasts runtime_health_alert.
EngineCondemns ==
    /\ Condemn
    /\ Broadcast("alert")
    /\ UNCHANGED stored
    /\ EngineFrame

EngineCloses ==
    /\ Close
    /\ UNCHANGED <<stored, events>>
    /\ EngineFrame

EngineLeaves ==
    /\ Leave
    /\ UNCHANGED <<stored, events>>
    /\ EngineFrame

-----------------------------------------------------------------------------
(***************************************************************************)
(* POST /api/load-tests/{run_id}/stop.                                     *)
(***************************************************************************)

\* The select, and then, without an await, stop_run: there is no check that
\* the run is running.  A missing row is answered with 404, a failing select
\* with 500.
StopLoads(s) ==
    /\ stop[s] = "idle"
    /\ task # "none"
    /\ \/ /\ row # "none"
          /\ stop' = [stop EXCEPT ![s] = "writing"]
          /\ seen' = [seen EXCEPT ![s] = row]
          /\ StopRun
       \/ /\ stop' = [stop EXCEPT ![s] = "rejected"]
          /\ UNCHANGED <<seen, contractVars>>
    /\ UNCHANGED <<row, stored, taskVars, delete, events>>

\* The commit.  The object-relational mapper only writes a status that differs
\* from the one loaded.  If the commit raises the engine has been told to stop
\* all the same.
StopWrites(s) ==
    /\ stop[s] = "writing"
    /\ \/ /\ row # "none"
          /\ stop' = [stop EXCEPT ![s] = "written"]
          /\ row' = IF seen[s] = "stopped" THEN row ELSE "stopped"
       \/ /\ stop' = [stop EXCEPT ![s] = "rejected"]
          /\ UNCHANGED row
    /\ UNCHANGED <<contractVars, stored, taskVars, seen, delete, events>>

\* The broadcast, and the answer {"stopped": true}.
StopAnswers(s) ==
    /\ stop[s] = "written"
    /\ stop' = [stop EXCEPT ![s] = "accepted"]
    /\ Broadcast("stopped")
    /\ UNCHANGED <<contractVars, row, stored, taskVars, seen, delete>>

-----------------------------------------------------------------------------
(***************************************************************************)
(* DELETE /api/load-tests/{run_id} and DELETE /api/load-tests.             *)
(***************************************************************************)

\* The select of the single-run endpoint; the engine is not told.
DeleteLoads(d) ==
    /\ delete[d] = "idle"
    /\ task # "none"
    /\ \/ row # "none" /\ delete' = [delete EXCEPT ![d] = "writing"]
       \/ delete' = [delete EXCEPT ![d] = "rejected"]
    /\ UNCHANGED <<contractVars, row, stored, taskVars, stopVars, events>>

\* Results and row go in one transaction.  The clear-all endpoint comes here
\* without the select.
DeleteWrites(d) ==
    /\ \/ delete[d] = "writing"
       \/ delete[d] = "idle" /\ task # "none"
    /\ \/ /\ delete' = [delete EXCEPT ![d] = "accepted"]
          /\ row' = "none"
          /\ stored' = 0
       \/ /\ delete' = [delete EXCEPT ![d] = "rejected"]
          /\ UNCHANGED <<row, stored>>
    /\ UNCHANGED <<contractVars, taskVars, stopVars, events>>

-----------------------------------------------------------------------------
Task == \/ TaskLoads \/ TaskStarts \/ TaskAnnounces \/ TaskEntersEngine
        \/ TaskReloads \/ TaskFinishes \/ TaskRescues \/ TaskFails

Engine == \/ EngineCommitsRows \/ EngineProgress \/ EngineCondemns
          \/ EngineCloses \/ EngineLeaves

Next == \/ Create
        \/ Task
        \/ Engine
        \/ \E s \in Stops : StopLoads(s) \/ StopWrites(s) \/ StopAnswers(s)
        \/ \E d \in Deletes : DeleteLoads(d) \/ DeleteWrites(d)

Spec == Init /\ [][Next]_vars

\* The event loop resumes every task and handler that was started; the engine
\* comes back as its contract promises.  Nobody is obliged to call anything.
FairSpec ==
    /\ Spec
    /\ WF_vars(Task)
    /\ WF_vars(EngineCloses)
    /\ WF_vars(EngineLeaves)
    /\ \A s \in Stops : WF_vars(StopWrites(s)) /\ WF_vars(StopAnswers(s))

-----------------------------------------------------------------------------
(***************************************************************************)
(* Properties.                                                             *)
(***************************************************************************)
Happened(kind) == \E i \in DOMAIN events : events[i] = kind
Finished == {"completed", "failed"}

\* Every variable holds a value the code could store in it.
TypeOK ==
    /\ ContractTypeOK
    /\ row \in {"none"} \cup Statuses
    /\ stored \in 0..MaxRows
    /\ task \in {"none", "queued", "starting", "started", "announced", "engine",
                 "finishing", "finished", "rescue", "failing", "failed", "done", "lost"}
    /\ cached \in Statuses
    /\ stop \in [Stops -> {"idle", "writing", "written", "accepted", "rejected"}]
    /\ seen \in [Stops -> Statuses]
    /\ delete \in [Deletes -> {"idle", "writing", "accepted", "rejected"}]
    /\ events \in Seq(Kinds)

\* The order of a run's messages, on which the frontend's store depends:
\* "started" comes first among the task's messages and at most once, there is
\* at most one outcome, and no progress is reported after it.
EventOrder ==
    \A i, j \in DOMAIN events : i < j =>
        /\ events[j] = "started" => events[i] = "stopped"
        /\ events[i] \in Finished => events[j] \in {"stopped", "alert"}

\* A client that hears of an outcome and then fetches the run finds it: the
\* outcome is committed before it is announced, and nothing but a stop or a
\* delete changes the row afterwards.
OutcomeIsCommitted ==
    /\ Happened("completed") => row \in {"completed", "stopped", "none"}
    /\ Happened("failed")    => row \in {"failed", "stopped", "none"}

\* A run that is deleted stays deleted: neither the task nor a stop in flight,
\* both of which loaded the row before, writes it back.
NoResurrection == [][task # "none" /\ row = "none" => row' = "none"]_vars

\* A run's outcome is final but for a stop that overtakes it.
OutcomeIsFinal ==
    [][(row \in Finished) => (row' \in {row, "stopped", "none"})]_vars

\* Every run that was created gets a final status (or is deleted), whatever
\* stop and delete calls do in between and whichever statement of the try
\* block raises.  The one exception is a statement of the except clause
\* itself that raises (load_tests.py:72, 78): such a run may say "pending" or
\* "running" for ever.
RunSettles ==
    task # "none" ~> [](row \in Finished \cup {"stopped", "none"} \/ task = "lost")

\* Every run that was announced gets an outcome announced, unless it is
\* deleted or the except clause itself raises.
OutcomeIsAnnounced ==
    Happened("started") ~>
        (Happened("completed") \/ Happened("failed") \/ row = "none" \/ task = "lost")

-----------------------------------------------------------------------------
(***************************************************************************)
(* What the documentation says of runs, and the code does not do.          *)
(***************************************************************************)

\* A stopped run does not turn into a completed one: "load_test_stopped ...
\* (status: `stopped`)", README.md:507, and the guard of load_tests.py:60.
StoppedIsNotCompleted == [][row = "stopped" => row' # "completed"]_vars

\* "Immediately halt an active load test", README.md:382: once the stop
\* endpoint has answered for a run it found "running", the run is not active.
StopHalts ==
    \A s \in Stops : (stop[s] = "accepted" /\ seen[s] = "running") => flag # "on"
=============================================================================
