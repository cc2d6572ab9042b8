------------------------ MODULE BenchmarkRun_proofs ------------------------
(***************************************************************************)
(* The safety of BenchmarkRun for any number of iterations and any calls   *)
(* of the stop and delete endpoints.                                       *)
(***************************************************************************)
EXTENDS BenchmarkRun, TLAPS

\* Where the iteration that was begun last has not been counted yet.
Uncounted == {"request", "insert", "commit", "tracing"}

\* Results are counted after their iteration began, and stored before they are
\* counted.
Counting ==
    /\ task \in Uncounted => results < index
    /\ results <= index
    /\ stored <= results + (IF task = "tracing" THEN 1 ELSE 0)

TypeInv == TypeOK /\ Counting

\* The head of the loop keeps the bound on the iterations.
LEMMA NextIterationType ==
  ASSUME TypeInv, NEW entry \in {"absent", "on", "off"}, NextIteration(entry)
  PROVE  /\ flag' \in {"absent", "on", "off"}
         /\ task' \in {"request", "reloading"}
         /\ index' \in 0..Iterations
         /\ index' >= index
         /\ task' = "request" => index' = index + 1
BY IterationsAssumption DEF TypeInv, TypeOK, NextIteration

\* A message is added to the run's messages.
LEMMA BroadcastType ==
  ASSUME events \in Seq(Kinds), NEW kind \in Kinds, Broadcast(kind)
  PROVE  events' \in Seq(Kinds)
BY DEF Broadcast

\* Every variable keeps its type, and no result is counted or stored that was
\* not asked for.
THEOREM TypeCorrect == Spec => []TypeOK
<1>1. Init => TypeInv
  <2> SUFFICES ASSUME Init PROVE TypeInv
    OBVIOUS
  <2> USE IterationsAssumption
  <2>1. /\ row \in {"none"} \cup Statuses
        /\ stored \in 0..Iterations
        /\ flag \in {"absent", "on", "off"}
        /\ index \in 0..Iterations
        /\ results \in 0..Iterations
        /\ events \in Seq(Kinds)
    BY DEF Init
  <2>2. broken \in BOOLEAN
    BY DEF Init
  <2>3. /\ stop \in [Stops -> {"idle", "writing", "written", "accepted", "rejected"}]
        /\ seen \in [Stops -> Statuses]
        /\ mark \in [Stops -> -1..Iterations]
        /\ delete \in [Deletes -> {"idle", "writing", "accepted", "rejected"}]
    BY DEF Init, Statuses
  <2>4. task = "none"
    BY DEF Init
  <2>5. Counting
    BY DEF Init, Counting, Uncounted
  <2> QED BY <2>1, <2>2, <2>3, <2>4, <2>5 DEF TypeInv, TypeOK, Looping
<1>2. TypeInv /\ [Next]_vars => TypeInv'
  <2> SUFFICES ASSUME TypeInv, [Next]_vars PROVE TypeInv'
    OBVIOUS
  <2> USE IterationsAssumption DEF TypeInv, TypeOK, Counting, Uncounted, Looping,
          loopVars, stopVars
  <2>1. CASE Create
    BY <2>1 DEF Create, Statuses
  <2>2. CASE TaskLoads \/ RequestEnds \/ Insert \/ TaskReloads \/ TaskRescues
    BY <2>2 DEF TaskLoads, RequestEnds, Insert, TaskReloads, TaskRescues
  <2>3. CASE TaskStarts \/ TaskFinishes \/ TaskFails
    BY <2>3 DEF TaskStarts, TaskFinishes, TaskFails, Statuses
  <2>4. CASE TaskEnters
    <3>1. CASE NextIteration("on")
      BY <2>4, <3>1, NextIterationType DEF TaskEnters
    <3>2. CASE ~NextIteration("on")
      BY <2>4, <3>2 DEF TaskEnters
    <3> QED BY <3>1, <3>2
  <2>5. CASE InsertFails
    BY <2>5 DEF InsertFails
  <2>6. CASE Commit
    BY <2>6 DEF Commit
  <2>7. CASE CommitFails \/ Trace
    <3>1. results < index /\ results + 1 \in 0..Iterations
      BY <2>7 DEF CommitFails, Trace
    <3>2. task' = "reporting" /\ results' = results + 1 /\ broken' \in BOOLEAN
      BY <2>7 DEF CommitFails, Trace
    <3>3. stored' <= results'
      BY <2>7, <3>1, <3>2 DEF CommitFails, Trace
    <3> QED BY <2>7, <3>1, <3>2, <3>3 DEF CommitFails, Trace
  <2>8. CASE Report
    <3>1. events' \in Seq(Kinds)
      BY <2>8, BroadcastType DEF Report, Kinds
    <3> QED BY <2>8, <3>1, NextIterationType DEF Report
  <2>9. CASE TaskAnnounces
    <3>1. events' \in Seq(Kinds)
      BY <2>9, BroadcastType DEF TaskAnnounces, Kinds
    <3> QED BY <2>9, <3>1 DEF TaskAnnounces
  <2>10. ASSUME NEW s \in Stops, StopLoads(s) PROVE TypeInv'
    <3>1. stop' \in [Stops -> {"idle", "writing", "written", "accepted", "rejected"}]
      BY <2>10 DEF StopLoads
    <3>2. seen' \in [Stops -> Statuses]
      BY <2>10 DEF StopLoads
    <3>3. mark' \in [Stops -> -1..Iterations]
      <4>1. index \in -1..Iterations /\ -1 \in -1..Iterations
        OBVIOUS
      <4>2. \/ mark' = mark
            \/ mark' = [mark EXCEPT ![s] = index]
            \/ mark' = [mark EXCEPT ![s] = -1]
        BY <2>10 DEF StopLoads
      <4> QED BY <4>1, <4>2
    <3> QED BY <2>10, <3>1, <3>2, <3>3 DEF StopLoads
  <2>11. ASSUME NEW s \in Stops, StopWrites(s) PROVE TypeInv'
    <3>1. stop' \in [Stops -> {"idle", "writing", "written", "accepted", "rejected"}]
      BY <2>11 DEF StopWrites
    <3>2. row' \in {"none"} \cup Statuses
      BY <2>11 DEF StopWrites, Statuses
    <3> QED BY <2>11, <3>1, <3>2 DEF StopWrites
  <2>12. ASSUME NEW s \in Stops, StopAnswers(s) PROVE TypeInv'
    <3>1. events' \in Seq(Kinds)
      BY <2>12, BroadcastType DEF StopAnswers, Kinds
    <3>2. stop' \in [Stops -> {"idle", "writing", "written", "accepted", "rejected"}]
      BY <2>12 DEF StopAnswers
    <3> QED BY <2>12, <3>1, <3>2 DEF StopAnswers
  <2>13. ASSUME NEW d \in Deletes, DeleteLoads(d) \/ DeleteWrites(d) PROVE TypeInv'
    <3>1. delete' \in [Deletes -> {"idle", "writing", "accepted", "rejected"}]
      BY <2>13 DEF DeleteLoads, DeleteWrites
    <3>2. stored' \in 0..Iterations /\ (stored' = stored \/ stored' = 0)
      BY <2>13 DEF DeleteLoads, DeleteWrites
    <3>3. row' \in {"none"} \cup Statuses
      BY <2>13 DEF DeleteLoads, DeleteWrites
    <3> QED BY <2>13, <3>1, <3>2, <3>3 DEF DeleteLoads, DeleteWrites
  <2>14. CASE UNCHANGED vars
    BY <2>14 DEF vars
  <2> QED BY <2>1, <2>2, <2>3, <2>4, <2>5, <2>6, <2>7, <2>8, <2>9, <2>10, <2>11,
             <2>12, <2>13, <2>14 DEF Next, Task
<1>3. TypeInv => TypeOK
  BY DEF TypeInv
<1> QED BY <1>1, <1>2, <1>3, PTL DEF Spec

-----------------------------------------------------------------------------
\* Where the task has just used its session without an error.
Sound == {"commit", "tracing", "finishing", "finished"}

\* While the session is sound, every counted result is stored, and the one
\* whose commit has just returned besides; a broken session cannot bring the
\* task to its commit of "completed".
SessionInv ==
    /\ ~broken /\ ~Deleted => stored = results + (IF task = "tracing" THEN 1 ELSE 0)
    /\ task \in Sound => ~broken
    /\ row = "completed" \/ Happened("completed") =>
          ~broken /\ task \in {"finished", "done"}

\* A delete is never undone.
LEMMA DeletedStays ==
  ASSUME TypeOK, [Next]_vars, Deleted
  PROVE  Deleted'
<1>1. PICK e \in Deletes : delete[e] = "accepted"
  BY DEF Deleted
<1>2. delete'[e] = "accepted"
  <2>1. ASSUME NEW d \in Deletes, DeleteLoads(d) \/ DeleteWrites(d)
        PROVE  delete'[e] = "accepted"
    <3>1. d # e \/ delete' = [delete EXCEPT ![d] = "accepted"]
      BY <1>1, <2>1 DEF DeleteLoads, DeleteWrites
    <3>2. \E x \in {"rejected", "writing", "accepted"} : delete' = [delete EXCEPT ![d] = x]
      BY <2>1 DEF DeleteLoads, DeleteWrites
    <3> QED BY <1>1, <3>1, <3>2 DEF TypeOK
  <2>2. ASSUME UNCHANGED delete PROVE delete'[e] = "accepted"
    BY <1>1, <2>2
  <2>3. CASE Create \/ Task
    BY <2>2, <2>3 DEF Create, Task, TaskLoads, TaskStarts, TaskEnters, RequestEnds,
       Insert, InsertFails, Commit, CommitFails, Trace, Report, TaskReloads,
       TaskFinishes, TaskRescues, TaskFails, TaskAnnounces
  <2>4. ASSUME NEW s \in Stops, StopLoads(s) \/ StopWrites(s) \/ StopAnswers(s)
        PROVE  delete'[e] = "accepted"
    BY <2>2, <2>4 DEF StopLoads, StopWrites, StopAnswers
  <2>5. CASE UNCHANGED vars
    BY <2>2, <2>5 DEF vars
  <2> QED BY <2>1, <2>3, <2>4, <2>5 DEF Next
<1> QED BY <1>2 DEF Deleted

\* What has happened while no message is broadcast.
LEMMA SilenceKeeps ==
  ASSUME UNCHANGED events, NEW k
  PROVE  Happened(k)' <=> Happened(k)
BY DEF Happened

\* What has happened after a message was broadcast.
LEMMA BroadcastAdds ==
  ASSUME events \in Seq(Kinds), NEW kind \in Kinds, Broadcast(kind), NEW k
  PROVE  Happened(k)' <=> (Happened(k) \/ k = kind)
<1>1. /\ Len(events') = Len(events) + 1
      /\ \A i \in 1..Len(events) : events'[i] = events[i]
      /\ events'[Len(events) + 1] = kind
      /\ DOMAIN events = 1..Len(events)
      /\ DOMAIN events' = 1..(Len(events) + 1)
      /\ Len(events) \in Nat
  BY DEF Broadcast
<1>2. ASSUME Happened(k)' PROVE Happened(k) \/ k = kind
  BY <1>1, <1>2 DEF Happened
<1>3. ASSUME Happened(k) PROVE Happened(k)'
  BY <1>1, <1>3 DEF Happened
<1>4. ASSUME k = kind PROVE Happened(k)'
  BY <1>1, <1>4 DEF Happened
<1> QED BY <1>2, <1>3, <1>4

\* A completed benchmark shows the aggregates of exactly the results it keeps.
THEOREM AggregatesCorrect == Spec => []AggregatesAreBacked
<1>1. Init => SessionInv
  BY DEF Init, SessionInv, Sound, Happened
<1>2. TypeOK /\ SessionInv /\ [Next]_vars => SessionInv'
  <2> SUFFICES ASSUME TypeOK, SessionInv, [Next]_vars PROVE SessionInv'
    OBVIOUS
  <2>0. [Next]_vars
    OBVIOUS
  <2> DEFINE completed == Happened("completed")
  <2>1. Deleted => Deleted'
    BY DeletedStays
  <2>2. UNCHANGED events => (completed' <=> completed)
    BY SilenceKeeps
  <2>3. events \in Seq(Kinds) /\ stored \in Nat /\ results \in Nat
    BY IterationsAssumption DEF TypeOK
  <2>4. ASSUME NEW kind \in Kinds, Broadcast(kind), kind # "completed"
        PROVE  completed' <=> completed
    BY <2>3, <2>4, BroadcastAdds
  <2> HIDE DEF completed
  <2>5. /\ ~broken /\ ~Deleted => stored = results + (IF task = "tracing" THEN 1 ELSE 0)
        /\ task \in Sound => ~broken
        /\ row = "completed" \/ completed => ~broken /\ task \in {"finished", "done"}
    BY DEF SessionInv, completed
  <2> DEFINE Goal ==
        /\ ~broken' /\ ~Deleted' =>
              stored' = results' + (IF task' = "tracing" THEN 1 ELSE 0)
        /\ task' \in Sound => ~broken'
        /\ row' = "completed" \/ completed' => ~broken' /\ task' \in {"finished", "done"}
  <2>6. SUFFICES Goal
    BY DEF SessionInv, completed
  <2> USE <2>1, <2>2, <2>3, <2>5 DEF Sound, loopVars, stopVars
  <2>7. CASE Create \/ TaskLoads
    BY <2>7 DEF Create, TaskLoads
  <2>8. CASE TaskStarts \/ TaskFinishes \/ TaskFails
    BY <2>8 DEF TaskStarts, TaskFinishes, TaskFails
  <2>9. CASE RequestEnds \/ Insert \/ InsertFails \/ TaskReloads \/ TaskRescues
    BY <2>9 DEF RequestEnds, Insert, InsertFails, TaskReloads, TaskRescues
  <2>10. CASE TaskEnters
    BY <2>10 DEF TaskEnters, NextIteration
  <2>11. CASE Commit \/ CommitFails
    BY <2>11 DEF Commit, CommitFails
  <2>18. CASE Trace
    <3>1. /\ task = "tracing" /\ task' = "reporting"
          /\ stored' = stored /\ results' = results + 1
          /\ row # "completed" /\ ~completed /\ UNCHANGED <<row, delete, events>>
      BY <2>18 DEF Trace
    <3>2. stored = results + 1 \/ Deleted
      BY <3>1
    <3> QED BY <3>1, <3>2
  <2>12. CASE Report
    <3>1. completed' <=> completed
      BY <2>4, <2>12 DEF Report, Kinds
    <3> QED BY <2>12, <3>1 DEF Report, NextIteration
  <2>13. CASE TaskAnnounces
    <3>1. CASE task = "finished"
      BY <2>13, <3>1 DEF TaskAnnounces
    <3>2. CASE task = "failed" /\ Broadcast("failed")
      <4>1. completed' <=> completed
        BY <2>4, <3>2 DEF Kinds
      <4> QED BY <2>13, <3>2, <4>1 DEF TaskAnnounces
    <3> QED BY <2>13, <3>1, <3>2 DEF TaskAnnounces
  <2>14. ASSUME NEW s \in Stops, StopLoads(s) \/ StopWrites(s)
         PROVE  Goal
    BY <2>14 DEF StopLoads, StopWrites
  <2>15. ASSUME NEW s \in Stops, StopAnswers(s)
         PROVE  Goal
    <3>1. completed' <=> completed
      BY <2>4, <2>15 DEF StopAnswers, Kinds
    <3> QED BY <2>15, <3>1 DEF StopAnswers
  <2>16. ASSUME NEW d \in Deletes, DeleteLoads(d) \/ DeleteWrites(d)
         PROVE  Goal
    <3>1. CASE DeleteLoads(d)
      BY <3>1 DEF DeleteLoads
    <3>2. CASE DeleteWrites(d)
      <4>1. CASE UNCHANGED <<row, stored>>
        BY <3>2, <4>1 DEF DeleteWrites
      <4>2. CASE delete' = [delete EXCEPT ![d] = "accepted"] /\ row' = "none"
        <5>1. Deleted'
          BY <4>2 DEF TypeOK, Deleted
        <5> QED BY <3>2, <4>2, <5>1 DEF DeleteWrites
      <4> QED BY <3>2, <4>1, <4>2 DEF DeleteWrites
    <3> QED BY <2>16, <3>1, <3>2
  <2>17. CASE UNCHANGED vars
    BY <2>17 DEF vars
  <2> HIDE DEF Goal
  <2> QED BY ONLY <2>0, <2>7, <2>8, <2>9, <2>10, <2>11, <2>12, <2>13, <2>14, <2>15,
                  <2>16, <2>17, <2>18 DEF Next, Task
<1>3. TypeOK /\ SessionInv => AggregatesAreBacked
  BY IterationsAssumption DEF TypeOK, SessionInv, Sound, AggregatesAreBacked
<1> QED BY <1>1, <1>2, <1>3, TypeCorrect, PTL DEF Spec

-----------------------------------------------------------------------------
\* A stop that found the loop running has switched the entry off for good, and
\* the loop is not entered a second time.
StopInv ==
    \A s \in Stops : mark[s] # -1 =>
        /\ index = mark[s]
        /\ flag # "on"
        /\ task \notin {"none", "queued", "starting", "started"}

\* A stopped loop begins no further iteration.
THEOREM StopCorrect == Spec => []StopEndsAfterIteration
<1>1. Init => StopInv
  BY DEF Init, StopInv
<1>2. TypeOK /\ StopInv /\ [Next]_vars => StopInv'
  <2> SUFFICES ASSUME TypeOK, StopInv, [Next]_vars PROVE StopInv'
    OBVIOUS
  <2> USE DEF StopInv, loopVars, stopVars
  <2>1. CASE Create \/ TaskLoads \/ TaskStarts
    BY <2>1 DEF Create, TaskLoads, TaskStarts
  <2>2. CASE TaskEnters
    BY <2>2 DEF TaskEnters
  <2>3. CASE RequestEnds \/ Insert \/ InsertFails \/ Commit \/ CommitFails \/ Trace
    BY <2>3 DEF RequestEnds, Insert, InsertFails, Commit, CommitFails, Trace
  <2>4. CASE Report
    BY <2>4 DEF Report, NextIteration
  <2>5. CASE TaskReloads \/ TaskFinishes \/ TaskRescues \/ TaskFails \/ TaskAnnounces
    BY <2>5 DEF TaskReloads, TaskFinishes, TaskRescues, TaskFails, TaskAnnounces
  <2>6. ASSUME NEW s \in Stops, StopLoads(s) PROVE StopInv'
    <3>1. CASE UNCHANGED <<seen, mark, flag>>
      BY <2>6, <3>1 DEF StopLoads
    <3>2. CASE mark' = [mark EXCEPT ![s] = IF task \in Looping THEN index ELSE -1] /\ flag' = "off"
      <4>1. /\ mark' = [mark EXCEPT ![s] = IF task \in Looping THEN index ELSE -1]
            /\ flag' = "off"
            /\ UNCHANGED <<task, index>>
        BY <2>6, <3>2 DEF StopLoads
      <4>2. ASSUME NEW r \in Stops, mark'[r] # -1
            PROVE  index = mark'[r] /\ task \notin {"none", "queued", "starting", "started"}
        BY <4>1, <4>2 DEF TypeOK, Looping
      <4> QED BY <4>1, <4>2
    <3> QED BY <2>6, <3>1, <3>2 DEF StopLoads
  <2>7. ASSUME NEW s \in Stops, StopWrites(s) \/ StopAnswers(s) PROVE StopInv'
    BY <2>7 DEF StopWrites, StopAnswers
  <2>8. ASSUME NEW d \in Deletes, DeleteLoads(d) \/ DeleteWrites(d) PROVE StopInv'
    BY <2>8 DEF DeleteLoads, DeleteWrites
  <2>9. CASE UNCHANGED vars
    BY <2>9 DEF vars
  <2> QED BY <2>1, <2>2, <2>3, <2>4, <2>5, <2>6, <2>7, <2>8, <2>9 DEF Next, Task
<1>3. StopInv => StopEndsAfterIteration
  BY DEF StopInv, StopEndsAfterIteration
<1> QED BY <1>1, <1>2, <1>3, TypeCorrect, PTL DEF Spec
=============================================================================
