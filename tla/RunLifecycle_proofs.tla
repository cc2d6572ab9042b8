------------------------ MODULE RunLifecycle_proofs ------------------------
(***************************************************************************)
(* The safety of RunLifecycle for any stop and delete calls and any number *)
(* of result rows, whatever an engine does that keeps its contract; and,   *)
(* beside it, what a browser shows of the run, for any loss of messages    *)
(* and any order of messages and answers.                                  *)
(***************************************************************************)
EXTENDS RunView, TLAPS

\* The task's own progress decides what the row and the engine can be: no
\* final status is committed before the engine is over, and the engine runs
\* only while the task awaits it.
Early == {"none", "queued", "starting", "started"}

StepInv ==
    /\ cached # "stopped"
    /\ phase \in {"running", "closing"} => task = "engine"
    /\ task \in Early => phase = "boot"
    /\ row \in Finished => task \in {"finished", "failed", "done"}
    /\ task = "finished" => row \in {"completed", "stopped", "none"}
    /\ task = "failed"   => row \in {"failed", "stopped", "none"}

\* Rows in the database are rows the engine committed.
TypeInv == TypeOK /\ stored <= rows

\* Before the task announces the run only stop calls are heard, and nothing
\* follows its outcome.
EventInv ==
    /\ \A i \in DOMAIN events : task \in Early => events[i] = "stopped"
    /\ \A i \in DOMAIN events : events[i] \in Finished => task = "done"
    /\ EventOrder
    /\ OutcomeIsCommitted

\* A message is added after the run's messages.
LEMMA BroadcastAdds ==
  ASSUME events \in Seq(Kinds), NEW kind \in Kinds, Broadcast(kind)
  PROVE  /\ events' \in Seq(Kinds)
         /\ DOMAIN events' = DOMAIN events \cup {Len(events) + 1}
         /\ \A i \in DOMAIN events : events'[i] = events[i] /\ i < Len(events) + 1
         /\ events'[Len(events) + 1] = kind
BY DEF Broadcast

\* The rows of one more commit are within what the engine has committed.
LEMMA RowsAdded ==
  ASSUME NEW max \in Nat, NEW old \in 0..max, NEW new \in old..max,
         NEW kept \in 0..max, kept <= old
  PROVE  /\ new \in 0..max
         /\ kept + (new - old) \in 0..max
         /\ kept + (new - old) <= new
OBVIOUS

-----------------------------------------------------------------------------
\* Every variable of a run's life keeps its type, and no row is in the database
\* that the engine did not commit.
THEOREM TypeCorrect == Spec => []TypeOK
<1>1. Init => TypeInv
  <2> SUFFICES ASSUME Init PROVE TypeInv
    OBVIOUS
  <2>1. aborted \in BOOLEAN
    BY DEF Init, ContractInit
  <2>2. events \in Seq(Kinds)
    BY DEF Init
  <2> QED BY <2>1, <2>2, LifecycleAssumption
             DEF Init, TypeInv, TypeOK, ContractInit, ContractTypeOK, Phases, Flags, Statuses
<1>2. TypeInv /\ [Next]_vars => TypeInv'
  <2> SUFFICES ASSUME TypeInv, [Next]_vars
               PROVE  TypeInv'
    OBVIOUS
  <2> USE LifecycleAssumption DEF TypeInv, TypeOK, ContractTypeOK, Phases, Flags, Statuses
  <2>1. CASE Create
    BY <2>1 DEF Create, contractVars, stopVars
  <2>2. CASE Task
    <3>1. CASE TaskLoads \/ TaskStarts \/ TaskFinishes \/ TaskRescues \/ TaskFails
      BY <3>1 DEF TaskLoads, TaskStarts, TaskFinishes, TaskRescues, TaskFails,
                  contractVars, stopVars
    <3>2. CASE TaskReloads
      BY <3>2 DEF TaskReloads, Reselected, ExpireOnCommit, contractVars, stopVars
    <3>3. CASE TaskEntersEngine
      BY <3>3 DEF TaskEntersEngine, Start, stopVars
    <3>4. CASE TaskAnnounces
      <4>1. events' \in Seq(Kinds)
        BY <3>4, BroadcastAdds DEF TaskAnnounces, Kinds
      <4> QED BY <3>4, <4>1 DEF TaskAnnounces, contractVars, stopVars
    <3> QED BY <2>2, <3>1, <3>2, <3>3, <3>4 DEF Task
  <2>3. CASE Engine
    <3>1. CASE EngineCommitsRows
      <4>1. /\ rows' \in rows..MaxRows
            /\ stored' = stored + (rows' - rows)
            /\ UNCHANGED <<phase, flag, aborted, row, task, cached, stop, seen, delete, events>>
        BY <3>1 DEF EngineCommitsRows, CommitRows, EngineFrame, taskVars, stopVars
      <4>2. stored' \in 0..MaxRows /\ rows' \in 0..MaxRows /\ stored' <= rows'
        BY <4>1, RowsAdded
      <4>3. aborted' \in BOOLEAN /\ events' \in Seq(Kinds)
        BY <4>1
      <4>4. UNCHANGED <<phase, flag, row, task, cached, stop, seen, delete>>
        BY <4>1
      <4> QED BY <4>2, <4>3, <4>4
    <3>2. CASE EngineProgress \/ EngineCondemns
      <4>1. events' \in Seq(Kinds)
        BY <3>2, BroadcastAdds DEF EngineProgress, EngineCondemns, Kinds
      <4>2. aborted' \in BOOLEAN
        BY <3>2 DEF EngineProgress, EngineCondemns, Condemn, contractVars
      <4>3. flag' \in Flags
        BY <3>2 DEF EngineProgress, EngineCondemns, Condemn, contractVars
      <4>4. UNCHANGED <<phase, rows, stored, row, task, cached, stop, seen, delete>>
        BY <3>2 DEF EngineProgress, EngineCondemns, Condemn, EngineFrame,
                    contractVars, taskVars, stopVars
      <4> QED BY <4>1, <4>2, <4>3, <4>4
    <3>3. CASE EngineCloses \/ EngineLeaves
      BY <3>3 DEF EngineCloses, EngineLeaves, Close, Leave, EngineFrame, taskVars, stopVars
    <3> QED BY <2>3, <3>1, <3>2, <3>3 DEF Engine
  <2>4. ASSUME NEW s \in Stops, StopLoads(s) \/ StopWrites(s)
        PROVE  TypeInv'
    BY <2>4 DEF StopLoads, StopWrites, StopRun, contractVars, taskVars
  <2>5. ASSUME NEW s \in Stops, StopAnswers(s)
        PROVE  TypeInv'
    <3>1. events' \in Seq(Kinds)
      BY <2>5, BroadcastAdds DEF StopAnswers, Kinds
    <3> QED BY <2>5, <3>1 DEF StopAnswers, contractVars, taskVars
  <2>6. ASSUME NEW d \in Deletes, DeleteLoads(d) \/ DeleteWrites(d)
        PROVE  TypeInv'
    BY <2>6 DEF DeleteLoads, DeleteWrites, contractVars, taskVars, stopVars
  <2>7. CASE UNCHANGED vars
    BY <2>7 DEF vars
  <2> QED BY <2>1, <2>2, <2>3, <2>4, <2>5, <2>6, <2>7 DEF Next
<1> QED BY <1>1, <1>2, PTL DEF Spec, TypeInv

-----------------------------------------------------------------------------
\* The task, the engine and the row keep step.
LEMMA StepCorrect == Spec => []StepInv
<1>1. Init => StepInv
  BY DEF Init, ContractInit, StepInv, Finished, Early
<1>2. StepInv /\ [Next]_vars => StepInv'
  <2> SUFFICES ASSUME StepInv, [Next]_vars
               PROVE  StepInv'
    OBVIOUS
  <2> USE DEF StepInv, Finished, Early
  <2>1. CASE Create
    BY <2>1 DEF Create, contractVars
  <2>2. CASE Task
    <3>1. CASE TaskLoads \/ TaskStarts \/ TaskFinishes \/ TaskRescues \/ TaskFails
      BY <3>1 DEF TaskLoads, TaskStarts, TaskFinishes, TaskRescues, TaskFails, contractVars
    <3>2. CASE TaskReloads
      BY <3>2 DEF TaskReloads, Reselected, ExpireOnCommit, contractVars
    <3>3. CASE TaskEntersEngine \/ TaskAnnounces
      BY <3>3 DEF TaskEntersEngine, Start, TaskAnnounces, contractVars
    <3> QED BY <2>2, <3>1, <3>2, <3>3 DEF Task
  <2>3. CASE Engine
    BY <2>3 DEF Engine, EngineCommitsRows, EngineProgress, EngineCondemns, EngineCloses,
                EngineLeaves, CommitRows, Condemn, Close, Leave, EngineFrame,
                contractVars, taskVars
  <2>4. ASSUME NEW s \in Stops, StopLoads(s) \/ StopWrites(s) \/ StopAnswers(s)
        PROVE  StepInv'
    BY <2>4 DEF StopLoads, StopWrites, StopAnswers, StopRun, contractVars, taskVars
  <2>5. ASSUME NEW d \in Deletes, DeleteLoads(d) \/ DeleteWrites(d)
        PROVE  StepInv'
    BY <2>5 DEF DeleteLoads, DeleteWrites, contractVars, taskVars
  <2>6. CASE UNCHANGED vars
    BY <2>6 DEF vars
  <2> QED BY <2>1, <2>2, <2>3, <2>4, <2>5, <2>6 DEF Next
<1> QED BY <1>1, <1>2, PTL DEF Spec

-----------------------------------------------------------------------------
\* What a step may do to the messages: a message is the task's, and then the
\* task moves with it, or somebody else's.
Announces(kind, from, to) ==
    Broadcast(kind) /\ task = from /\ task' = to /\ row' = row

LEMMA Messages ==
  ASSUME StepInv, [Next]_vars
  PROVE  \/ UNCHANGED events
         \/ Announces("started", "started", "announced")
         \/ Announces("completed", "finished", "done")
         \/ Announces("failed", "failed", "done")
         \/ /\ UNCHANGED <<task, row>>
            /\ \/ Broadcast("stopped")
               \/ Broadcast("alert") /\ phase # "boot"
               \/ Broadcast("progress") /\ phase = "running"
<1>1. CASE Create \/ UNCHANGED vars
  BY <1>1 DEF Create, vars
<1>2. CASE Task
  BY <1>2 DEF Task, TaskLoads, TaskStarts, TaskAnnounces, TaskEntersEngine,
              TaskReloads, TaskFinishes, TaskRescues, TaskFails, Announces
<1>3. CASE Engine
  BY <1>3 DEF Engine, EngineCommitsRows, EngineProgress, EngineCondemns, EngineCloses,
              EngineLeaves, Condemn, EngineFrame, taskVars
<1>4. ASSUME NEW s \in Stops, StopLoads(s) \/ StopWrites(s) \/ StopAnswers(s)
      PROVE  \/ UNCHANGED events
             \/ UNCHANGED <<task, row>> /\ Broadcast("stopped")
  BY <1>4 DEF StopLoads, StopWrites, StopAnswers, taskVars
<1>5. ASSUME NEW d \in Deletes, DeleteLoads(d) \/ DeleteWrites(d)
      PROVE  UNCHANGED events
  BY <1>5 DEF DeleteLoads, DeleteWrites
<1> QED BY <1>1, <1>2, <1>3, <1>4, <1>5 DEF Next

\* What a step may do to the row once the task has said everything.
LEMMA Moves ==
  ASSUME StepInv, [Next]_vars
  PROVE  /\ task' \in Early => task \in Early
         /\ task = "done" => task' = "done" /\ row' \in {row, "stopped", "none"}
<1>1. CASE Create \/ UNCHANGED vars
  BY <1>1 DEF Create, vars, Early
<1>2. CASE Task
  BY <1>2 DEF Task, TaskLoads, TaskStarts, TaskAnnounces, TaskEntersEngine,
              TaskReloads, TaskFinishes, TaskRescues, TaskFails, Early
<1>3. CASE Engine
  BY <1>3 DEF Engine, EngineCommitsRows, EngineProgress, EngineCondemns, EngineCloses,
              EngineLeaves, EngineFrame, taskVars
<1>4. ASSUME NEW s \in Stops, StopLoads(s) \/ StopWrites(s) \/ StopAnswers(s)
      PROVE  UNCHANGED task /\ row' \in {row, "stopped"}
  BY <1>4 DEF StopLoads, StopWrites, StopAnswers, taskVars
<1>5. ASSUME NEW d \in Deletes, DeleteLoads(d) \/ DeleteWrites(d)
      PROVE  UNCHANGED task /\ row' \in {row, "none"}
  BY <1>5 DEF DeleteLoads, DeleteWrites, taskVars
<1> QED BY <1>1, <1>2, <1>3, <1>4, <1>5 DEF Next

\* One more message keeps the order of the messages and what they say of the
\* row.
LEMMA MessageKeepsOrder ==
  ASSUME events \in Seq(Kinds), EventInv, NEW kind \in Kinds, Broadcast(kind),
         task' \in Early => task \in Early /\ kind = "stopped",
         task = "done" => task' = "done" /\ kind \in {"stopped", "alert"},
         kind \in Finished => task' = "done",
         kind = "started" => task \in Early,
         row' = row,
         kind = "completed" => row \in {"completed", "stopped", "none"},
         kind = "failed" => row \in {"failed", "stopped", "none"}
  PROVE  EventInv'
<1> DEFINE n == Len(events) + 1
<1>1. /\ DOMAIN events' = DOMAIN events \cup {n}
      /\ \A i \in DOMAIN events : events'[i] = events[i] /\ i < n
      /\ events'[n] = kind
  BY BroadcastAdds
<1>2. DOMAIN events \subseteq Nat /\ n \in Nat
  OBVIOUS
<1> HIDE DEF n
<1>3. \A i \in DOMAIN events' : task' \in Early => events'[i] = "stopped"
  BY <1>1 DEF EventInv
<1>4. \A i \in DOMAIN events' : events'[i] \in Finished => task' = "done"
  BY <1>1 DEF EventInv
<1>5. ASSUME NEW i \in DOMAIN events', NEW j \in DOMAIN events', i < j
      PROVE  /\ events'[j] = "started" => events'[i] = "stopped"
             /\ events'[i] \in Finished => events'[j] \in {"stopped", "alert"}
  <2>1. i \in DOMAIN events
    BY <1>1, <1>2, <1>5
  <2>2. CASE j \in DOMAIN events
    BY <1>1, <1>5, <2>1, <2>2 DEF EventInv, EventOrder
  <2>3. CASE j = n
    BY <1>1, <2>1, <2>3 DEF EventInv
  <2> QED BY <1>1, <2>2, <2>3
<1>6. OutcomeIsCommitted'
  <2>1. Happened("completed")' => Happened("completed") \/ kind = "completed"
    BY <1>1 DEF Happened
  <2>2. Happened("failed")' => Happened("failed") \/ kind = "failed"
    BY <1>1 DEF Happened
  <2> QED BY <2>1, <2>2 DEF EventInv, OutcomeIsCommitted
<1> QED BY <1>3, <1>4, <1>5, <1>6 DEF EventInv, EventOrder

\* The messages keep their order, and what they say of task and row.
LEMMA EventsKept == Spec => []EventInv
<1>1. Init => EventInv
  BY DEF Init, EventInv, EventOrder, OutcomeIsCommitted, Happened
<1>2. TypeOK /\ StepInv /\ EventInv /\ [Next]_vars => EventInv'
  <2> SUFFICES ASSUME TypeOK, StepInv, EventInv, [Next]_vars
               PROVE  EventInv'
    OBVIOUS
  <2>1. /\ task' \in Early => task \in Early
        /\ task = "done" => task' = "done" /\ row' \in {row, "stopped", "none"}
    BY Moves
  <2>2. events \in Seq(Kinds)
    BY DEF TypeOK
  <2>3. CASE UNCHANGED events
    <3>1. UNCHANGED EventOrder
      BY <2>3 DEF EventOrder
    <3>2. \A kind \in Finished : Happened(kind) => task = "done"
      BY DEF EventInv, Happened
    <3>3. OutcomeIsCommitted'
      BY <2>1, <2>3, <3>2 DEF EventInv, OutcomeIsCommitted, Happened, Finished
    <3> QED BY <2>1, <2>3, <3>1, <3>3 DEF EventInv
  <2>4. CASE Announces("started", "started", "announced")
    BY <2>2, <2>4, MessageKeepsOrder DEF Announces, Kinds, Early, Finished
  <2>5. CASE \/ Announces("completed", "finished", "done")
             \/ Announces("failed", "failed", "done")
    BY <2>2, <2>5, MessageKeepsOrder DEF Announces, Kinds, Early, Finished, StepInv
  <2>6. CASE UNCHANGED <<task, row>> /\ Broadcast("stopped")
    BY <2>2, <2>6, MessageKeepsOrder DEF Kinds, Finished
  <2>7. CASE UNCHANGED <<task, row>> /\ Broadcast("alert") /\ phase # "boot"
    BY <2>2, <2>7, MessageKeepsOrder DEF Kinds, Finished, StepInv
  <2>8. CASE UNCHANGED <<task, row>> /\ Broadcast("progress") /\ phase = "running"
    BY <2>2, <2>8, MessageKeepsOrder DEF Kinds, Finished, StepInv, Early
  <2> QED BY Messages, <2>3, <2>4, <2>5, <2>6, <2>7, <2>8
<1> QED BY <1>1, <1>2, TypeCorrect, StepCorrect, PTL DEF Spec

\* The messages about a run come in order, and an outcome is committed before
\* it is announced, whatever stop and delete calls interleave
\* (load_tests.py:66).
THEOREM EventsCorrect == Spec => [](EventOrder /\ OutcomeIsCommitted)
<1>1. EventInv => EventOrder /\ OutcomeIsCommitted
  BY DEF EventInv
<1> QED BY <1>1, EventsKept, PTL

-----------------------------------------------------------------------------
\* A deleted run stays deleted, and a final status only gives way to a stop or
\* to a delete: neither the task nor a stop call, which all act on what they
\* loaded before, takes either back.
THEOREM OutcomeStands == Spec => NoResurrection /\ OutcomeIsFinal
<1>1. StepInv /\ [Next]_vars =>
        /\ task # "none" /\ row = "none" => row' = "none"
        /\ (row \in Finished) => (row' \in {row, "stopped", "none"})
  <2> SUFFICES ASSUME StepInv, [Next]_vars
               PROVE  /\ task # "none" /\ row = "none" => row' = "none"
                      /\ (row \in Finished) => (row' \in {row, "stopped", "none"})
    OBVIOUS
  <2>1. CASE Create \/ UNCHANGED vars
    BY <2>1 DEF Create, vars, StepInv
  <2>2. CASE Task
    BY <2>2 DEF Task, TaskLoads, TaskStarts, TaskAnnounces, TaskEntersEngine,
                TaskReloads, TaskFinishes, TaskRescues, TaskFails, StepInv, Finished
  <2>3. CASE Engine
    BY <2>3 DEF Engine, EngineCommitsRows, EngineProgress, EngineCondemns, EngineCloses,
                EngineLeaves, EngineFrame
  <2>4. ASSUME NEW s \in Stops, StopLoads(s) \/ StopWrites(s) \/ StopAnswers(s)
        PROVE  /\ row = "none" => row' = "none"
               /\ row' \in {row, "stopped"}
    BY <2>4 DEF StopLoads, StopWrites, StopAnswers
  <2>5. ASSUME NEW d \in Deletes, DeleteLoads(d) \/ DeleteWrites(d)
        PROVE  row' \in {row, "none"}
    BY <2>5 DEF DeleteLoads, DeleteWrites
  <2> QED BY <2>1, <2>2, <2>3, <2>4, <2>5 DEF Next
<1> QED BY <1>1, StepCorrect, PTL DEF Spec, NoResurrection, OutcomeIsFinal

-----------------------------------------------------------------------------
(***************************************************************************)
(* RunView.  The view takes no part in the run, so the invariants of       *)
(* RunLifecycle hold beside it.                                            *)
(***************************************************************************)

\* The server's step, if it is one, is a step of RunLifecycle.
LEMMA ViewSteps ==
  ASSUME [ViewNext]_allVars
  PROVE  [Next]_vars
<1>1. CASE CreateRun \/ ServerStep
  BY <1>1 DEF CreateRun, ServerStep, Next
<1>2. CASE CreateAnswers \/ FetchReads \/ FetchAnswers \/ Disconnect \/ Reconnect
  BY <1>2 DEF CreateAnswers, FetchReads, FetchAnswers, Disconnect, Reconnect, ServerFrame
<1>3. CASE (\E s \in Stops : StopAnswered(s)) \/ (\E d \in Deletes : DeleteAnswered(d))
  BY <1>3 DEF StopAnswered, DeleteAnswered, ServerFrame
<1>4. CASE Hear \/ HearProgress
  BY <1>4 DEF Hear, HearProgress, Handle, ServerFrame
<1>5. CASE UNCHANGED allVars
  BY <1>5 DEF allVars
<1> QED BY <1>1, <1>2, <1>3, <1>4, <1>5 DEF ViewNext

\* The composition is conservative: a server with a view behaves like one of
\* RunLifecycle, however the browser loses, fetches and overtakes.
THEOREM ViewRefinesLifecycle == ViewSpec => Spec
<1>1. ViewInit => Init
  BY DEF ViewInit
<1>2. [ViewNext]_allVars => [Next]_vars
  BY ViewSteps
<1> QED BY <1>1, <1>2, PTL DEF ViewSpec, Spec

-----------------------------------------------------------------------------
\* One of these messages was handled, or lost.
Heard(kinds) == \E i \in DOMAIN events : i <= heard /\ events[i] \in kinds

\* What a view that shows an outcome has been told: no message that could take
\* the outcome back is still to come, and an answer that could was read late.
ViewInv ==
    /\ heard \in 0..Len(events)
    /\ task = "none" => creating = "idle"
    /\ concluded => ~live /\ Heard(Finished)
    /\ creating # "answered" => active = "null" /\ fetching = "idle"
    /\ active \in Finished => Heard(Kinds \ {"stopped"})
    /\ fetching # "idle" => Heard({"completed"})
    /\ fetching = "read" => snapshot \notin {"pending", "running"}

\* What is proved of the server above, in one invariant.
ServerInv == TypeOK /\ StepInv /\ EventInv

\* Messages are only added, so what was heard stays heard.
LEMMA HeardStays ==
  ASSUME ServerInv, [Next]_vars, heard \in 0..Len(events), heard' \in Nat, heard <= heard'
  PROVE  /\ Len(events) \in Nat /\ Len(events') \in Nat /\ Len(events) <= Len(events')
         /\ \A kinds : Heard(kinds) => Heard(kinds)'
<1>1. events \in Seq(Kinds)
  BY DEF ServerInv, TypeOK
<1>2. events' = events \/ \E kind \in Kinds : Broadcast(kind)
  BY Messages DEF ServerInv, Announces, Kinds
<1>3. CASE events' = events
  BY <1>1, <1>3 DEF Heard
<1>4. ASSUME NEW kind \in Kinds, Broadcast(kind)
      PROVE  /\ Len(events') = Len(events) + 1
             /\ \A i \in DOMAIN events : i \in DOMAIN events' /\ events'[i] = events[i]
  BY <1>1, <1>4 DEF Broadcast
<1>5. ASSUME NEW kind \in Kinds, Broadcast(kind), NEW kinds, Heard(kinds)
      PROVE  Heard(kinds)'
  <2>1. PICK i \in DOMAIN events : i <= heard /\ events[i] \in kinds
    BY <1>5 DEF Heard
  <2>2. i \in Nat /\ i <= heard'
    BY <1>1, <2>1
  <2> QED BY <1>4, <1>5, <2>1, <2>2 DEF Heard
<1> QED BY <1>1, <1>2, <1>3, <1>4, <1>5

\* Every step of the server or the browser keeps the view's invariant.
LEMMA ViewKept == ViewSpec => []ViewInv
<1>1. ViewInit => ViewInv
  BY DEF ViewInit, Init, ViewInv, Finished
<1>2. ServerInv /\ ViewInv /\ [ViewNext]_allVars => ViewInv'
  <2> SUFFICES ASSUME ServerInv, ViewInv, [ViewNext]_allVars
               PROVE  ViewInv'
    OBVIOUS
  <2>1. [Next]_vars
    BY ViewSteps
  <2>2. events \in Seq(Kinds) /\ Len(events) \in Nat /\ heard \in 0..Len(events)
    BY DEF ServerInv, TypeOK, ViewInv
  <2>3. ASSUME heard' \in Nat, heard <= heard'
        PROVE  /\ Len(events') \in Nat /\ Len(events) <= Len(events')
               /\ \A kinds : Heard(kinds) => Heard(kinds)'
    BY <2>1, <2>2, <2>3, HeardStays
  <2>4. CASE CreateRun
    <3>1. UNCHANGED <<heard, events, fetching, snapshot, active, concluded>> /\ task = "none"
      BY <2>4 DEF CreateRun, Create
    <3>2. ~concluded
      BY <3>1 DEF ViewInv, Heard, Finished, ServerInv, EventInv, Early
    <3>4. task' # "none" /\ active = "null" /\ fetching = "idle"
      BY <2>4, <3>1 DEF CreateRun, Create, ViewInv
    <3> QED BY <2>2, <2>4, <3>1, <3>2, <3>4 DEF CreateRun, ViewInv, Finished
  <2>5. CASE ServerStep
    <3>1. UNCHANGED viewVars
      BY <2>5 DEF ServerStep
    <3>2. Len(events') \in Nat /\ Len(events) <= Len(events') /\ \A kinds : Heard(kinds) => Heard(kinds)'
      BY <2>2, <2>3, <3>1 DEF viewVars
    <3>3. task' = "none" => task = "none"
      BY <2>5 DEF ServerStep, Task, TaskLoads, TaskStarts, TaskAnnounces, TaskEntersEngine,
                  TaskReloads, TaskFinishes, TaskRescues, TaskFails, Engine, EngineCommitsRows,
                  EngineProgress, EngineCondemns, EngineCloses, EngineLeaves, EngineFrame,
                  StopLoads, StopWrites, StopAnswers, DeleteLoads, DeleteWrites, taskVars
    <3> QED BY <2>2, <3>1, <3>2, <3>3 DEF ViewInv, viewVars
  <2>6. CASE CreateAnswers \/ Disconnect
    <3>1. UNCHANGED <<heard, events, task, fetching, snapshot, live, concluded>>
      BY <2>6 DEF CreateAnswers, Disconnect, ServerFrame, vars
    <3>2. \A kinds : Heard(kinds) => Heard(kinds)'
      BY <2>2, <2>3, <3>1
    <3> QED BY <2>6, <3>1, <3>2 DEF CreateAnswers, Disconnect, ViewInv, Finished
  <2>7. CASE FetchReads
    <3>1. UNCHANGED <<heard, events, task, creating, active, live, concluded>>
      BY <2>7 DEF FetchReads, ServerFrame, vars
    <3>2. \A kinds : Heard(kinds) => Heard(kinds)'
      BY <2>2, <2>3, <3>1
    <3>3. snapshot' \notin {"pending", "running"}
      BY <2>7 DEF FetchReads, ViewInv, Heard, ServerInv, EventInv, OutcomeIsCommitted, Happened
    <3> QED BY <2>7, <3>1, <3>2, <3>3 DEF FetchReads, ViewInv
  <2>8. CASE FetchAnswers
    <3>1. UNCHANGED <<heard, events, task, creating, live, concluded, snapshot>>
      BY <2>8 DEF FetchAnswers, ServerFrame, vars
    <3>2. \A kinds : Heard(kinds) => Heard(kinds)'
      BY <2>2, <2>3, <3>1
    <3>3. Heard(Kinds \ {"stopped"}) /\ creating = "answered"
      BY <2>8 DEF FetchAnswers, ViewInv, Heard, Kinds
    <3> QED BY <2>8, <3>1, <3>2, <3>3 DEF FetchAnswers, ViewInv
  <2>9. CASE (\E s \in Stops : StopAnswered(s)) \/ (\E d \in Deletes : DeleteAnswered(d))
    <3>1. /\ UNCHANGED <<heard, events, task, creating, fetching, snapshot, concluded>>
          /\ active' \in {"null", "stopped"} /\ creating = "answered"
          /\ live' = live \/ live' = FALSE
      BY <2>9 DEF StopAnswered, DeleteAnswered, ServerFrame, vars
    <3>2. \A kinds : Heard(kinds) => Heard(kinds)'
      BY <2>2, <2>3, <3>1
    <3>3. (concluded => ~live /\ Heard(Finished))'
      BY <3>1, <3>2, Zenon DEF ViewInv
    <3> QED BY <3>1, <3>2, <3>3 DEF ViewInv, Finished
  <2>10. ASSUME NEW kind \in Kinds, Handle(kind), UNCHANGED heard \/ heard' = heard + 1,
                heard' \in 1..Len(events), kind = events[heard'],
                concluded => kind \notin {"started", "progress"},
                heard' = heard => kind = "progress"
         PROVE  ViewInv'
    <3>1. UNCHANGED <<events, task, creating, snapshot>>
      BY <2>10 DEF Handle, ServerFrame, vars
    <3>2. \A kinds : Heard(kinds) => Heard(kinds)'
      BY <2>2, <2>3, <2>10
    <3>3. \A kinds : kind \in kinds => Heard(kinds)'
      BY <2>2, <2>10, <3>1 DEF Heard
    <3>4. (concluded => ~live /\ Heard(Finished))'
      BY <2>10, <3>2, <3>3 DEF Handle, ViewInv, Finished
    <3>5. (creating # "answered" => active = "null" /\ fetching = "idle")'
      BY <2>10, <3>1 DEF Handle, ViewInv
    <3>6. (active \in Finished => Heard(Kinds \ {"stopped"}))'
      BY <2>10, <3>2, <3>3 DEF Handle, Shown, ViewInv, Finished, Kinds
    <3>7. (fetching # "idle" => Heard({"completed"}))'
      BY <2>10, <3>2, <3>3 DEF Handle, ViewInv
    <3>8. (fetching = "read" => snapshot \notin {"pending", "running"})'
      BY <2>10, <3>1 DEF Handle, ViewInv
    <3>9. heard' \in 0..Len(events')
      BY <2>2, <2>10, <3>1
    <3> QED BY <3>1, <3>4, <3>5, <3>6, <3>7, <3>8, <3>9 DEF ViewInv
  <2>11. CASE Hear
    <3>1. heard + 1 \in DOMAIN events /\ events[heard + 1] \in Kinds /\ heard + 1 \in 1..Len(events)
      BY <2>2, <2>11 DEF Hear
    <3>2. concluded => events[heard + 1] \notin {"started", "progress"}
      BY <2>2, <3>1 DEF ViewInv, Heard, ServerInv, EventInv, EventOrder
    <3> QED BY <2>2, <2>10, <2>11, <3>1, <3>2 DEF Hear
  <2>12. CASE HearProgress
    <3>1. concluded => FALSE
      BY <2>12 DEF HearProgress, ViewInv, Heard, ServerInv, EventInv, StepInv
    <3>2. heard \in 1..Len(events)
      BY <2>2, <2>12 DEF HearProgress
    <3> QED BY <2>10, <2>12, <3>1, <3>2 DEF HearProgress, Kinds
  <2>13. CASE Reconnect
    <3>1. UNCHANGED <<events, task, creating, fetching, snapshot, active, live, concluded>>
      BY <2>13 DEF Reconnect, ServerFrame, vars
    <3>2. heard' \in Nat /\ heard <= heard' /\ heard' \in 0..Len(events')
      BY <2>2, <2>13, <3>1 DEF Reconnect
    <3>3. \A kinds : Heard(kinds) => Heard(kinds)'
      BY <2>3, <3>2
    <3> QED BY <3>1, <3>2, <3>3 DEF ViewInv
  <2>14. CASE UNCHANGED allVars
    <3>1. UNCHANGED <<heard, events, task, creating, fetching, snapshot, active, live, concluded>>
      BY <2>14 DEF allVars, vars, viewVars
    <3> QED BY <3>1 DEF ViewInv, Heard
  <2> QED BY <2>4, <2>5, <2>6, <2>7, <2>8, <2>9, <2>11, <2>12, <2>13, <2>14 DEF ViewNext
<1>3. ViewSpec => []ServerInv
  BY ViewRefinesLifecycle, TypeCorrect, StepCorrect, EventsKept, PTL DEF ServerInv
<1> QED BY <1>1, <1>2, <1>3, PTL DEF ViewSpec

\* Once an outcome was handled, the live panel stays away: messages come in
\* order, those that were lost are skipped, and no answer sets it.
THEOREM ProgressCleared == ViewSpec => []OutcomeClearsProgress
<1>1. ViewInv => OutcomeClearsProgress
  BY DEF ViewInv, OutcomeClearsProgress
<1> QED BY <1>1, ViewKept, PTL

\* A shown outcome is never taken back to pending or running, whatever is lost
\* and overtaken.
THEOREM ShownOutcomeStands == ViewSpec => ShownOutcomeIsFinal
<1>1. ServerInv /\ ViewInv /\ [ViewNext]_allVars =>
          ((active \in Finished) => active' \notin {"pending", "running"})
  <2> SUFFICES ASSUME ServerInv, ViewInv, [ViewNext]_allVars, active \in Finished
               PROVE  active' \notin {"pending", "running"}
    OBVIOUS
  <2>1. active # "null" /\ active \notin {"pending", "running"} /\ creating = "answered"
    BY DEF Finished, ViewInv
  <2>2. PICK i \in DOMAIN events : i <= heard /\ events[i] # "stopped"
    BY DEF ViewInv, Heard
  <2>3. CASE Hear
    <3>1. /\ events \in Seq(Kinds) /\ heard \in Nat /\ heard + 1 \in DOMAIN events
          /\ i < heard + 1
      BY <2>2, <2>3 DEF Hear, ServerInv, TypeOK, ViewInv
    <3>2. events[heard + 1] # "started" /\ events[heard + 1] \in Kinds
      BY <2>2, <3>1 DEF ServerInv, EventInv, EventOrder
    <3> QED BY <2>1, <2>3, <3>2 DEF Hear, Handle, Shown, Kinds
  <2>4. CASE HearProgress
    BY <2>1, <2>4 DEF HearProgress, Handle, Shown
  <2>5. CASE FetchAnswers
    BY <2>5 DEF FetchAnswers, ViewInv
  <2>6. CASE (\E s \in Stops : StopAnswered(s)) \/ (\E d \in Deletes : DeleteAnswered(d))
    BY <2>6 DEF StopAnswered, DeleteAnswered
  <2>7. CASE CreateAnswers
    BY <2>1, <2>7 DEF CreateAnswers
  <2>8. CASE CreateRun \/ ServerStep \/ FetchReads \/ Disconnect \/ Reconnect \/ UNCHANGED allVars
    BY <2>1, <2>8 DEF CreateRun, ServerStep, FetchReads, Disconnect, Reconnect, viewVars, allVars
  <2> QED BY <2>3, <2>4, <2>5, <2>6, <2>7, <2>8 DEF ViewNext
<1>2. ViewSpec => []ServerInv
  BY ViewRefinesLifecycle, TypeCorrect, StepCorrect, EventsKept, PTL DEF ServerInv
<1> QED BY <1>1, <1>2, ViewKept, PTL DEF ViewSpec, ShownOutcomeIsFinal
=============================================================================
