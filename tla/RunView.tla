------------------------------ MODULE RunView ------------------------------
(***************************************************************************)
(* A browser that creates a load test and watches it: the server's         *)
(* RunLifecycle composed with frontend/src/stores/loadTestStore.js, the    *)
(* events channel of frontend/src/hooks/useWebSocket.js and the answers of *)
(* the store's own REST calls.                                             *)
(*                                                                         *)
(* Events and answers travel on different connections, so an event may     *)
(* overtake the answer of the call that caused it; the events channel may  *)
(* go down, and what is sent meanwhile is lost.                            *)
(***************************************************************************)
EXTENDS RunLifecycle

VARIABLES
    link,               \* the events channel, "up" or "down"
    heard,              \* length of the prefix of events that was handled or lost
    creating,           \* the POST of createRun: "idle", "sent", "answered"
    fetching,           \* the GET of fetchRun: "idle", "sent", "read"
    snapshot,           \* the status that GET found
    told,               \* stop and delete calls whose answer was handled
    active,             \* activeRun.status, or "null"
    live,               \* whether liveProgress is an object
    concluded,          \* an outcome event was handled
    late                \* an event of the run was lost, or handled before activeRun was set

viewVars == <<link, heard, creating, fetching, snapshot, told, active, live,
              concluded, late>>
allVars == <<vars, viewVars>>

\* The server does not wait for the view, and the view not for the server.
ServerFrame == UNCHANGED vars

ViewInit ==
    /\ Init
    /\ link = "up"
    /\ heard = 0
    /\ creating = "idle"
    /\ fetching = "idle"
    /\ snapshot = "none"
    /\ told = {}
    /\ active = "null"
    /\ live = FALSE
    /\ concluded = FALSE
    /\ late = FALSE

-----------------------------------------------------------------------------
(***************************************************************************)
(* createRun, stopRun, deleteRun and fetchRun.                             *)
(***************************************************************************)

\* liveProgress is reset when the call leaves; the row appears while it is
\* under way.
CreateRun ==
    /\ Create
    /\ creating' = "sent"
    /\ live' = TRUE
    /\ UNCHANGED <<link, heard, fetching, snapshot, told, active, concluded, late>>

\* Slip: the answer restarts the live progress.
CreateAnswersAfresh ==
    /\ creating = "sent"
    /\ creating' = "answered"
    /\ active' = "pending"
    /\ live' = TRUE
    /\ ServerFrame
    /\ UNCHANGED <<link, heard, fetching, snapshot, told, concluded, late>>

\* The answer carries the row as the handler wrote it.
CreateAnswers ==
    /\ creating = "sent"
    /\ creating' = "answered"
    /\ active' = "pending"
    /\ ServerFrame
    /\ UNCHANGED <<link, heard, fetching, snapshot, told, live, concluded, late>>

\* The server reads the row for fetchRun; a missing one is a 404, which the
\* store does not handle.
FetchReads ==
    /\ fetching = "sent"
    /\ fetching' = IF row = "none" THEN "idle" ELSE "read"
    /\ snapshot' = row
    /\ ServerFrame
    /\ UNCHANGED <<link, heard, creating, told, active, live, concluded, late>>

FetchAnswers ==
    /\ fetching = "read"
    /\ fetching' = "idle"
    /\ active' = snapshot
    /\ ServerFrame
    /\ UNCHANGED <<link, heard, creating, snapshot, told, live, concluded, late>>

\* The answer of a stop call this browser made.
StopAnswered(s) ==
    /\ stop[s] = "accepted"
    /\ creating = "answered"
    /\ s \notin told
    /\ told' = told \cup {s}
    /\ active' = IF active = "null" THEN "null" ELSE "stopped"
    /\ live' = FALSE
    /\ ServerFrame
    /\ UNCHANGED <<link, heard, creating, fetching, snapshot, concluded, late>>

\* The answer of a delete call this browser made.
DeleteAnswered(d) ==
    /\ delete[d] = "accepted"
    /\ creating = "answered"
    /\ d \notin told
    /\ told' = told \cup {d}
    /\ active' = "null"
    /\ live' \in IF active = "null" THEN {live, FALSE} ELSE {FALSE}
    /\ ServerFrame
    /\ UNCHANGED <<link, heard, creating, fetching, snapshot, concluded, late>>

-----------------------------------------------------------------------------
(***************************************************************************)
(* handleWebSocketEvent.                                                   *)
(***************************************************************************)

\* Slip: progress proves that the run is running.
ShownRunning(kind) ==
    CASE kind \in {"started", "progress"} -> "running"
      [] kind = "alert"                   -> "failed"
      [] OTHER                            -> kind

\* What an event of the given kind makes of activeRun.status.
Shown(kind) ==
    CASE kind = "started"  -> "running"
      [] kind = "progress" -> IF active = "pending" THEN "running" ELSE active
      [] kind = "alert"    -> "failed"
      [] OTHER             -> kind

\* A completed run is fetched once more, for its results.
Handle(kind) ==
    /\ active' = IF active = "null" THEN "null" ELSE Shown(kind)
    /\ live' = (kind \in {"started", "progress"})
    /\ fetching' = IF kind = "completed" /\ active # "null" THEN "sent" ELSE fetching
    /\ concluded' = (concluded \/ kind \in {"completed", "failed"})
    /\ late' = (late \/ active = "null")
    /\ ServerFrame
    /\ UNCHANGED <<link, creating, snapshot, told>>

\* The next message arrives.
Hear ==
    /\ link = "up"
    /\ heard < Len(events)
    /\ heard' = heard + 1
    /\ Handle(events[heard + 1])

\* Another progress message of the same burst (RunLifecycle keeps one).
HearProgress ==
    /\ link = "up"
    /\ heard > 0
    /\ heard = Len(events)
    /\ events[heard] = "progress"
    /\ phase = "running"
    /\ UNCHANGED heard
    /\ Handle("progress")

\* The channel closes; connectEvt opens another one after a delay, and knows
\* nothing of the messages between the two.
Disconnect ==
    /\ link = "up"
    /\ link' = "down"
    /\ ServerFrame
    /\ UNCHANGED <<heard, creating, fetching, snapshot, told, active, live, concluded, late>>

Reconnect ==
    /\ link = "down"
    /\ link' = "up"
    /\ heard' = Len(events)
    /\ late' = (late \/ heard < Len(events))
    /\ ServerFrame
    /\ UNCHANGED <<creating, fetching, snapshot, told, active, live, concluded>>

-----------------------------------------------------------------------------
\* The server's own steps: everything of RunLifecycle but the create call.
ServerStep ==
    /\ \/ Task
       \/ Engine
       \/ \E s \in Stops : StopLoads(s) \/ StopWrites(s) \/ StopAnswers(s)
       \/ \E d \in Deletes : DeleteLoads(d) \/ DeleteWrites(d)
    /\ UNCHANGED viewVars

ViewNext ==
    \/ CreateRun
    \/ ServerStep
    \/ CreateAnswers \/ FetchReads \/ FetchAnswers
    \/ \E s \in Stops : StopAnswered(s)
    \/ \E d \in Deletes : DeleteAnswered(d)
    \/ Hear \/ HearProgress \/ Disconnect \/ Reconnect

ViewSpec == ViewInit /\ [][ViewNext]_allVars

\* The server as in RunLifecycle; messages and answers that were sent arrive
\* while the connection lasts, and a closed channel is opened again.
FairViewSpec ==
    /\ ViewSpec
    /\ WF_allVars(Task /\ UNCHANGED viewVars)
    /\ WF_allVars(EngineCloses /\ UNCHANGED viewVars)
    /\ WF_allVars(EngineLeaves /\ UNCHANGED viewVars)
    /\ WF_allVars(CreateAnswers)
    /\ WF_allVars(FetchReads) /\ WF_allVars(FetchAnswers)
    /\ SF_allVars(Hear)
    /\ WF_allVars(Reconnect)

-----------------------------------------------------------------------------
(***************************************************************************)
(* Properties.                                                             *)
(***************************************************************************)

\* Once an outcome was handled the live panel is gone for good, whatever else
\* arrives and in whatever order: no progress comes after the outcome, and no
\* answer brings the panel back.
OutcomeClearsProgress == concluded => ~live

\* A run that was shown completed or failed is never shown pending or running
\* again: not by a straggling progress message, and not by the answer of a
\* GET, which reads the row after its outcome was committed.
ShownOutcomeIsFinal ==
    [][(active \in Finished) => active' \notin {"pending", "running"}]_allVars

\* A view that missed no event ends with the outcome of its run, or with the
\* stop, unless the run is deleted or the except clause of its task raises:
\* then nothing is announced, and the view stays "running".
ViewSettles ==
    active \in {"pending", "running"} ~>
        (active \in Finished \cup {"stopped"} \/ late \/ row = "none" \/ task = "lost")
=============================================================================
