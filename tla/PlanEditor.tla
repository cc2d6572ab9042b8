----------------------------- MODULE PlanEditor -----------------------------
(***************************************************************************)
(* The test plan builder of the load test page                             *)
(* (frontend/src/components/TestPlanBuilder.jsx), the store it works on    *)
(* (stores/loadTestPlanStore.js), and as much of the plan endpoints as     *)
(* answers them.                                                           *)
(*                                                                         *)
(* The form is local state of a component that is unmounted whenever the   *)
(* user turns to another tab; the loaded plan, the list of plans and the   *)
(* running plan are in the store, which stays.  Two effects write the      *)
(* form: one gives groups without a runtime the first one, the other       *)
(* copies the loaded plan into the form.  Both depend on the function that *)
(* fetches model lists, which is a new function whenever the cache of      *)
(* those lists has changed.                                                *)
(*                                                                         *)
(* A step is what the browser does between two awaits, with the effects of *)
(* its render, or what the server does with one request.                   *)
(***************************************************************************)
EXTENDS Naturals, Sequences, FiniteSets, SequencesExt

CONSTANTS
    Plans,              \* ids the server may give to plans
    Saved,              \* those of the plans that are stored from the start
    NoPlan,             \* a plan without an id; nothing loaded
    Runtimes,           \* the runtimes the server has
    DefaultRuntime,     \* runtimes[0]
    NoRuntime,          \* no runtime chosen
    Unregistered,       \* an id in an imported file that no runtime has
    Calls,              \* activations of handleSave and handleRun
    MaxGroups,          \* bound on the thread groups of a form
    MaxEdits,           \* bound on the user's changes of the form
    MaxActs,            \* bound on what the user does altogether
    MaxTurns,           \* bound on how often the user turns to another tab
    MaxRuns             \* bound on the executions of plans

ASSUME EditorAssumption ==
    /\ Saved \subseteq Plans /\ IsFiniteSet(Runtimes)
    /\ DefaultRuntime \in Runtimes /\ NoRuntime \notin Runtimes
    /\ Unregistered \notin Runtimes \cup {NoRuntime}
    /\ NoPlan \notin Plans
    /\ MaxGroups \in Nat \ {0}
    /\ MaxEdits \in Nat /\ MaxActs \in Nat /\ MaxTurns \in Nat
    /\ MaxRuns \in Nat

VARIABLES
    stored,             \* the server's table of plans
    fresh,              \* ids no plan was given yet
    jobs,               \* the executions it was asked for
    events,             \* messages on their way to this page
    plans,              \* store: the list of plans
    active,             \* store: activePlan
    listed,             \* activePlan is an object of the list
    running,            \* store: runningPlan is not null
    known,              \* store: the runtimes have been fetched
    mounted,            \* the builder is on the page
    form,               \* planForm
    cache,              \* modelsCache
    loading,            \* loading[r]: fetches of the models of r under way
    listing,            \* the answer of fetchPlans under way, or NoTable
    fetching,           \* fetchRuntimes awaits its answer
    call,               \* call[c]: where handler c awaits
    deletion,           \* where handleDeleteActivePlan awaits
    edits, acts, turns, \* how often the user did what
    late                \* it is of an execution whose end was heard before

serverVars == <<stored, fresh, jobs, events>>
planVars   == <<plans, active, listed>>
formVars   == <<form, cache, loading>>
userVars   == <<edits, acts>>
mountVars  == <<mounted, listing, fetching, known, turns>>
vars == <<serverVars, running, planVars, formVars, mountVars,
          call, deletion, userVars, late>>

-----------------------------------------------------------------------------
(***************************************************************************)
(* Plans.  A group keeps its runtime, whether it has a model and whether   *)
(* it is enabled; what else a plan holds (config elements, assertions,     *)
(* listeners, names and numbers) is one of two values.                     *)
(***************************************************************************)
RuntimeIds == Runtimes \cup {Unregistered}

Group   == [runtime : RuntimeIds \cup {NoRuntime}, model : BOOLEAN, on : BOOLEAN]
Content == [groups : Seq(Group), rest : {0, 1}]
Plan    == [id : Plans \cup {NoPlan}, content : Content]

\* DEFAULT_THREAD_GROUP
NewGroup(r, m) == [runtime |-> r, model |-> m, on |-> TRUE]

OneGroup(r, m) == [groups |-> <<NewGroup(r, m)>>, rest |-> 0]

\* The plan a fresh form holds; as activePlan it stands for null.
NoForm == [id |-> NoPlan, content |-> OneGroup(NoRuntime, FALSE)]

\* No row, and no entry in a list.
Absent  == [groups |-> <<>>, rest |-> 0]
Table   == [Plans -> Content]
NoTable == [p \in {} |-> Absent]

\* What the rows that exist from the start hold: a second group is disabled
\* and not finished.
TwoGroups == [groups |-> <<NewGroup(DefaultRuntime, TRUE),
                           [NewGroup(NoRuntime, FALSE) EXCEPT !.on = FALSE]>>, rest |-> 0]
StoredFirst == [p \in Plans |-> IF p \in Saved THEN TwoGroups ELSE Absent]

Enabled(content) == {i \in DOMAIN content.groups : content.groups[i].on}

\* Slip: a model that was never chosen is let through.
ValidSlack(content) ==
    /\ Enabled(content) # {}
    /\ \A i \in Enabled(content) : content.groups[i].runtime # NoRuntime

\* validateForm, and the errors of getPlanValidationWarnings: a plan without
\* them may be saved and run.
Valid(content) ==
    /\ Enabled(content) # {}
    /\ \A i \in Enabled(content) :
          content.groups[i].runtime # NoRuntime /\ content.groups[i].model

-----------------------------------------------------------------------------
(***************************************************************************)
(* The effects that run after a render.                                    *)
(***************************************************************************)
\* Groups with runtime r.
Uses(groups, r) == Cardinality({i \in DOMAIN groups : groups[i].runtime = r})

\* Slip: a group that gets a runtime loses its model.
WithRuntimeOnly(f) ==
    [f EXCEPT !.content.groups =
        [i \in DOMAIN @ |-> IF @[i].runtime = NoRuntime
                            THEN [@[i] EXCEPT !.runtime = DefaultRuntime, !.model = FALSE]
                            ELSE @[i]]]

\* Groups without a runtime get the first one.
WithRuntime(f) ==
    [f EXCEPT !.content.groups =
        [i \in DOMAIN @ |-> IF @[i].runtime = NoRuntime
                            THEN [@[i] EXCEPT !.runtime = DefaultRuntime] ELSE @[i]]]

\* Slip: loadModelsForRuntime does not look whether the list is there.
FetchesAlways(c, n) == n

\* loadModelsForRuntime, called n(r) times for r: lists that are cached are not
\* fetched again, lists that are on their way are.
Fetches(c, n) == [r \in RuntimeIds |-> IF c[r] = "unknown" THEN n[r] ELSE 0]

\* The render after which the form is f, the loaded plan a, the cache c and
\* the runtimes are known or not; pending are the fetches under way; why says
\* what has changed.  Both effects depend on loadModelsForRuntime, and so on
\* the cache.
Render(f, a, c, pending, rts, why) ==
    LET fills     == rts /\ why \cap {"runtimes", "cache"} # {}
        populates == a.id # NoPlan /\ why \cap {"plan", "cache"} # {}
        wanted(r) ==
            (IF fills /\ r = DefaultRuntime THEN Uses(f.content.groups, NoRuntime) ELSE 0)
            + (IF populates THEN Uses(a.content.groups, r) ELSE 0)
        new == Fetches(c, [r \in RuntimeIds |-> wanted(r)])
    IN  /\ form' = IF populates THEN a ELSE IF fills THEN WithRuntime(f) ELSE f
        /\ loading' = [r \in RuntimeIds |-> pending[r] + new[r]]

NoFetch == [r \in RuntimeIds |-> 0]

\* One call of loadModelsForRuntime(r) by a handler.
Asking(r) == LET new == Fetches(cache, [q \in RuntimeIds |-> IF q = r THEN 1 ELSE 0])
             IN  [q \in RuntimeIds |-> loading[q] + new[q]]

\* The call for runtimes[0], if there is one.
AskingDefault == IF known THEN Asking(DefaultRuntime) ELSE loading

\* defaultRt, and whether its first model is known.
FirstRuntime == IF known THEN DefaultRuntime ELSE NoRuntime
FirstModel   == known /\ cache[DefaultRuntime] = "listed"

-----------------------------------------------------------------------------
(***************************************************************************)
(* Calls and executions.  A call is that of handleSave, or of handleRun,   *)
(* which saves first when the form has an id and runs the plan inline      *)
(* otherwise.  It is mine until the builder it belongs to is unmounted.    *)
(* An execution and the messages about it are known by a number, which is  *)
(* the call's own as soon as the server has served its run.                *)
(***************************************************************************)
Stage == {"idle", "saving", "updated", "created", "failed", "posting", "posted", "refused"}
Call  == [stage : Stage, run : BOOLEAN, plan : Plans \cup {NoPlan},
          content : Content \cup {Absent}, mine : BOOLEAN, crossed : BOOLEAN, job : Nat]
Job   == [config : Content, asked : Content, crossed : BOOLEAN,
          stage : {"new", "refused", "started", "over"}]
Event == [type : {"started", "completed", "error"}, job : Nat]

\* A deletion, with the form it leaves and whether it fetches models then.
Deletion == [stage : {"none", "sent", "done", "failed"}, plan : Plans \cup {NoPlan},
             mine : BOOLEAN, blank : {f \in Plan : f.id = NoPlan}, asks : BOOLEAN]

Idle == [stage |-> "idle", run |-> FALSE, plan |-> NoPlan, content |-> Absent,
         mine |-> FALSE, crossed |-> FALSE, job |-> 0]

NoDeletion == [stage |-> "none", plan |-> NoPlan, mine |-> FALSE,
               blank |-> NoForm, asks |-> FALSE]

EditorInit ==
    /\ stored = StoredFirst /\ fresh = Plans \ Saved /\ jobs = <<>> /\ events = <<>>
    /\ plans = [p \in Plans |-> Absent] /\ active = NoForm /\ listed = FALSE
    /\ running = FALSE /\ known = FALSE
    /\ mounted = FALSE /\ form = NoForm
    /\ cache = [r \in RuntimeIds |-> "unknown"] /\ loading = NoFetch
    /\ listing = NoTable /\ fetching = FALSE
    /\ call = [c \in Calls |-> Idle] /\ deletion = NoDeletion
    /\ edits = 0 /\ acts = 0 /\ turns = 0 /\ late = FALSE

-----------------------------------------------------------------------------
(***************************************************************************)
(* The builder comes and goes.                                             *)
(***************************************************************************)
\* The user is not done yet (bound).
Active == acts + edits + turns < MaxActs

Act == Active /\ acts' = acts + 1 /\ UNCHANGED edits

\* A mounted builder has a fresh form and an empty cache, fetches plans and
\* runtimes, and its effects run once.  What the server lists is decided now,
\* when the answer comes is not.
Mount ==
    /\ ~mounted /\ mounted' = TRUE
    /\ cache' = [r \in RuntimeIds |-> "unknown"]
    /\ Render(NoForm, active, cache', NoFetch, known, {"plan", "runtimes", "cache"})
    /\ listing' = stored /\ fetching' = TRUE
    /\ UNCHANGED <<serverVars, running, planVars, known, turns, call, deletion, userVars, late>>

\* Answers to calls of an unmounted builder change only the store.
Disown == [c \in Calls |-> [call[c] EXCEPT !.mine = FALSE]]

Unmount == /\ mounted' = FALSE /\ form' = NoForm
           /\ cache' = [r \in RuntimeIds |-> "unknown"] /\ loading' = NoFetch
           /\ deletion' = [deletion EXCEPT !.mine = FALSE]

\* The user turns to another tab of the page.
Leave ==
    /\ mounted /\ turns < MaxTurns /\ Active /\ turns' = turns + 1
    /\ Unmount /\ call' = Disown
    /\ UNCHANGED <<serverVars, running, planVars, listing, fetching, known, userVars, late>>

\* fetchPlans answers; a list that was read before a save, create or delete
\* overwrites what those did to the list.
PlansAnswer ==
    /\ listing # NoTable /\ listing' = NoTable
    /\ plans' = listing /\ listed' = FALSE
    /\ UNCHANGED <<serverVars, running, active, formVars, mounted, fetching, known, turns,
                   call, deletion, userVars, late>>

\* fetchRuntimes answers: a new list, whether its runtimes were known or not.
RuntimesAnswer ==
    /\ fetching /\ fetching' = FALSE /\ known' = TRUE
    /\ IF mounted THEN Render(form, active, cache, loading, TRUE, {"runtimes"})
                  ELSE UNCHANGED <<form, loading>>
    /\ UNCHANGED <<serverVars, running, planVars, cache, mounted, listing, turns,
                   call, deletion, userVars, late>>

\* fetchModels of r answers, with models or, after an error too, without: the
\* server has no models of a runtime it does not know.
ModelsAnswer(r) ==
    /\ mounted /\ loading[r] > 0
    /\ \E list \in {"listed", "empty"} :
          (r = Unregistered => list = "empty") /\ cache' = [cache EXCEPT ![r] = list]
    /\ Render(form, active, cache', [loading EXCEPT ![r] = @ - 1], known, {"cache"})
    /\ UNCHANGED <<serverVars, running, planVars, mountVars, call, deletion, userVars, late>>

-----------------------------------------------------------------------------
(***************************************************************************)
(* The user edits the form.                                                *)
(***************************************************************************)
\* The form after an edit; no effect depends on the form.
Edit(f, l) ==
    /\ mounted /\ edits < MaxEdits /\ Active /\ edits' = edits + 1
    /\ form' = f /\ loading' = l
    /\ UNCHANGED <<serverVars, running, planVars, cache, mountVars, call, deletion, acts, late>>

Groups == form.content.groups
WithGroups(g) == [form EXCEPT !.content.groups = g]

AddThreadGroup ==
    /\ Len(Groups) < MaxGroups
    /\ Edit(WithGroups(Append(Groups, NewGroup(FirstRuntime, FirstModel))), AskingDefault)

\* Another runtime, or none, is chosen for group i, whose model is cleared.
UpdateRuntime(i, r) ==
    Edit(WithGroups([Groups EXCEPT ![i].runtime = r, ![i].model = FALSE]), Asking(r))

\* A model is chosen from the list, or typed when there is no list, or taken
\* away again.
UpdateModel(i) == Edit(WithGroups([Groups EXCEPT ![i].model = ~@]), loading)

DuplicateThreadGroup(i) ==
    /\ Len(Groups) < MaxGroups
    /\ Edit(WithGroups(InsertAt(Groups, i + 1, Groups[i])), loading)

RemoveThreadGroup(i) ==
    /\ Len(Groups) > 1
    /\ Edit(WithGroups(RemoveAt(Groups, i)), loading)

ToggleNodeEnabled(i) ==
    Edit(WithGroups([Groups EXCEPT ![i].on = ~@]), loading)

\* The other groups' fields, config elements, assertions and listeners.
UpdateElement == Edit([form EXCEPT !.content.rest = 1 - @], loading)

\* A blueprint replaces the form, whose id is lost; the loaded plan stays.
LoadBlueprint ==
    Edit([id |-> NoPlan, content |-> OneGroup(FirstRuntime, TRUE)], AskingDefault)

\* So does an imported plan, which may lack groups, or a runtime or model, or
\* name a runtime the server does not have: nothing looks it up.
ApplyImportJson ==
    \E groups \in {<<>>, <<NewGroup(NoRuntime, TRUE)>>, <<NewGroup(DefaultRuntime, FALSE)>>,
                   <<NewGroup(Unregistered, TRUE)>>} :
        Edit([id |-> NoPlan, content |-> [groups |-> groups, rest |-> 0]], loading)

EditForm ==
    \/ AddThreadGroup \/ UpdateElement \/ LoadBlueprint \/ ApplyImportJson
    \/ \E i \in DOMAIN Groups :
          \/ UpdateModel(i) \/ DuplicateThreadGroup(i) \/ RemoveThreadGroup(i)
          \/ ToggleNodeEnabled(i) \/ \E r \in Runtimes \cup {NoRuntime} : UpdateRuntime(i, r)

\* Slip: the effect that copies the plan into the form is forgotten.
SelectPlanOnly(p) ==
    /\ mounted /\ Act /\ plans[p] # Absent /\ form.id # p
    /\ active' = [id |-> p, content |-> plans[p]] /\ listed' = TRUE
    /\ UNCHANGED <<serverVars, running, plans, formVars, mountVars, call, deletion, late>>

\* The user picks another plan of the list.  Picking the one that is loaded,
\* after a blueprint or an import, changes nothing.
SelectPlan(p) ==
    /\ mounted /\ Act /\ plans[p] # Absent /\ form.id # p
    /\ ~(active.id = p /\ listed)
    /\ active' = [id |-> p, content |-> plans[p]] /\ listed' = TRUE
    /\ Render(form, active', cache, loading, known, {"plan"})
    /\ UNCHANGED <<serverVars, running, plans, cache, mountVars, call, deletion, late>>

\* What handleResetToNew does to the form, and to the fetches.
FreshForm == [id |-> NoPlan, content |-> OneGroup(FirstRuntime, FirstModel)]

\* The New button, and the first entry of the list.
ResetToNew ==
    /\ mounted /\ Act /\ (active # NoForm \/ form # FreshForm)
    /\ active' = NoForm /\ listed' = FALSE
    /\ form' = FreshForm /\ loading' = AskingDefault
    /\ UNCHANGED <<serverVars, running, plans, cache, mountVars, call, deletion, late>>

-----------------------------------------------------------------------------
(***************************************************************************)
(* Saving and running.                                                     *)
(***************************************************************************)
\* isExecuting, which a builder that is mounted anew does not inherit.
Executing == \E c \in Calls : call[c].mine

\* Executions begun and asked for.
Runs == Len(jobs) + Cardinality({c \in Calls : call[c].run /\ call[c].stage # "posted"})

\* The id savePlan saves under: that of the form, or else of the loaded plan.
SaveId == IF form.id # NoPlan THEN form.id ELSE active.id

\* Creations the server has not served.
Creates == Cardinality({c \in Calls : call[c].stage = "saving" /\ call[c].plan = NoPlan})

\* Slip: handleRun does not save before it runs.
RunUnsaved(run) == IF run THEN "posting" ELSE "saving"

\* What handleRun and handleSave await first; isAdHoc is never true (jsx:2967).
FirstAwait(run) == IF run /\ form.id = NoPlan THEN "posting" ELSE "saving"

\* handleSave and handleRun, with the plan as the form has it now.
Click(c, run) ==
    /\ mounted /\ Act /\ ~Executing /\ ~running /\ call[c].stage = "idle"
    /\ Valid(form.content) /\ (run => Runs < MaxRuns)
    /\ (SaveId = NoPlan /\ FirstAwait(run) = "saving" => Creates < Cardinality(fresh))
    /\ call' = [call EXCEPT ![c] =
          [stage |-> FirstAwait(run), run |-> run,
           plan |-> IF FirstAwait(run) = "posting" THEN form.id ELSE SaveId,
           content |-> form.content, mine |-> TRUE, crossed |-> FALSE, job |-> 0]]
    /\ UNCHANGED <<serverVars, running, planVars, formVars, mountVars,
                   deletion, late>>

\* Calls whose run is still to be posted and that another save of p crosses.
Crossing(c, p) == [d \in Calls |-> [call[d] EXCEPT !.crossed = @ \/ (d # c /\ call[d].plan = p)]]

\* update_plan, or create_plan when there is no id: the row is written, or
\* there is none any more.
ServeSave(c) ==
    /\ call[c].stage = "saving"
    /\ \E p \in IF call[c].plan = NoPlan THEN fresh ELSE {call[c].plan} :
          /\ fresh' = fresh \ {p}
          /\ IF call[c].plan # NoPlan /\ stored[p] = Absent
             THEN /\ call' = [call EXCEPT ![c].stage = "failed"]
                  /\ UNCHANGED stored
             ELSE /\ call' = [Crossing(c, p) EXCEPT
                                 ![c].stage = IF call[c].plan = NoPlan
                                              THEN "created" ELSE "updated",
                                 ![c].plan = p]
                  /\ stored' = [stored EXCEPT ![p] = call[c].content]
    /\ UNCHANGED <<jobs, events, running, planVars, formVars, mountVars, deletion, userVars, late>>

\* savePlan gets its answer: the saved plan becomes the loaded one, and is
\* copied into the form of whatever builder is mounted.  The list gets a new
\* plan, and the new state of one it has.  handleRun goes on to post the run.
SaveAnswers(c) ==
    /\ call[c].stage \in {"updated", "created"}
    /\ active' = [id |-> call[c].plan, content |-> call[c].content]
    /\ listed' = (call[c].stage = "created" \/ plans[call[c].plan] # Absent)
    /\ plans' = IF listed' THEN [plans EXCEPT ![call[c].plan] = call[c].content] ELSE plans
    /\ IF mounted THEN Render(form, active', cache, loading, known, {"plan"})
                  ELSE UNCHANGED <<form, loading>>
    /\ call' = [call EXCEPT ![c] = IF call[c].run THEN [@ EXCEPT !.stage = "posting"] ELSE Idle]
    /\ UNCHANGED <<serverVars, running, cache, mountVars, deletion, userVars, late>>

\* The call ends with an error; neither store nor form changes.
CallFails(c) ==
    /\ call[c].stage \in {"failed", "refused"}
    /\ call' = [call EXCEPT ![c] = Idle]
    /\ UNCHANGED <<serverVars, running, planVars, formVars, mountVars, deletion, userVars, late>>

\* run_plan_route and run_inline_plan: the background task gets what is stored
\* now, or what was sent.
ServeRun(c) ==
    LET inline == call[c].plan = NoPlan
        config == IF inline THEN call[c].content ELSE stored[call[c].plan]
    IN  /\ call[c].stage = "posting"
        /\ IF config = Absent
           THEN /\ call' = [call EXCEPT ![c].stage = "refused"]
                /\ UNCHANGED jobs
           ELSE /\ call' = [call EXCEPT ![c].stage = "posted", ![c].job = Len(jobs) + 1]
                /\ jobs' = Append(jobs,
                     [config |-> config, asked |-> call[c].content,
                      crossed |-> call[c].crossed, stage |-> "new"])
        /\ UNCHANGED <<stored, fresh, events, running, planVars, formVars, mountVars,
                       deletion, userVars, late>>

\* The end of execution j was told and is not under way any more.
EndWasHeard(j) ==
    /\ jobs[j].stage \in {"refused", "over"}
    /\ ~\E e \in Range(events) : e.job = j /\ e.type # "started"

\* runPlan or runInline gets its answer: the plan runs, whatever was heard of
\* it meanwhile, and onPlanStarted turns to the reports.
RunAnswers(c) ==
    /\ call[c].stage = "posted"
    /\ running' = TRUE /\ late' = (late \/ EndWasHeard(call[c].job))
    /\ Unmount /\ call' = [Disown EXCEPT ![c] = Idle]
    /\ UNCHANGED <<serverVars, planVars, listing, fetching, known, turns, userVars>>

-----------------------------------------------------------------------------
(***************************************************************************)
(* Deleting, one call at a time (bound).                                   *)
(***************************************************************************)
\* The handler keeps the runtimes and the cache of the render it was made in.
Delete ==
    /\ mounted /\ Act /\ form.id # NoPlan /\ deletion.stage = "none"
    /\ deletion' = [stage |-> "sent", plan |-> form.id, mine |-> TRUE, blank |-> FreshForm,
                    asks |-> known /\ cache[DefaultRuntime] = "unknown"]
    /\ UNCHANGED <<serverVars, running, planVars, formVars, mountVars, call, late>>

ServeDelete ==
    /\ deletion.stage = "sent"
    /\ deletion' = [deletion EXCEPT !.stage =
                                   IF stored[deletion.plan] = Absent THEN "failed" ELSE "done"]
    /\ stored' = [stored EXCEPT ![deletion.plan] = Absent]
    /\ UNCHANGED <<fresh, jobs, events, running, planVars, formVars, mountVars, call, userVars, late>>

\* deletePlan gets its answer; handleDeleteActivePlan then resets whatever plan
\* is loaded by now, and whatever the form of its builder holds by now.
DeleteAnswers ==
    /\ deletion.stage \in {"done", "failed"}
    /\ deletion' = NoDeletion
    /\ IF deletion.stage = "failed"
       THEN UNCHANGED <<planVars, form, loading>>
       ELSE /\ plans' = [plans EXCEPT ![deletion.plan] = Absent]
            /\ active' = NoForm /\ listed' = FALSE
            /\ IF deletion.mine
               THEN /\ form' = deletion.blank
                    /\ loading' = [loading EXCEPT ![DefaultRuntime] =
                                     @ + (IF deletion.asks THEN 1 ELSE 0)]
               ELSE UNCHANGED <<form, loading>>
    /\ UNCHANGED <<serverVars, running, cache, mountVars, call, userVars, late>>

-----------------------------------------------------------------------------
(***************************************************************************)
(* The server executes plans and tells the page.                           *)
(***************************************************************************)
Tell(j, stage, type) ==
    /\ jobs' = [jobs EXCEPT ![j].stage = stage]
    /\ events' = Append(events, [type |-> type, job |-> j])
    /\ UNCHANGED <<stored, fresh, running, planVars, formVars, mountVars,
                   call, deletion, userVars, late>>

\* _execute_plan: the runtime of every group is looked up, of the disabled ones
\* too, which the orchestrator then skips.
StartJob(j) ==
    /\ jobs[j].stage = "new"
    /\ \A g \in Range(jobs[j].config.groups) : g.runtime \in Runtimes
    /\ Tell(j, "started", "started")

\* One is not found, or was deleted; or the plan ends, by an error or not.
EndJob(j) ==
    \/ jobs[j].stage = "new" /\ Tell(j, "refused", "error")
    \/ /\ jobs[j].stage = "started"
       /\ \E type \in {"completed", "error"} : Tell(j, "over", type)

\* Slip: a plan that fails is not heard of.
HearCompletedOnly(e) ==
    /\ running' = (e.type = "started" \/ (running /\ e.type # "completed"))
    /\ late' = (late /\ e.type # "completed")

\* handleWebSocketEvent, which does not ask whose plan it is.
Handle(e) ==
    /\ running' = (e.type = "started")
    /\ late' = (late /\ e.type = "started")

Hear ==
    /\ events # <<>> /\ Handle(Head(events)) /\ events' = Tail(events)
    /\ UNCHANGED <<stored, fresh, jobs, planVars, formVars, mountVars,
                   call, deletion, userVars>>

-----------------------------------------------------------------------------
Answer ==
    \/ PlansAnswer \/ RuntimesAnswer \/ ServeDelete \/ DeleteAnswers
    \/ \E r \in RuntimeIds : ModelsAnswer(r)
    \/ \E c \in Calls : \/ ServeSave(c) \/ SaveAnswers(c) \/ CallFails(c)
                        \/ ServeRun(c) \/ RunAnswers(c)

Execute == \E j \in DOMAIN jobs : StartJob(j) \/ EndJob(j)

EditorNext ==
    \/ Mount \/ Leave \/ EditForm \/ ResetToNew \/ Delete
    \/ \E p \in Plans : SelectPlan(p)
    \/ \E c \in Calls, run \in BOOLEAN : Click(c, run)
    \/ Answer \/ Execute \/ Hear

EditorSpec == EditorInit /\ [][EditorNext]_vars

\* Requests are answered, plans end (TestPlan's PlanEnds) and the channel
\* delivers; the user may do nothing.
FairEditor ==
    /\ EditorSpec
    /\ WF_vars(PlansAnswer) /\ WF_vars(RuntimesAnswer)
    /\ WF_vars(ServeDelete \/ DeleteAnswers)
    /\ \A r \in RuntimeIds : WF_vars(ModelsAnswer(r))
    /\ \A c \in Calls : WF_vars(\/ ServeSave(c) \/ SaveAnswers(c) \/ CallFails(c)
                                \/ ServeRun(c) \/ RunAnswers(c))
    /\ WF_vars(Execute) /\ WF_vars(Hear)

-----------------------------------------------------------------------------
(***************************************************************************)
(* Properties.                                                             *)
(***************************************************************************)
\* What the page and the server hold is of the expected shape.
EditorTypeOK ==
    /\ stored \in Table /\ fresh \subseteq Plans
    /\ jobs \in Seq(Job) /\ events \in Seq(Event)
    /\ plans \in Table /\ active \in Plan /\ listed \in BOOLEAN
    /\ running \in BOOLEAN
    /\ known \in BOOLEAN /\ mounted \in BOOLEAN /\ form \in Plan
    /\ cache \in [RuntimeIds -> {"unknown", "listed", "empty"}]
    /\ loading \in [RuntimeIds -> Nat] /\ listing \in Table \cup {NoTable}
    /\ fetching \in BOOLEAN /\ call \in [Calls -> Call]
    /\ deletion \in Deletion
    /\ edits \in Nat /\ acts \in Nat /\ turns \in Nat /\ late \in BOOLEAN

\* What the engine needs of the groups that are enabled.
Complete(content) ==
    LET on == {g \in Range(content.groups) : g.on}
    IN  on # {} /\ \A g \in on : g.runtime # NoRuntime /\ g.model

\* Whatever the user edits, imports and loads, and however saves, deletions
\* and answers overlap: a plan that is stored names a runtime and a model in
\* every enabled group, which only the browser checks (validateForm), and a
\* plan that was announced as started also has runtimes the server knows.  It
\* does not say that a stored plan can be started: the server refuses one
\* whose disabled group has no runtime (TwoGroups), or that was imported with
\* a runtime it does not have.
StartedPlansAreRunnable ==
    /\ \A p \in Plans : stored[p] # Absent => Complete(stored[p])
    /\ \A j \in DOMAIN jobs : jobs[j].stage \in {"started", "over"} =>
          /\ Complete(jobs[j].config)
          /\ \A g \in Range(jobs[j].config.groups) : g.runtime \in Runtimes

\* handleRun executes the plan the user saw when the button was clicked, in
\* spite of two requests and whatever happens to form and store between them;
\* only another save of the same plan changes it.
RunIsTheClickedPlan ==
    \A j \in DOMAIN jobs : jobs[j].config = jobs[j].asked \/ jobs[j].crossed

\* The form never carries the id of one plan while another one is loaded, so
\* that Save, Run and Delete act on the plan the list shows as chosen.
OnePlanIsOpen == form.id # NoPlan /\ active.id # NoPlan => form.id = active.id

\* f is g, but for the runtime of groups that had none.
OnlyFilled(f, g) ==
    /\ f.content.rest = g.content.rest /\ Len(f.content.groups) = Len(g.content.groups)
    /\ \A i \in DOMAIN f.content.groups :
          LET new == f.content.groups[i]
              old == g.content.groups[i]
          IN  new = old \/ (old.runtime = NoRuntime /\ new.model = old.model /\ new.on = old.on)

\* A deletion this builder asked for is answered.
OwnDeletionEnds == deletion.stage = "done" /\ deletion.mine /\ deletion' = NoDeletion

\* While no plan is loaded and the user does nothing, no answer that arrives,
\* no event and no effect changes what the user has entered, but for the
\* runtime of groups that have none, and but for one answer: that to the
\* builder's own deletion empties the form, whatever was entered since it was
\* sent (handleDeleteActivePlan ends in handleResetToNew).
OwnFormIsKept ==
    [][ (/\ mounted /\ mounted' /\ edits' = edits /\ acts' = acts
         /\ active.id = NoPlan /\ active'.id = NoPlan)
        => OnlyFilled(form', form) \/ OwnDeletionEnds ]_vars

\* The two effects and the cache they depend on come to rest: the builder does
\* not fetch model lists for ever.
EffectsSettle == []<>(loading = NoFetch)

\* The page does not show a plan as running for ever, and so keep its buttons
\* disabled, unless the answer to a POST came after the message that the very
\* execution it had asked for was over.
RunningClears == running ~> (~running \/ late)

=============================================================================
