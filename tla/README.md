# DynoLLM in TLA+

DynoLLM load-tests, benchmarks and monitors local LLM runtimes (Ollama and
OpenAI-compatible servers).  The backend is one Python process: FastAPI
handlers, background tasks and pollers on one asyncio event loop, with a SQLite
database behind SQLAlchemy sessions and module-level dictionaries shared by
everybody.  The frontend is a React application whose stores follow the runs
through REST answers and WebSocket events.

This directory models that program, checks the models with TLC and proves the
central results with TLAPS.  `PROJECT.json` lists the components, the runs, the
source lines each definition stands for, the slips each property was tried
against, the hazards, the findings and the theorems.  Paths are relative to
`src/`.

## 1. The system

| Part | State | Operations | Hard behaviour |
| --- | --- | --- | --- |
| Load-test engine, `backend/app/loadtest/engine.py` | `_ACTIVE_RUNS`, tier buffer, result list, semaphore, watchdog verdict | `run_load_test` (4 traffic patterns), `stop_run`, `_single_request`, `_persist_tier_results`, `watchdog`, `_compute_aggregates` | tasks cancelled at any await, retries across a stop, a watchdog that fires late, inserts that fail, a clock that moves between reads |
| Run life cycle, `backend/app/api/load_tests.py` | the run's row, its result rows, one ORM session per task or handler | create, stop, delete, clear, `_execute_load_test` | every handler acts on what it loaded before an await; the session caches rows |
| Benchmark engine and life cycle, `benchmark/engine.py`, `api/benchmarks.py` | `_ACTIVE_BENCH_RUNS`, row, result rows | create, stop, delete, clear, `_execute_benchmark`, `run_benchmark` | cooperative cancellation, one commit per step |
| Engine telemetry, `monitoring/engine_poller.py`, `engine_history.py` | cache, ring buffers, active run per runtime | poll loop, `record_sample`, `prune_runtime`, `get_history`, `get_history_for_run` | polls that time out, eviction against late samples, runs that overlap on a runtime |
| Request traces, `services/trace_service.py` | `request_traces` table | `record_trace`, `record_traces_bulk`, `enforce_retention_limit` | concurrent retention: count, select and delete are three awaits |
| Proxy, `api/proxy.py` | one trace per request | forward, stream, record | client that leaves in the middle of a stream |
| Test plans, `api/load_test_plans.py`, `loadtest/orchestrator.py`, `assertions.py` | plan rows, aggregates per thread group | CRUD, `run_plan`, `_merge_aggregates` | thread groups in parallel, one of several failing |
| WebSocket manager, `api/websocket_manager.py` | list of connections | connect, disconnect, broadcast | sends outside the lock |
| Frontend stores and hook, `frontend/src/stores`, `hooks/useWebSocket.js` | list of runs, live statistics, socket, timers | REST actions, event handler, reconnection | events that overtake answers, timers that outlive their socket |
| Test-plan builder, `frontend/src/components/TestPlanBuilder.jsx`, `stores/loadTestPlanStore.js` | the form (of a component that is unmounted and mounted), the loaded plan, list and running plan (of the store), model lists | edit, load, import, save, run, delete, probe | two effects that write the form, saves and runs of two requests, answers for a builder that is gone |
| A plan's readers, `TestPlanBuilder.jsx`, `utils/jmeterPlanUtils.js`, `loadtest/orchestrator.py`, `config_elements.py` | none of their own | preview, warnings, request body, payload, JMeter file, k6 script, execution | each turns blank numbers and names into something in its own place |
| vLLM optimizer, `pages/VllmOptimizer.jsx`, `utils/vllmOptimizer.js`, `data/vllmConstants.js` | version, model, GPU, recipe, some forty flags, help text and its analysis | choose, slide, type, apply traffic, reset, analyse, prune, export | flags that stay from another version or model, four writers of one number |
| GPU sizer, `pages/GpuSizer.jsx`, `utils/gpuSizer.js` | name, size, precision, context, users, telemetry of the host | type, choose, evaluate | the same memory computed in several places with different reserves |
| Start forms, `pages/LoadTest.jsx`, `pages/Benchmark.jsx` | the run to start, the models offered, templates, awaited answers | choose, type, save and delete templates, submit | answers that come after the question was changed |
| Adapters, parsing, quality scores, export, result panels | none or request-local | | I/O, wording, floating-point formulas, rendering |

The parts meet in four places: `_execute_load_test` awaits `run_load_test` and
hands it the run's parameters; the stop handler writes the dictionary the engine
polls; the engine and the benchmark tag their runtime so that the poller labels
samples; and every part broadcasts through the one WebSocket manager to the
stores.  The orchestrator awaits one `run_load_test` per thread group.

What makes each part correct:

* engine: the load never exceeds what was asked; a stop is obeyed by every
  task; results are counted once, stored once and agree with the aggregates;
  the run ends, whatever hangs; the registry entry does not outlive the run;
* life cycle: one outcome, committed before it is announced; deleted runs stay
  deleted; a stopped run is a stopped run;
* benchmarks: the aggregates are those of the results that are kept, although
  the exceptions of a commit are swallowed; a stop ends the loop;
* telemetry and traces: labels and limits mean what they say under concurrency;
* plans: a plan passes only if its groups ran and met the assertion; the safe
  concurrency is the largest tier below which nothing broke the SLA;
* stores: what the page shows converges to what the server did;
* builder: what is stored and run is runnable and is the plan that was on the
  page; while no plan is loaded, no answer but that to the builder's own deletion
  overwrites unsaved input (section 5); it comes to rest;
* readers of a plan: they read the same numbers and names, and make the same load
  of them where they follow one rule;
* optimizer and sizer: estimates made in two places agree, the command is one
  the chosen version takes, and the exported files start the same engine;
* start forms: what is started is what the page shows.

## 2. The modules

Each component has a module (its state, one action per step between two awaits,
its properties), an `MC` module for TLC, and, where something is proved, a
`_proofs` module.

| Module | Models | Built on |
| --- | --- | --- |
| `EngineContract` | what one call of `run_load_test` promises its callers | |
| `LoadTestEngine` | `run_load_test` with all its tasks | implements `EngineContract` (`Contract == INSTANCE ... WITH`) |
| `RunLifecycle` | REST handlers and background task of one load-test run | extends `EngineContract` |
| `RunView` | one browser: store, events channel, REST answers | extends `RunLifecycle` |
| `BenchmarkRun` | background task, loop and handlers of one benchmark | |
| `EngineTelemetry` | poller, cache, ring buffers, registered runs | |
| `TraceStore` | the trace table and its retention limit | |
| `TestPlan` | execution of a plan, its verdict, the safe concurrency | uses the contract's promise to come back |
| `PlanEditor` | the builder, its store, and the plan endpoints that answer it | uses `TestPlan`'s promise that executions end |
| `VllmCatalog` | the registries: versions, models, cards, recipes, flags | |
| `GpuSizing` | the functions of `gpuSizer.js` | extends `VllmCatalog` |
| `GpuSizer` | the GPU sizer's page | extends `GpuSizing` |
| `VllmOptimizer` | the optimizer's page, its command and its files | extends `GpuSizing` |
| `PlanForm` | the contents of a plan and all who read them | |
| `RunForms` | the forms that start load tests and benchmarks | |
| `Pages` | one visit of one page, with the properties that name the page | extends the four modules above it |

The composition is by contract: `LoadTestEngine` is checked and proved to
implement `EngineContract`; `RunLifecycle` runs any engine that does, so what is
shown of it holds of the real one without multiplying the state spaces; and
`RunView` adds a browser to that server.  The pages share only the registries
and functions and are never open together, so `Pages` composes them by a choice
of the route: a visit creates a page's state, as opening a route does.
`PlanEditor` and `PlanForm` are two sides of one component: the first keeps when
and where a plan travels and almost nothing of what it says, the second the
opposite.

Definitions named `...` after a comment that starts with "Slip:" are not part of
any specification.  They are plausible mistakes in the code, kept beside the
definition they corrupt; every property is broken by one of them.

### LoadTestEngine

The engine is cooperative: all tasks of a run share one event loop, so the code
between two awaits is atomic and an action stands for it.  `ctl` is where the
controller awaits, `worker[w]` where task `w` of the tier does, `watchdog` where
the watchdog does.

| Action | Code |
| --- | --- |
| `Begin` | the registry entry is set (`_ACTIVE_RUNS[run_id] = True`), the watchdog task created, and the first progress message awaited |
| `FirstTier`, `Advance` | the `if pattern == ...` ladder; `RampUp`, `Hold`, `Spike`, `Stress` are its branches |
| `EndTier`, `CancelWorker`, `Gathered` | the poll loop of `run_with_concurrency` ends, the workers are cancelled at whatever await they are, and are waited for |
| `Persist`, `PersistFails` | `_persist_tier_results`: one transaction per tier; a failure leaves `run_load_test` through `Finally` |
| `Return` | once the client is closed, the aggregates (`report`), or the exception that ended the run |
| `Send`, `Quit`, `Answer`, `NetworkError`, `Retry`, `Rest` | `tier_worker` and `_single_request`, with one retry after a transient network error |
| `WatchdogWakes`, `PingSucceeds`, `PingFails`, `AlertSent`, `WatchdogCancelled` | the watchdog; it may be cancelled at any of its awaits, and may also give its verdict after the run was closed |
| `StopRun`, `RuntimeCrashes`, `RuntimeRecovers`, `Tick` | the environment |

Time is a tick: `now` since the start, `left` to the tier's deadline.  Prompts,
latencies and tokens are abstracted; a result keeps its tier's size and whether
it succeeded.

### RunLifecycle and RunView

`row` is the committed status, `cached` what the task's own ORM session holds.
Sessions are made with `expire_on_commit=False`, so the second `select` of the
task returns the object it already has (`Reselected`).  Every handler is split
at its awaits, `seen[s]` being what stop call `s` loaded.  `events` is the
sequence of messages broadcast about the run.  Any statement or commit of the
task may raise: from the body that leads into the except clause, whose
own statements may raise again; nothing catches that, the task is "lost", and the
row stays as it was last committed.

`RunView` adds `activeRun.status` (`active`), whether `liveProgress` is set
(`live`), and the channel.  Messages are handled in order, or lost while the
channel is down; REST answers travel separately, so a message may overtake the
answer of the POST that created the run, and the answer of the GET that is made
on completion may come after a stop.

### BenchmarkRun

The loop works in the task's own session.  `broken` says that a failed flush or
commit left the session in a state in which every further statement raises:
`record_trace` swallows the exception, but the run cannot complete.  The
statements and commits of the task raise as those of `RunLifecycle` do.  A stop
is looked at once per iteration.

### EngineTelemetry and TraceStore

`poller`, `runtimes`, `polls` are the loop of `engine_poller.py`; `Poll(r)` is
one answer, failure or time-out.  A sample keeps its label and, as a history
field, which runs were really in progress.  `TraceStore` splits the retention at
its three statements; a trace is its `started_at` stamp.

### TestPlan

`task` is where `_execute_plan` awaits, `group[g]` where `_execute_tg` of a
group does.  An engine is reduced to what it measured: per number of users, how
many requests, failures and answers of valid quality.  `SafeLoop` is the loop
of `_compute_aggregates`, `Merged` is `_merge_aggregates`, `Target`, `Percent`
and `Holds` are the evaluation of one error-rate assertion, in exact integers.
A float rate is compared with 0.05 and 0.95 only at counts where the quotient
and the literal are the same double, so the exact comparison is the code's.

### PlanEditor

The form is the state of a component that another tab unmounts; the loaded plan
(`active`), the list (`plans`) and the running plan are the store's and stay.

| Action | Code |
| --- | --- |
| `Mount`, `Leave` | opening the builder (fresh form, empty cache, two fetches, effects), and the tab that unmounts it |
| `Render` (part of other actions) | the two effects after a change of `why`: groups without a runtime get the first one; a loaded plan is copied into the form.  Both depend on a function that is new whenever the cache of model lists changed |
| `PlansAnswer`, `RuntimesAnswer`, `ModelsAnswer` | the awaited fetches; what the server listed is fixed when it was asked |
| `EditForm` | every change of groups, elements, blueprint and import |
| `SelectPlan`, `ResetToNew` | the list of plans and the New button |
| `Click`, `ServeSave`, `SaveAnswers`, `ServeRun`, `RunAnswers`, `CallFails` | `handleSave` and `handleRun`, split at their requests: `call[c]` is where one activation is, `content` what it saw when it was clicked |
| `Delete`, `ServeDelete`, `DeleteAnswers` | `handleDeleteActivePlan` |
| `StartJob`, `EndJob`, `Hear` | the execution, told to the page through the events channel; the server refuses a plan with a group, enabled or not, whose runtime it does not know |

An answer to an unmounted builder changes only the store (`mine`).  The
continuation of a deletion uses the render in which it was asked for: `blank` is
the fresh form of that render, `asks` whether it fetches a model list.
`Unregistered` is an id in an imported file that no runtime has: import keeps it.
`crossed` is a history field (another save of the same plan came between the two
requests of a run), and so is `late` (the execution a POST had asked for was
heard to be over before that POST was answered).

### The pages

A step is one input of the user, or something that was awaited (an answer, a
timer, a field that loses the focus).  `editing`, `sizing` and `focus` are the
number field that is being typed into: such a field may be empty, and is given
a number when it is left (`onBlur`), which is when the other controls can be
reached.  A blank or absent number of a plan is 0.  Fractions that the code
compares are whole numbers of a smaller unit (percent, hundredths of billions
of parameters, 640 000ths of a gigabyte), so the comparisons are exact, and the
code's up to the rounding of doubles.

* `GpuSizer`, `VllmOptimizer`: the derived values of a render are operators
  (`TotalUsedVramGb`, `MaxSafeConcurrency`, `GenerateVllmCommand`, ...), the
  command being the set of flags it passes.  `by` is a history variable: who set
  the context length (the page's own control, a traffic profile, a length kept
  from before, the user's hand), the parallelism and the recipe last.
* `PlanForm`: one operator per reader, named for it: `Schedule` and `UsersAt`
  (preview), `SamplerPreview`, `Warnings`, `Sent` (payload), `Jmx...`, `K6`
  (exports); of the server, `Applied` (what `run_plan` hands to the engine, after
  the token `Budgets`), `ServerUsers` (the users the engine then runs at a second,
  by pattern), `Collected` and the other `Server...`.
* `RunForms`: `awaited` is the set of answers a page waits for while it can be
  used.  `unsure` is a history variable: the user acted while something was
  awaited, or has seen a list that failed to be fetched.

## 3. What is checked

| Run | Bounds | Question | Distinct states |
| --- | --- | --- | --- |
| `engine` | up to 3 users, 1 request in the whole run, 3 ticks, stress cap 2; all four patterns | safety of every interleaving of tasks, stops, failures and clock; with a running clock the engine implements the contract and its fairness | 247 thousand |
| `lifecycle` | 2 stops, 1 delete, 1 result row; every statement may raise | order of messages, commit before message, no resurrection; every run settles and is announced, unless the except clause raises | 775 thousand |
| `view` | 1 stop, 1 delete, no rows (the view never reads them) | the page against lost and overtaking messages | 1.11 million |
| `benchmark` | 3 iterations, 2 stops, 1 delete | aggregates are backed, a stop ends the loop, an outcome is announced, unless the except clause raises | 341 thousand |
| `telemetry` | 2 runtimes, 2 runs, buffers of 2 | labels, evictions, forgetting | 179 thousand |
| `traces` | 1 single caller, 2 bulk callers, limit 1 | concurrent retention | 1.46 million |
| `plan` | 2 groups, tiers of 1 and 2 users, 6 measurements per tier | verdict, safe concurrency, end of every plan | 170 thousand |
| `editor` | 1 stored plan and 1 more id, 1 runtime and an id that is none, 2 groups, 2 calls; 3 acts in all, of which 2 edits and 2 turns; 2 executions | what is stored and run, whose form it is, and that builder and buttons come to rest | 89 thousand |
| `pages` | five routes, 3 inputs a visit; 4 models, 2 cards, 3 recipes, all versions, few numbers | agreement of estimates, exports and readers; what is started is what is shown | 429 thousand |
| `lifecycle_stopped`, `lifecycle_halt`, `benchmark_stopped` | smallest | the three disagreements of section 5 | |

Why the bounds are enough.  Two tiers are the fewest in which a leftover of one
can reach the next, and the ramp of three users has three, one user at a time.
`Engine.cfg` has one request in the whole run: whichever worker takes it may
record it, be cut off with it or pause for a retry, in any tier, while a stop and
the deadline cross it and the other workers find the budget spent.  That several
requests under way together keep load, counts and rows right rests on the proofs
(`LoadBounded`, `RequestsConserved`, `RowsCorrect`), which hold for every budget.
Two stop calls are needed for one to act on what the other
wrote, and one delete call can interleave with each of them; a second delete
finds nothing.  Three iterations give a benchmark a first, a middle and a last
one.  With two runs on two runtimes one can overlap the other, or move; a
buffer of two drops its oldest sample.  With a limit of one trace and two
batches a caller can count, select and delete around both others.  Two thread
groups are the fewest that can be merged or serialized, and the measurements of
`MCTestPlan` lie on both sides of the 5% and 95% comparisons, on them, and at a
rate (100 of 1999) that breaks the SLA but is rounded down to 5.00%.

In the builder one plan can be loaded while another is created, and two calls
are the fewest of which one can cross the other; three acts suffice to edit,
click and turn away, in any order, while every answer is still under way.  They
do not suffice for two complete calls that cross: that the clicked plan is the
one that runs then too rests on `ClickedPlanCorrect`.  With one runtime a list
that arrives never makes the builder fetch another one's, so `EffectsSettle` is
shown for a server with one runtime only.  A
visit of three inputs is enough to set a value, change what it was derived from
and do something that reads it; answers are not counted, and visits are up to
ten steps long.  The models of `MCPages` are one per way in which the code
treats models apart (heads that do not divide, a context shorter than the
buttons offer, images), the recipes one without an argument, one with a
quantization and one with a load format; numbers lie on both sides of the
limits they are compared with.  Preview and engine are compared at 21 seconds
spread over a run by TLC, and at every second by the proof.

What the properties exempt.  `RunSettles`, `OutcomeIsAnnounced` and `ViewSettles`
say nothing of a run whose task was lost in its except clause (section 5);
`RunningClears` nothing of a page that heard the end of an execution before the
answer that started it; `OwnFormIsKept` nothing of the answer to the builder's
own deletion; the start forms' property nothing of a user who acts while an
answer is awaited, whose surprises section 5 lists.  `DeadlineWithinBudget` leaves
out spikes and constant runs, whose tiers do not subtract the time already spent,
and `NoResurrection` is about the run's row, not about result rows that outlive
it.

Deadlock checking is off where the modelled part may really be over (a run that
ended and that nobody stops again).

Symmetry is used only in the `traces` run, which has no liveness property: its
callers of one kind are interchangeable.

### Fairness

* The event loop resumes every coroutine whose await is over: weak fairness of
  the steps of tasks and handlers.  Nobody is obliged to call an endpoint.
* Database statements end, by an answer or by an exception after 30 s; the
  watchdog's ping ends after 4 s; the client of a benchmark ends a request
  after 300 s without a byte.
* Nothing is assumed of the runtime under load: a request may hang for ever.
  `ImplementsFairContract` assumes, as its antecedent (`DeadlinesPass`), that
  the clock runs, since a tier without a stop only ends at its deadline.
* In `PlanEditor`, requests are answered (the browser ends them by an answer or
  an error), executions end (`PlanEnds` of `TestPlan`) and the channel delivers.
  The user is obliged to nothing.  `Pages` states no liveness.
* In `RunView`, `Hear` is strongly fair: the channel may close again and again,
  but a message that could arrive infinitely often does.  `Reconnect` is weakly
  fair: `onclose` always schedules another attempt.  `ViewSettles` is stated of
  a view that missed no message.

## 4. What is proved

All theorems hold for every value of the constants, from the named assumptions
of the modules: types of the constants; in `TraceStore`, that the traces ever
recorded are finitely many; in `TestPlan`, that a tier has made a request, and no
more of them failed or were good than it made; on the pages, that models, cards,
recipes and versions are from the registries, that typed names have a size or are
a preset's, and that lengths come from a slider with steps of 256.

* `LoadTestEngine_proofs`: `TypeCorrect` needs `BackoffIsFirstTry` (a task
  pauses only after its first try), or `attempt` would leave its range.
  `FlagIsSafe` needs the invariant `FlagInv`: the registry entry can only be
  raised at "boot", and the watchdog is not yet there then.  `LoadBounded` needs
  `TierInv` (a live task is one of the tier's `users`, in a tier) and the
  cardinality of an interval.  `RowsCorrect` and `RequestsConserved` are
  inductive together with it.  `EngineImplementsContract` puts them together:
  every step of the engine is a step of the contract or a stutter.
  `DeadlineKept` and `StopIsPrompt` need `TriesInv`: what a tick takes from a
  tier it adds to the clock, and a task that waits for an answer has made one try
  at least, so that with `BackoffIsFirstTry` the retry after a pause is the last.
  `EscalationIsSafe` follows from the type invariant, branch by branch.
* `RunLifecycle_proofs`: `StepInv` ties the task, the engine's phase, the cached
  status and the row together: no final status before the task has written one,
  and no engine at work unless the task awaits it.  With it, `EventsCorrect` is
  proved by classifying every step by the message it may send (`Messages`) and
  what it may do to the row of a task that is done (`Moves`), and one lemma on a
  message added to an ordered sequence.  `OutcomeStands` gives the two action
  properties.  As the engine enters by its contract only, these hold of any
  engine that implements it, so of the one above.
  For the browser, `ViewRefinesLifecycle`: a server with a browser behaves
  like one without, so the theorems of the life cycle hold beside it.
  `ProgressCleared` and `ShownOutcomeStands` need `ViewInv`: what was heard
  stays heard, a page that shows an outcome has heard more than "stopped", and
  the GET that is made on completion was asked after "completed" was heard, so
  that it reads a final status.
* `BenchmarkRun_proofs`: `Counting` (how far the counters may be apart at each
  await) for the type; `SessionInv` for `AggregatesCorrect`: a session that is
  not broken has stored what it counted, and the task can only get to "finished"
  with one; `StopInv` for `StopCorrect`: once a stop has reached the loop, the
  flag is not on and the count of iterations stands.
* `TraceStore_proofs`: the limit is not invariant while calls are under way.
  `LimitInv` says that an exception was swallowed, or the table is within the
  limit, or some caller will still enforce it (`WillEnforce`): it has yet to
  count, or the excess it counted, or the ids it selected, suffice.
  `NewestCorrect` follows a caller that is alone from its count on.
* `EngineTelemetry_proofs`: `PollInv` (polls under way are of loaded runtimes)
  for the evictions, `RunInv` and `TagInv` for the labels, which then hold of
  every stored sample for ever (`HistoryInv`).
* `TestPlan_proofs`: `VerdictInv` says that only enabled groups are touched, that
  all of them are over before the plan is judged, and that the stored verdict is
  what the measurements give, so that nothing is measured after it.
  `VerdictIsSound` and `SafeMaxIsTheLimit` are then facts about the code's two
  loops: the sums of the aggregates over groups and tiers (`SumFacts`), and the
  loop over the tiers that keeps the last one below which nothing broke the SLA
  (`SafeLoopIsRight`).
  Both are recursive functions, which unfold once they are known to exist
  (`SumExists`, `LoopExists`); the inductions are made from the well-founded order of the numbers
  (`LeastNumber`, `SetInduction`), because the library's induction theorems take
  an operator.
* `PlanEditor_proofs`: `ValidInv` says that every content on its way to the
  table or to an execution has passed `validateForm`, wherever its call awaits,
  from which `StoredPlansCorrect` follows by comparing that check with what an
  engine needs: stored plans are complete in their enabled groups, and what was
  announced as started has in every group, disabled ones too, a runtime the
  server has.  `RunInv` says that between the two requests of a run the row is
  what was clicked, or deleted, or another save crossed it (`ClickedPlanCorrect`).
  `OpenInv` is about the form of a mounted builder (`OnePlanCorrect`), and with
  one lemma on what a render may do to a form (`Render_Fills`) gives
  `OwnFormCorrect`, which excepts the answer to the builder's own deletion only.
* `Pages_proofs`: `StartedCorrect`, for any runtimes, numbers and length of a
  visit.  `FormInv` says what every field of a form holds while it is typed into
  and while it is not; `ModelCalm` and `TemplateCalm` say of a user who has
  waited so far which answers can be under way together and what they may still
  change; `StartInv` carries both to the request that is sent.
  `CommandCorrect` and `RecommendedCorrect` are about the optimizer:
  `OptimizerInv` says that the model is one for which what is recommended can be
  served (`Servable`: shown of every model of the catalog and of every name that
  is typed), that a length that is being typed is the user's own, and that one
  set for a traffic profile holds a request of the profile that is shown, or is
  the 32768 above which the page never goes.  Of these lengths no more is claimed:
  they need not be within the model's own (section 5).
  `ExportsCorrect` needs `RecipeInv`: a recipe that was chosen in its control
  either has an argument of its own, which overrides the flag, or the flag is
  empty.
  `MarkedCardsSuffice` and `CapacityAgrees` are about numbers that two pages
  compute in several places.  `SizerInv` and `CapacityInv` say that every field
  they are computed from is a number, that no field is blank once it was left,
  and that a request's cache is never nothing (`KvIsWhole`), so that there is something
  to divide by.  The cards then follow from one lemma on quotients
  (`OverQuotient`) and from the registry: the smallest card keeps back more than
  the recommendation adds (`CardsAreSized`).
  `PlanIsReadAlike` needs `FormTypeInv`: the form always holds a plan, a record of
  lists of groups, elements and assertions whose numbers are none below zero.
  With it, the readers agree by lemmas on what is enabled (`OnAre`,
  `ElementsAre`, from `ThoseAre`), one per reading (`GroupsAreReadAlike`, which
  takes from `AppliedNumbers` what reaches the engine and from `CurvesAgree` that
  preview and engine run the same users at every second of a constant run and a
  ramp, and of a stress test while its steps stay below both limits;
  `PausesAgree`, `NamesAreReadAlike`, `PromptsAreReadAlike`, `ValidityIsWarned`),
  and an induction over the elements for the headers the server collects
  (`HeadersAreReadAlike`).

Every safety invariant and every action property of the passing runs that is not
about liveness is proved.  Only model-checked is what the prover cannot state or
combine: liveness under fairness (`ImplementsFairContract`, `RunSettles`,
`OutcomeIsAnnounced`, `EffectsSettle`, `RunningClears`, `PlanEnds`,
`InactiveIsForgotten`, `ViewSettles`), and of course the three sentences that
fail.

## 5. What the models show about the code

Three runs end with a counterexample on purpose; each checks one sentence of the
repository.

* `lifecycle_stopped`: a load test that is stopped while it runs ends as
  `completed`, because the guard `if run.status != "stopped"` reads the cached
  object.
* `lifecycle_halt`: a stop that is answered between the commit of "running" and
  the engine's first statement is overwritten by that statement.
* `benchmark_stopped`: the row of a stopped benchmark always ends as
  `completed`.

Other behaviour met while modelling, in the models but not denied by any line
that a run could check, or denied only by prose:

* A run the watchdog aborts is announced as completed; README.md:508 calls it
  failed (`EngineCondemns`, then `TaskFinishes`).
* A statement or commit that raises inside the except clause of
  `_execute_load_test` (`load_tests.py:72`, `:78`) or `_execute_benchmark`
  (`benchmarks.py:73`) is caught by nobody: the row stays "running", nothing is
  broadcast, the page waits for ever, and nothing repairs it at the next start.
* Concurrent enforcements may each delete the same excess counted twice and
  leave fewer than `MAX_STORED_TRACES` rows; a trace deleted before its own
  refresh raises, and that caller does not enforce.
* Rows of a tier may be committed after their run was deleted and stay for ever.
* The first of two runs that end on one runtime clears the registration of the
  other, whose later samples have no label.
* The second tier of a spike, and a constant run, may overrun the duration.
* A failed commit of a benchmark's trace leaves the session unusable, so that
  the run fails later, with an unrelated message.
* A stop after the end of a run leaves a registry entry that nothing removes.
* Messages lost while the socket is down are never made up for; the delay
  before a reconnection starts at 2 s and grows by 1.5 to 30 s, not the "3
  seconds" of README.md:515.
* A "completed" that overtakes the answer of the POST leaves the page at
  "pending"; the GET made on completion may overwrite "stopped".
* When the smallest tier breaks the SLA the reported safe concurrency is still
  1 (0 if nothing succeeded).  A plan without enabled groups passes; an
  assertion scoped to a disabled group is silently evaluated for the plan; a
  group the watchdog aborted can pass; the runs of a plan cannot be stopped,
  their ids having no row.

* An assertion whose threshold is left out (`assertions.py:85`), or a scoped one
  without a name (`:50`), makes the evaluation raise after the whole load has
  run; the results are stored nowhere else (`PlanEnds` allows it).

The test-plan builder and a plan's readers:

* A model list that arrives copies the loaded plan into the form again, over
  edits that were not saved.  Save after a blueprint or an import overwrites the
  plan that was loaded before.  A run whose POST is answered after its own
  `plan_completed` leaves the page at "running" (`late`).  The answer to a
  deletion empties the form, also one that was begun anew since
  (`handleDeleteActivePlan` ends in `handleResetToNew`).
* The builder validates enabled groups only, but the server resolves the runtime of
  every group (`load_test_plans.py:96`): a plan with a disabled group that has none,
  or the unknown one of an imported file, is stored and then refused with
  `plan_error`.  `handleRun`'s parameter `isAdHoc` (`TestPlanBuilder.jsx:709`) is
  never true: the only caller passes `false` (`:2967`).
* The preview draws a spike as 15 % of the users, the target between 30 % and 60 %
  of the duration, and 15 % again (`jmeterPlanUtils.js:385`); README.md:466 and the
  engine have a short warm-up and then the target to the end.
* The preview draws a stress test up to 130 % of the target and adds a ramp-down;
  the engine ends a stress test at the target or at `MAX_CONCURRENT_USERS` and has
  no ramp-down.  `OneCurve` compares them where they follow one rule.
* Temperature and top_p cannot be 0 (they become 0.7 and 1.0); an imported top_p
  of 0 is sent as 0 and shown as 1.0.  The preview draws ten seconds at least
  and ignores `serialize_threadgroups`.  Ramp-down, loop count and target rate
  are shown and sent, and the orchestrator does not hand them to the engine.  A
  token budget is in neither JMeter file, k6 script nor preview.
* A timer without min and max shows 200 and 800 and sends 0 and 0; JMeter's
  constant timer defaults to 500, the server's to 200.  JMeter omits the element
  type "timer" and applies all timers, the server the last.  k6 takes the first
  group even if it is disabled.  JMeter and preview read the first variables
  element, the server all; a header of a blank value is sent by JMeter and
  skipped by the server, which substitutes variables only in headers that come
  after their element.  The headers it collects (`config_elements.py:56`) are
  read by no adapter.
* Renaming a variable or header to a name that exists overwrites that row; a
  template button blanks an existing variable.  The text of an uploaded file is
  written to whatever element has its index when it was read
  (`PromptsAreRead`).  A probe's result stays under another group.

The calculators:

* The regular expression (`VllmOptimizer.jsx:272`) finds none of the standard
  flags of vLLM's own help output: all are "missing", and pruning removes every
  flag it can.  The analysis after a pruning uses the command of before it.
* Choosing fp16 on the chart leaves `--quantization` of the recipe before.  The
  0.3.x command passes `--cpu-offload-gb`, which that version lacks
  (`vllmConstants.js:130`); its compose file also passes prefix caching and
  chunked prefill, and no compose file passes `--tensor-parallel-size`.  The
  environment says "none" for quantizations the command names.
* A custom name or a traffic profile may leave a context longer than the
  model's, and so does the 16384 button with gemma-2.  "Reset to Defaults" of the
  traffic banner resets nothing.  The context curve counts no images.
* In the sizer a card may be marked for one user although not one slot fits, the
  smallest size named may be one whose card is called insufficient, and host and
  card disagree on a room of less than half a gigabyte.

The start forms:

* A list of models that arrives late, and the default runtime itself, are applied
  to whatever is chosen by then: the model may be another runtime's.  A late
  answer to the saving or deleting of a template labels the run with it, or
  leaves a deleted one chosen; editing the prompt keeps the template.
* The benchmark store's `loading` is shared with the fetching of runs, whose
  answer enables the start button while a POST is under way.

## 6. What is not modelled

`PROJECT.json` lists every part.  Left out for good: text heuristics (quality
scores, context generation, metric parsing), hardware probes, the formulas of
speed, cost, ratings and token metrics (nothing depends on their result),
rendering (Dashboard, Monitoring, Runtimes, History, reports, guides and the
result panels of the modelled pages show what they fetch), one-statement CRUD,
start-up.  Left out so far: the proxy and the adapters, see below.  The server
has no recovery code: a row that was running when the process died stays so,
and there is no step to model.

## 7. Plan

Done, in this order: the engine and its contract, the life cycle on top of the
contract, traces, telemetry, benchmarks, the browser's view, plans; the plan
builder, the calculators, the readers of a plan and the start forms; proofs of
all their safety properties.

Next:

1. `ProxyStream`: forwarding, streaming and recording of one proxied request,
   with a client that leaves in the middle, composed with `TraceStore` (whose
   `Insert` it becomes a caller of).
2. `AdapterStream`: how the chunks of a stream become one result (first token,
   usage chunk, truncated stream), and the sampling of `get_history`: counter
   resets and windows.
3. The schedule of ramps as a pure function against the tiers the engine runs.
4. `ConnectionManager`: sends outside the lock, with several browsers.
5. The benchmark store, and the timers of `useWebSocket`.
