------------------------------ MODULE PlanForm ------------------------------
(***************************************************************************)
(* What a test plan in the builder says (components/TestPlanBuilder.jsx),  *)
(* and who reads it: the preview of the load, the warnings, the request    *)
(* body shown (utils/jmeterPlanUtils.js), the payload that is sent, the    *)
(* JMeter and k6 files written from that payload, and the server that runs *)
(* it (loadtest/orchestrator.py, config_elements.py).  Each of them turns  *)
(* blank or missing numbers into numbers in its own place.                 *)
(*                                                                         *)
(* When and where the plan is stored and run is PlanEditor's.  Here a step *)
(* is one input of the user, or the answer to a probe.  A number that is   *)
(* blank or absent is 0; temperature and top_p are in hundredths.  Names   *)
(* and values of headers and variables are few; other texts, loop counts,  *)
(* rates, penalties, seeds and what is on the screen are left out.         *)
(***************************************************************************)
EXTENDS Integers, Sequences, FiniteSets, SequencesExt, TLC

CONSTANTS
    TriedNumbers,       \* numbers a user may type or import
    MaxThreadGroups,    \* bound on the thread groups of the plan
    MaxElements         \* bound on its config elements, and on its assertions

ASSUME FormAssumption ==
    /\ TriedNumbers \subseteq Nat /\ MaxThreadGroups \in Nat /\ MaxElements \in Nat

VARIABLES
    plan,               \* planForm
    probing,            \* isProbing, isProbingSampler
    probed,             \* probeReport and singleSamplerProbeResult: is there one
    reading             \* the places of the data sets whose file is being read

formVars == <<plan, probing, probed, reading>>

-----------------------------------------------------------------------------
(***************************************************************************)
(* The parts of a plan.                                                    *)
(***************************************************************************)
Numbers(users, duration, stepUsers, stepSeconds, temperature, maxTokens, timeout) ==
    [target_users |-> users, duration_seconds |-> duration, rampup_step_users |-> stepUsers,
     rampup_step_seconds |-> stepSeconds, rampdown_seconds |-> 0, temperature |-> temperature,
     top_p |-> 100, max_tokens |-> maxTokens, request_timeout |-> timeout]

\* ready: a runtime and a model are chosen.
TG(id, pattern, numbers) ==
    [id |-> id, on |-> TRUE, ready |-> FALSE, pattern |-> pattern, streaming |-> TRUE, n |-> numbers]

DEFAULT_THREAD_GROUP == TG(1, "rampup", Numbers(10, 60, 5, 10, 70, 256, 120))

\* A config element; the fields its type has no use for are 0, and so is one
\* that is missing.  data is the number of prompts; entries are the variables or the
\* headers by name.
Element(type) ==
    [type |-> type, on |-> TRUE, timer |-> "uniform", min_ms |-> 0, max_ms |-> 0, delay_ms |-> 0,
     deviation_ms |-> 0, data |-> 0, entries |-> <<>>, max_tokens |-> 0, temperature |-> 0]

\* Names a user gives to variables and headers: the key of the API, which the
\* JMeter file treats apart, and any other.  A value may be blank, a text, or the
\* name of the variable that holds the key.
ApiKey == "API_KEY"
EntryNames == {ApiKey, "X"}
EntryValues == {"", "text", ApiKey}

Entries(type) == [Element(type) EXCEPT !.entries = "X" :> "text"]

Timer(timer, min, max, delay, deviation) ==
    [Element("think_time") EXCEPT !.timer = timer, !.min_ms = min, !.max_ms = max,
                                  !.delay_ms = delay, !.deviation_ms = deviation]

\* An assertion on everything (scope 0) or on the group with that id.
Assertion(type, limit) == [type |-> type, on |-> TRUE, scope |-> 0, limit |-> limit]

ALL_LISTENERS == {"summary_table", "latency_chart", "token_throughput", "error_log",
                  "percentile_chart", "assertion_report"}

\* How many prompts the four suites have.
PROMPT_SUITES == <<20, 15, 12, 10>>

Planned(groups, elements, assertions) ==
    [named |-> TRUE, serialize |-> FALSE, groups |-> groups, elements |-> elements,
     assertions |-> assertions, listeners |-> ALL_LISTENERS]

NewPlan == Planned(<<DEFAULT_THREAD_GROUP>>, <<>>,
                   <<Assertion("latency", 2500), Assertion("error_rate", 5)>>)

Smoke == Planned(<<TG(1, "constant", Numbers(1, 15, 1, 5, 70, 128, 30))>>,
                 <<Timer("constant", 500, 500, 500, 0)>>,
                 <<Assertion("error_rate", 0), Assertion("latency", 3000)>>)

SteppedRamp == Planned(<<TG(1, "rampup", Numbers(50, 120, 10, 20, 70, 256, 90))>>,
                       <<Timer("uniform", 200, 800, 0, 0), [Element("csv_data_set") EXCEPT !.data = 5]>>,
                       <<Assertion("latency", 2500), Assertion("p99_latency", 4500),
                         Assertion("error_rate", 5), Assertion("ttft", 1200)>>)

SpikeSurge == Planned(<<TG(1, "spike", Numbers(60, 90, 20, 10, 80, 256, 120))>>,
                      <<Timer("gaussian", 0, 0, 400, 150)>>,
                      <<Assertion("error_rate", 10), Assertion("latency", 5000)>>)

StressBreaking == Planned(<<TG(1, "stress", Numbers(100, 180, 15, 25, 70, 512, 150))>>,
                          <<[Element("token_budget") EXCEPT !.max_tokens = 512, !.temperature = 70]>>,
                          <<Assertion("error_rate", 15), Assertion("tokens_per_second", 50)>>)

MultiGroupAb == Planned(<<TG(1, "constant", Numbers(25, 60, 5, 10, 50, 96, 60)),
                          TG(2, "rampup", Numbers(15, 60, 5, 15, 70, 512, 120))>>,
                        <<Timer("uniform", 300, 1000, 0, 0)>>,
                        <<Assertion("latency", 3000), Assertion("quality", 98),
                          Assertion("error_rate", 3)>>)

JMETER_BLUEPRINTS == {Smoke, SteppedRamp, SpikeSurge, StressBreaking, MultiGroupAb}

FormInit == plan = NewPlan /\ probing = {} /\ probed = {} /\ reading = {}

-----------------------------------------------------------------------------
(***************************************************************************)
(* What the readers make of it.                                            *)
(***************************************************************************)
Else(n, default) == IF n = 0 THEN default ELSE n
AtLeast(low, n)  == IF n < low THEN low ELSE n
AtMost(high, n)  == IF n > high THEN high ELSE n

\* The things of a list that are among the chosen ones, in their order.
Those(things, chosen) ==
    LET upTo[i \in 0..Len(things)] ==
            IF i = 0 THEN <<>>
            ELSE IF things[i] \in chosen THEN Append(upTo[i - 1], things[i]) ELSE upTo[i - 1]
    IN  upTo[Len(things)]

On(things) == Those(things, {t \in ToSet(things) : t.on})

\* Slip: the number field's own default for tokens is sent for none.
SentWithout128(g) ==
    [target_users |-> Else(g.n.target_users, 10), duration_seconds |-> Else(g.n.duration_seconds, 60),
     rampup_step_users |-> Else(g.n.rampup_step_users, 5),
     rampup_step_seconds |-> Else(g.n.rampup_step_seconds, 10),
     rampdown_seconds |-> g.n.rampdown_seconds, temperature |-> Else(g.n.temperature, 70),
     top_p |-> g.n.top_p, max_tokens |-> Else(g.n.max_tokens, 128),
     request_timeout |-> Else(g.n.request_timeout, 120)]

\* buildPlanPayload: the numbers sent for a group.
Sent(g) ==
    [target_users |-> Else(g.n.target_users, 10), duration_seconds |-> Else(g.n.duration_seconds, 60),
     rampup_step_users |-> Else(g.n.rampup_step_users, 5),
     rampup_step_seconds |-> Else(g.n.rampup_step_seconds, 10),
     rampdown_seconds |-> g.n.rampdown_seconds, temperature |-> Else(g.n.temperature, 70),
     top_p |-> g.n.top_p, max_tokens |-> Else(g.n.max_tokens, 256),
     request_timeout |-> Else(g.n.request_timeout, 120)]

\* computeWorkloadTopology reads the form, and draws ten seconds at least.
Schedule(g) ==
    [pattern |-> g.pattern, target |-> Else(g.n.target_users, 10),
     duration |-> AtLeast(10, Else(g.n.duration_seconds, 60)),
     stepUsers |-> AtLeast(1, Else(g.n.rampup_step_users, 5)),
     stepSeconds |-> AtLeast(1, Else(g.n.rampup_step_seconds, 10)),
     rampdown |-> g.n.rampdown_seconds, maxTokens |-> Else(g.n.max_tokens, 256)]

Steps(users, stepUsers) == (users + stepUsers - 1) \div stepUsers

\* The users the preview draws for a schedule, rounded as Math.round does.
UsersAt(s, sec) ==
    LET climbed == (sec \div s.stepSeconds + 1) * s.stepUsers
    IN  CASE sec > s.duration /\ sec <= s.duration + s.rampdown ->
               (2 * s.target * (s.duration + s.rampdown - sec) + s.rampdown) \div (2 * s.rampdown)
          [] sec > s.duration + s.rampdown -> 0
          [] sec <= s.duration /\ s.pattern = "constant" -> s.target
          [] sec <= s.duration /\ s.pattern = "rampup" ->
               IF sec < Steps(s.target, s.stepUsers) * s.stepSeconds
               THEN AtMost(s.target, climbed) ELSE s.target
          [] sec <= s.duration /\ s.pattern = "spike" ->
               IF (30 * s.duration + 50) \div 100 <= sec /\ sec <= (60 * s.duration + 50) \div 100
               THEN s.target ELSE AtLeast(1, (15 * s.target + 50) \div 100)
          [] sec <= s.duration /\ s.pattern = "stress" ->
               AtMost((130 * s.target + 50) \div 100, climbed)

\* getSamplerPayloadPreview, as far as it has numbers.
SamplerPreview(g) ==
    [temperature |-> Else(g.n.temperature, 70), max_tokens |-> Else(g.n.max_tokens, 256),
     top_p |-> Else(g.n.top_p, 100), streaming |-> g.streaming]

\* Whether assertion a is about group g.
About(a, g) == a.scope \in {0, g.id}

\* exportPlanToJmx, from the payload: a group's threads, ramp and time limits,
\* and the longest a sample may take.  A missing limit has a default.
JmxThreads(g) ==
    LET x == Sent(g)
    IN  [num_threads |-> x.target_users, duration |-> x.duration_seconds,
         ramp_time |-> IF g.pattern = "constant" THEN 0
                       ELSE Steps(x.target_users, AtLeast(1, x.rampup_step_users))
                            * AtLeast(1, x.rampup_step_seconds),
         max_tokens |-> x.max_tokens, temperature |-> x.temperature,
         response_timeout |-> 1000 * x.request_timeout]

JmxDurations(g) ==
    {Else(a.limit, IF a.type = "latency" THEN 2000 ELSE 3500) :
        a \in {b \in ToSet(On(plan.assertions)) : b.type \in {"latency", "p99_latency"} /\ About(b, g)}}

\* The range of a timer in the JMeter file, for elements of type think_time (the
\* name timer, which a plan of another origin may use, JMeter's file leaves out).
JmxPause(e) ==
    LET delay == Else(e.delay_ms, IF e.timer = "constant" THEN Else(e.min_ms, 500) ELSE 500)
        spread == Else(e.deviation_ms, 150)
        low == Else(e.min_ms, 200)
    IN  CASE e.timer = "constant" -> [low |-> delay, high |-> delay]
          [] e.timer = "gaussian" -> [low |-> AtLeast(0, delay - spread), high |-> delay + spread]
          [] e.timer = "uniform"  -> [low |-> low, high |-> AtLeast(low, Else(e.max_ms, 800))]

\* generateSnippets: the k6 script loads the first group, enabled or not.
K6 == LET x == Sent(plan.groups[1])
      IN  [target |-> x.target_users, max_tokens |-> x.max_tokens, timeout |-> x.request_timeout,
           steady |-> AtLeast(10, (60 * x.duration_seconds + 50) \div 100)]

\* apply_config_elements: the numbers run_plan hands the engine for a group.  Of
\* several budgets with that number the last one counts.  The engine is given
\* neither rampdown_seconds nor top_p.
Budgets(field) ==
    Those(On(plan.elements), {e \in ToSet(plan.elements) : e.type = "token_budget" /\ e[field] # 0})

Applied(g) ==
    [Sent(g) EXCEPT
        !.max_tokens  = IF Budgets("max_tokens") = <<>> THEN @ ELSE Last(Budgets("max_tokens")).max_tokens,
        !.temperature = IF Budgets("temperature") = <<>> THEN @ ELSE Last(Budgets("temperature")).temperature]

MAX_CONCURRENT_USERS == 200

\* The users run_load_test plans for a second from the numbers x, while no step is
\* cut short by failures, a stop or the watchdog.
ServerUsers(pattern, x, sec) ==
    LET climbed == (sec \div x.rampup_step_seconds + 1) * x.rampup_step_users
    IN  CASE sec >= x.duration_seconds -> 0
          [] sec < x.duration_seconds /\ pattern = "constant" -> x.target_users
          [] sec < x.duration_seconds /\ pattern = "rampup" -> AtMost(x.target_users, climbed)
          [] sec < x.duration_seconds /\ pattern = "spike" ->
               IF sec < 10 /\ 5 * sec < x.duration_seconds THEN AtMost(5, x.target_users)
               ELSE x.target_users
          [] sec < x.duration_seconds /\ pattern = "stress" ->
               IF climbed <= AtMost(MAX_CONCURRENT_USERS, x.target_users) THEN climbed ELSE 0

\* The pause of the server's users that a timer asks for.
ServerPause(e) ==
    LET delay == Else(e.delay_ms, IF e.timer = "constant" THEN Else(e.min_ms, 200) ELSE 500)
        spread == Else(e.deviation_ms, 150)
    IN  CASE e.timer = "constant" -> [low |-> delay, high |-> delay]
          [] e.timer = "gaussian" -> [low |-> AtLeast(0, delay - spread), high |-> delay + spread]
          [] e.timer = "uniform"  -> [low |-> e.min_ms, high |-> e.max_ms]

\* The enabled elements of some types, and what the variables among them make of
\* a name: the preview asks the first element only, the server all in their order.
Elements(types) == Those(On(plan.elements), {e \in ToSet(plan.elements) : e.type \in types})

Variables == Elements({"user_defined_variables"})

PreviewValue(name) ==
    IF Variables # <<>> /\ name \in DOMAIN Variables[1].entries
    THEN Variables[1].entries[name] ELSE "unresolved"

ServerValue(name) ==
    LET knowing == Those(Variables, {e \in ToSet(Variables) : name \in DOMAIN e.entries})
    IN  IF knowing = <<>> THEN "unresolved" ELSE knowing[1].entries[name]

\* The JMeter file also takes the first element, and never leaves the key blank.
JmxValue(name) ==
    IF name = ApiKey /\ PreviewValue(name) \in {"", "unresolved"} THEN "default key"
    ELSE PreviewValue(name)

\* The prompts JMeter reads are those of the first data set, with one in
\* reserve; the server draws from the last that is not empty.
JmxPrompts ==
    LET sets == Elements({"csv_data_set"})
    IN  IF sets = <<>> THEN 1 ELSE AtLeast(1, sets[1].data)

ServerPrompts ==
    LET sets == Those(Elements({"csv_data_set"}), {e \in ToSet(plan.elements) : e.data > 0})
    IN  IF sets = <<>> THEN 0 ELSE Last(sets).data

\* Headers: rows of the JMeter file, where an auth header without a name is left
\* out; and what the server collects, which leaves out the blank ones of a header
\* manager, lets a later one win, and puts the variables into those it has so far.
HeaderRows(e) ==
    {<<k, e.entries[k]>> : k \in DOMAIN e.entries \ (IF e.type = "auth_header" THEN {""} ELSE {})}

JmxHeaders == UNION {HeaderRows(e) : e \in ToSet(Elements({"header_manager", "auth_header"}))}

\* One table of entries over another.
Over(upper, lower) ==
    [k \in DOMAIN upper \cup DOMAIN lower |-> IF k \in DOMAIN upper THEN upper[k] ELSE lower[k]]

Filled(entries) == Restrict(entries, {k \in DOMAIN entries \ {""} : entries[k] # ""})

Resolved(headers, values) ==
    [k \in DOMAIN headers |-> IF headers[k] \in DOMAIN values THEN values[headers[k]] ELSE headers[k]]

WithElementOf(headers, e) ==
    CASE e.type = "auth_header" -> Over(e.entries, headers)
      [] e.type = "header_manager" -> Over(Filled(e.entries), headers)
      [] e.type = "user_defined_variables" -> Resolved(headers, e.entries)

Collected ==
    FoldLeft(WithElementOf, <<>>, Elements({"auth_header", "header_manager", "user_defined_variables"}))

\* validateForm.
ValidForm == plan.named /\ On(plan.groups) # <<>> /\ \A g \in ToSet(On(plan.groups)) : g.ready

\* getPlanValidationWarnings.
Warnings ==
    LET groups == ToSet(On(plan.groups))
        late(g, a) == /\ a.type \in {"latency", "p99_latency", "ttft"} /\ About(a, g)
                      /\ a.limit # 0 /\ a.limit >= 1000 * Else(g.n.request_timeout, 120)
    IN  {w \in {"no-active-groups"} : groups = {}}
        \cup {w \in {"missing-target"} : \E g \in groups : ~g.ready}
        \cup {w \in {"high-tokens"} : \E g \in groups : g.n.max_tokens > 4096}
        \cup {w \in {"timeout-sla-mismatch"} :
                 \E g \in groups, a \in ToSet(On(plan.assertions)) : late(g, a)}
        \cup {w \in {"empty-csv"} :
                 \E e \in ToSet(On(plan.elements)) : e.type = "csv_data_set" /\ e.data = 0}
        \cup {w \in {"serialize-notice"} : Len(On(plan.groups)) > 1 /\ plan.serialize}
        \cup {w \in {"parallel-notice"} : Len(On(plan.groups)) > 1 /\ ~plan.serialize}

-----------------------------------------------------------------------------
(***************************************************************************)
(* Inputs.                                                                 *)
(***************************************************************************)
Becomes(p) == plan' = p /\ UNCHANGED <<probing, probed, reading>>

WithElement(i, e) == [plan EXCEPT !.elements[i] = e]

Rename == Becomes([plan EXCEPT !.named = ~@])
ToggleSerialize == Becomes([plan EXCEPT !.serialize = ~@])

\* A number typed into one of a group's fields; a blank or zero one gets the
\* field's own number at once.
EditNumber(i, fields) ==
    \E n \in TriedNumbers \cup {0}, f \in fields :
        Becomes([plan EXCEPT !.groups[i].n[f[1]] = Else(n, f[2])])

EditPattern(i) ==
    \E p \in {"rampup", "constant", "spike", "stress"} : Becomes([plan EXCEPT !.groups[i].pattern = p])

\* A runtime and a model, chosen or cleared (the two together).
BindTarget(i) == Becomes([plan EXCEPT !.groups[i].ready = ~@])

\* The schedule of group i.
EditSchedule(i) ==
    \/ EditPattern(i)
    \/ EditNumber(i, {<<"target_users", 1>>, <<"duration_seconds", 10>>,
             <<"rampup_step_users", 1>>, <<"rampup_step_seconds", 5>>, <<"rampdown_seconds", 0>>})

\* Its sampler.
EditSampler(i) ==
    \/ BindTarget(i) \/ Becomes([plan EXCEPT !.groups[i].streaming = ~@])
    \/ EditNumber(i, {<<"max_tokens", 128>>, <<"temperature", 70>>,
             <<"top_p", 100>>, <<"request_timeout", 120>>})

NewId == 1 + Max({g.id : g \in ToSet(plan.groups)} \cup {0})

AddGroup ==
    /\ Len(plan.groups) < MaxThreadGroups
    /\ Becomes([plan EXCEPT !.groups = Append(@, [DEFAULT_THREAD_GROUP EXCEPT !.id = NewId])])

DuplicateGroup(i) ==
    /\ Len(plan.groups) < MaxThreadGroups
    /\ Becomes([plan EXCEPT !.groups = InsertAt(@, i + 1, [@[i] EXCEPT !.id = NewId])])

RemoveGroup(i) ==
    /\ Len(plan.groups) > 1 /\ Becomes([plan EXCEPT !.groups = RemoveAt(@, i)])

\* The cards of the full view have some of these inputs, with numbers of their own
\* for a blank field.
EditInFullView(i) ==
    \/ EditPattern(i) \/ BindTarget(i) \/ DuplicateGroup(i) \/ RemoveGroup(i)
    \/ EditNumber(i, {<<"target_users", 1>>, <<"duration_seconds", 10>>, <<"rampup_step_users", 1>>,
             <<"rampup_step_seconds", 5>>, <<"max_tokens", 128>>, <<"temperature", 70>>})

\* Groups, elements and assertions are switched on and off.
ToggleEnabled ==
    \/ \E i \in DOMAIN plan.groups : Becomes([plan EXCEPT !.groups[i].on = ~@])
    \/ \E i \in DOMAIN plan.elements : Becomes([plan EXCEPT !.elements[i].on = ~@])
    \/ \E i \in DOMAIN plan.assertions : Becomes([plan EXCEPT !.assertions[i].on = ~@])

\* What an element is added with.
NewElements == {
    [Element("csv_data_set") EXCEPT !.data = PROMPT_SUITES[1]],
    Timer("uniform", 200, 800, 400, 150), Entries("auth_header"), Entries("header_manager"),
    [Element("token_budget") EXCEPT !.max_tokens = 512, !.temperature = 50],
    Entries("user_defined_variables")}

AddConfigElement(e) ==
    /\ Len(plan.elements) < MaxElements
    /\ Becomes([plan EXCEPT !.elements = Append(@, e)])

RemoveConfigElement(i) == Becomes([plan EXCEPT !.elements = RemoveAt(@, i)])

\* Prompts: one of the suites, a file, or what is typed.
EditDataSet(i) ==
    /\ plan.elements[i].type = "csv_data_set"
    /\ \E n \in ToSet(PROMPT_SUITES) \cup {0, 1} : Becomes([plan EXCEPT !.elements[i].data = n])

\* The kind of a timer decides which of its fields are offered.
EditTimer(i) ==
    LET e == plan.elements[i]
    IN  /\ e.type = "think_time"
        /\ \/ \E t \in {"uniform", "constant", "gaussian"} : Becomes(WithElement(i, [e EXCEPT !.timer = t]))
           \/ \E n \in TriedNumbers \cup {0} :
                 \/ e.timer # "uniform"  /\ Becomes(WithElement(i, [e EXCEPT !.delay_ms = n]))
                 \/ e.timer = "gaussian" /\ Becomes(WithElement(i, [e EXCEPT !.deviation_ms = n]))
                 \/ e.timer = "uniform"  /\ Becomes(WithElement(i, [e EXCEPT !.min_ms = n]))
                 \/ e.timer = "uniform"  /\ Becomes(WithElement(i, [e EXCEPT !.max_ms = n]))

\* A file of prompts is read while the user goes on.  The prompts go to the place
\* the file was chosen at, whatever is there by then; behind the last element
\* they make one without a type.
UploadPrompts(i) ==
    /\ plan.elements[i].type = "csv_data_set"
    /\ reading' = reading \cup {i} /\ UNCHANGED <<plan, probing, probed>>

PromptsAreRead ==
    \E i \in reading :
        /\ i <= Len(plan.elements) + 1
        /\ reading' = reading \ {i} /\ UNCHANGED <<probing, probed>>
        /\ plan' = IF i \in DOMAIN plan.elements THEN [plan EXCEPT !.elements[i].data = 2]
                   ELSE [plan EXCEPT !.elements = Append(@, [Element("none") EXCEPT !.data = 2])]

\* The rows of a variables element.  A template, or a name that another row has
\* already, takes that row's place.
EditVariables(i) ==
    LET es == plan.elements[i].entries
        put(entries) == Becomes([plan EXCEPT !.elements[i].entries = entries])
    IN  /\ plan.elements[i].type = "user_defined_variables"
        /\ \/ \E k \in EntryNames : put(Over(k :> "", es))
           \/ \E k \in DOMAIN es :
                 \/ put(Restrict(es, DOMAIN es \ {k}))
                 \/ \E v \in EntryValues \ {ApiKey} : put(Over(k :> v, es))
                 \/ \E new \in EntryNames \cup {""} :
                       put(Over(new :> es[k], Restrict(es, DOMAIN es \ {k})))

\* The rows of a header manager; a new one has a name of its own.
EditHeaders(i) ==
    LET es == plan.elements[i].entries
        put(entries) == Becomes([plan EXCEPT !.elements[i].entries = entries])
    IN  /\ plan.elements[i].type = "header_manager"
        /\ \/ \E k \in EntryNames \ DOMAIN es : put(Over(k :> "", es))
           \/ \E k \in DOMAIN es :
                 \/ put(Restrict(es, DOMAIN es \ {k}))
                 \/ \E v \in EntryValues : put(Over(k :> v, es))
                 \/ \E new \in EntryNames \cup {""} :
                       put(Over(new :> es[k], Restrict(es, DOMAIN es \ {k})))

\* The one row of an auth header.
EditAuthHeader(i) ==
    LET es == plan.elements[i].entries
    IN  /\ plan.elements[i].type = "auth_header"
        /\ \E k \in DOMAIN es, new \in EntryNames \cup {""}, v \in EntryValues :
              /\ new = k \/ v = es[k]
              /\ Becomes([plan EXCEPT !.elements[i].entries = new :> v])

EditTokenBudget(i) ==
    /\ plan.elements[i].type = "token_budget"
    /\ \E n \in TriedNumbers \cup {0}, f \in {"max_tokens", "temperature"} :
           Becomes([plan EXCEPT !.elements[i][f] = n])

\* What an assertion is added with: rates in percent.
NewAssertions == {
    Assertion("latency", 2500), Assertion("p99_latency", 4000), Assertion("error_rate", 5),
    Assertion("quality", 95), Assertion("ttft", 1000), Assertion("tokens_per_second", 15),
    Assertion("response_content", 0), Assertion("status_code", 200)}

AddAssertion(a) ==
    /\ Len(plan.assertions) < MaxElements
    /\ Becomes([plan EXCEPT !.assertions = Append(@, a)])

RemoveAssertion(i) == Becomes([plan EXCEPT !.assertions = RemoveAt(@, i)])

\* Its threshold, and the group it is about.
EditAssertion(i) ==
    \/ \E n \in TriedNumbers \cup {0} :
           Becomes([plan EXCEPT !.assertions[i].limit =
                        IF plan.assertions[i].type = "status_code" THEN Else(n, 200) ELSE n])
    \/ \E id \in {0} \cup {g.id : g \in ToSet(plan.groups)} :
           Becomes([plan EXCEPT !.assertions[i].scope = id])

EditListeners ==
    \/ \E l \in ALL_LISTENERS :
           Becomes([plan EXCEPT !.listeners = IF l \in @ THEN @ \ {l} ELSE @ \cup {l}])
    \/ Becomes([plan EXCEPT !.listeners = ALL_LISTENERS])
    \/ Becomes([plan EXCEPT !.listeners = {}])

LoadBlueprint(blueprint) == Becomes(blueprint)

\* An imported plan: of its first group any one number may be zero or unusual,
\* it may be disabled, and a timer may lack its numbers.
ApplyImportJson ==
    \/ Becomes(Planned(<<>>, <<>>, <<>>))
    \/ \E n \in TriedNumbers \cup {0}, f \in DOMAIN DEFAULT_THREAD_GROUP.n, on \in BOOLEAN :
           Becomes(Planned(<<[DEFAULT_THREAD_GROUP EXCEPT !.n[f] = n, !.on = on, !.ready = TRUE]>>,
                           <<Element("think_time")>>, <<>>))

\* A probe of the whole plan, or of one group whatever the others lack.
ProbePlan ==
    /\ "plan" \notin probing /\ ValidForm
    /\ probing' = probing \cup {"plan"} /\ probed' = probed \ {"plan"} /\ UNCHANGED <<plan, reading>>

ProbeSingleSampler(i) ==
    /\ "sampler" \notin probing /\ plan.groups[i].ready
    /\ probing' = probing \cup {"sampler"} /\ probed' = probed \ {"sampler"}
    /\ UNCHANGED <<plan, reading>>

\* The answer, or an error that is shown in its place; a sampler's answer may
\* hold no result.
ProbeAnswers ==
    \E k \in probing :
        /\ probing' = probing \ {k} /\ UNCHANGED <<plan, reading>>
        /\ probed' = probed \cup {k} \/ (k = "sampler" /\ probed' = probed)

EditPlan ==
    \/ Rename \/ ToggleSerialize \/ ToggleEnabled \/ AddGroup \/ EditListeners \/ ApplyImportJson
    \/ \E i \in DOMAIN plan.groups :
          EditSchedule(i) \/ EditSampler(i) \/ EditInFullView(i)
    \/ \E e \in NewElements : AddConfigElement(e)
    \/ \E i \in DOMAIN plan.elements :
          \/ RemoveConfigElement(i) \/ EditDataSet(i) \/ UploadPrompts(i) \/ EditTimer(i)
          \/ EditVariables(i) \/ EditHeaders(i) \/ EditAuthHeader(i) \/ EditTokenBudget(i)
    \/ \E a \in NewAssertions : AddAssertion(a)
    \/ \E i \in DOMAIN plan.assertions : RemoveAssertion(i) \/ EditAssertion(i)
    \/ \E b \in JMETER_BLUEPRINTS : LoadBlueprint(b)

Probe == ProbePlan \/ \E i \in DOMAIN plan.groups : ProbeSingleSampler(i)

-----------------------------------------------------------------------------
\* Moments of a group's time at which the curves are compared.
Moments(s) == {(k * s.duration) \div 20 : k \in 0..20}

\* What the preview draws at a moment is what the engine plans, where the two
\* follow one rule: a constant load, a ramp, the steps of a stress test as long as
\* the engine takes them, and the users of a spike once the preview is at its peak.
\* They disagree for the rest, and nothing is claimed of it: the preview draws a
\* spike between two stretches of 15 % where the engine (and README.md:466) has a
\* short warm-up and then the target to the end; it goes on to 130 % in a stress
\* test the engine ends at the target or at its cap, and adds a ramp-down of which
\* the engine knows nothing.
OneCurve(g) ==
    LET s == Schedule(g)
        x == Applied(g)
    IN  \A sec \in Moments(s) :
            sec < x.duration_seconds =>
                LET drawn == UsersAt(s, sec)
                    run == ServerUsers(g.pattern, x, sec)
                IN  /\ g.pattern \in {"constant", "rampup"} => drawn = run
                    /\ g.pattern = "stress" => run \in {0, drawn}
                    /\ g.pattern = "spike" => drawn # s.target \/ run = s.target

\* Whatever was typed, loaded or imported, a group that runs has one target,
\* duration, token limit, temperature and timeout for all who read them: preview,
\* sampler, JMeter file, k6 script (of the first group) and engine; and its load
\* is one curve.  Excepted are what the code itself treats apart: a preview draws
\* ten seconds at least, a token budget is the server's alone, and thresholds of
\* JMeter's own are no reason for a warning.
OneReading(g) ==
    LET s == Schedule(g)
        j == JmxThreads(g)
        x == Applied(g)
    IN  /\ s.target = j.num_threads /\ s.target = x.target_users
        /\ x.duration_seconds >= 10 => s.duration = x.duration_seconds
        /\ j.duration = x.duration_seconds
        /\ j.response_timeout = 1000 * x.request_timeout
        /\ s.maxTokens = j.max_tokens /\ SamplerPreview(g).max_tokens = j.max_tokens
        /\ SamplerPreview(g).temperature = j.temperature
        /\ Budgets("max_tokens") = <<>> => x.max_tokens = s.maxTokens
        /\ Budgets("temperature") = <<>> => x.temperature = j.temperature
        /\ g = plan.groups[1] => K6.target = s.target /\ K6.max_tokens = s.maxTokens
        /\ g.pattern \in {"constant", "rampup"} /\ j.ramp_time <= s.duration =>
               UsersAt(s, j.ramp_time) = j.num_threads
        /\ OneCurve(g)
        /\ \A d \in JmxDurations(g) :
               d >= j.response_timeout =>
                   "timeout-sla-mismatch" \in Warnings \/ d \in {2000, 3500}

\* The same for names: with one variables element a name stands for the same text
\* everywhere, the blank key excepted, and with one data set the prompts are the
\* same; and a header the server would add under a name is among JMeter's.
OneMeaning ==
    /\ Len(Variables) <= 1 =>
          \A name \in EntryNames :
              /\ PreviewValue(name) = ServerValue(name)
              /\ ServerValue(name) = "text" => JmxValue(name) = "text"
    /\ Len(Elements({"csv_data_set"})) <= 1 /\ ServerPrompts > 0 => JmxPrompts = ServerPrompts
    /\ Variables = <<>> => \A k \in DOMAIN Collected \ {""} : <<k, Collected[k]>> \in JmxHeaders

PlanNumbersAgree ==
    /\ OneMeaning
    /\ \A g \in ToSet(On(plan.groups)) : OneReading(g)
    /\ \A e \in ToSet(On(plan.elements)) :
          e.type = "think_time" /\ e.min_ms > 0 /\ e.delay_ms > 0 /\ e.max_ms >= e.min_ms =>
              JmxPause(e) = ServerPause(e)
    /\ plan.named => (ValidForm <=> Warnings \cap {"no-active-groups", "missing-target"} = {})

=============================================================================
