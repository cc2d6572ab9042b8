------------------------------ MODULE TestPlan ------------------------------
(***************************************************************************)
(* One execution of a test plan: the background task of                    *)
(* backend/app/api/load_test_plans.py, the orchestrator that runs the      *)
(* plan's thread groups in sequence or in parallel, the aggregates of      *)
(* loadtest/engine.py its verdict is computed from, and the evaluation of  *)
(* an error-rate assertion.                                                *)
(*                                                                         *)
(* An engine is reduced to what it returns: for every number of concurrent *)
(* users it tested, how many requests there were, how many failed, and how *)
(* many answers were of valid quality.                                     *)
(***************************************************************************)
EXTENDS Integers, FiniteSets, FiniteSetsExt, Functions, Sequences

CONSTANTS
    Groups,             \* number of thread groups
    Users,              \* bound on the number of users of a tier
    Tiers,              \* what a tier may have measured
    Limits              \* max_pct of an error-rate assertion

ASSUME TestPlanAssumption ==
    /\ Groups \in Nat \ {0} /\ Users \in Nat \ {0}
    /\ \A t \in Tiers :
          /\ t \in [n : Nat \ {0}, failed : Nat, good : Nat]
          /\ t.failed + t.good <= t.n
    /\ Limits \subseteq 0..100

\* An assertion may be missing, and its threshold may be left out.
Absent  == -2
Omitted == -1

VARIABLES
    enabled,            \* the groups that are not disabled
    serialize,          \* serialize_threadgroups
    elements,           \* whether the config elements can be applied
    limit,              \* the plan's error-rate assertion
    scope,              \* the group it is about, or 0 for the plan
    named,              \* whether it has a name
    task,               \* where _execute_plan awaits
    next,               \* the group whose runtime is looked up
    group,              \* group[g]: where _execute_tg of g awaits
    measured,           \* measured[g]: what the engine of g measured
    passed,             \* overall_passed, once there is one
    events              \* messages broadcast about the plan

planVars == <<enabled, serialize, elements, limit, scope, named>>
vars == <<planVars, task, next, group, measured, passed, events>>

Group == 1..Groups

Broadcast(kind) == events' = Append(events, kind)

-----------------------------------------------------------------------------
(***************************************************************************)
(* _compute_aggregates.                                                    *)
(***************************************************************************)
Untested == [n |-> 0, failed |-> 0, good |-> 0]

\* What a run measured, per number of concurrent users: the requests, those
\* that failed, and the answers of valid quality.
Measurement == [1..Users -> Tiers \cup {Untested}]

Total(m)  == SumFunction([c \in 1..Users |-> m[c].n])
Failed(m) == SumFunction([c \in 1..Users |-> m[c].failed])
Tested(m) == {c \in 1..Users : m[c].n > 0}

\* At most 5% of the tier's requests failed, and at least 95% of its answers
\* are of valid quality.
PassesSLA(t) == 20 * t.failed <= t.n /\ 20 * t.good >= 19 * t.n

\* Slip: a tier that passes counts even above one that did not.
SafeLoopForgiving(m) ==
    LET at[c \in 0..Users] ==
            IF c = 0 THEN [safe |-> IF Failed(m) = Total(m) THEN 0 ELSE 1, broken |-> FALSE]
            ELSE IF c \notin Tested(m) THEN at[c - 1]
            ELSE IF PassesSLA(m[c]) THEN [at[c - 1] EXCEPT !.safe = c]
            ELSE [at[c - 1] EXCEPT !.broken = TRUE]
    IN  at[Users]

\* safe_max_concurrency and safe_max_concurrency_is_ceiling, by the loop over
\* the tiers in ascending order.
SafeLoop(m) ==
    LET at[c \in 0..Users] ==
            IF c = 0 THEN [safe |-> IF Failed(m) = Total(m) THEN 0 ELSE 1, broken |-> FALSE]
            ELSE IF c \notin Tested(m) THEN at[c - 1]
            ELSE IF PassesSLA(m[c]) /\ ~at[c - 1].broken
                 THEN [at[c - 1] EXCEPT !.safe = c]
                 ELSE [at[c - 1] EXCEPT !.broken = TRUE]
    IN  at[Users]

None == -1

\* The aggregates of a run, as far as the plan looks at them; a rate is kept
\* as its two counts.
Aggregates(m) ==
    [error |-> FALSE, total |-> Total(m), failed |-> Failed(m), rated |-> Total(m) > 0,
     safe |-> IF Total(m) = 0 THEN None ELSE SafeLoop(m).safe,
     ceiling |-> Total(m) > 0 /\ SafeLoop(m).broken]

\* What stands for them when run_load_test raised.
Crashed ==
    [error |-> TRUE, total |-> 0, failed |-> 1, rated |-> FALSE,
     safe |-> None, ceiling |-> FALSE]

-----------------------------------------------------------------------------
(***************************************************************************)
(* _merge_aggregates, the health assertions and evaluate_assertions.       *)
(***************************************************************************)
Result(g) == IF group[g] = "crashed" THEN Crashed ELSE Aggregates(measured[g])

Sum(field(_)) == SumFunction([g \in enabled |-> field(Result(g))])

\* The only group's aggregates are passed on as they are, those of several are
\* summed, and the error rate recomputed.
Merged ==
    IF Cardinality(enabled) = 1
    THEN Result(CHOOSE g \in enabled : TRUE)
    ELSE [total  |-> Sum(LAMBDA r : r.total),
          failed |-> Sum(LAMBDA r : r.failed),
          rated  |-> enabled # {}]

\* Slip: only an exception is unhealthy.
UnhealthyCrashed(g) == Result(g).error

\* A group without a request, or whose engine raised, fails the plan.
Unhealthy(g) == Result(g).error \/ Result(g).total = 0

\* round(error_rate * 100, 2), in hundredths of a percent.
Percent(a) ==
    IF a.total = 0 THEN 10000 * a.failed
    ELSE (20000 * a.failed + a.total) \div (2 * a.total)

\* A scope that names no enabled group falls back to the whole plan.
Target == IF scope \in enabled THEN Result(scope) ELSE Merged

Holds == Target.rated /\ Percent(Target) <= 100 * limit

\* The request's schema fills in what was left out with None, which the
\* evaluation can neither convert to a number nor, where a group's name is to
\* be put before it, ask for its first character.
Raises == limit = Omitted \/ (limit # Absent /\ scope \in enabled /\ ~named)

OverallPassed ==
    /\ \A g \in enabled : ~Unhealthy(g)
    /\ limit # Absent => Holds

-----------------------------------------------------------------------------
Init ==
    /\ enabled \in SUBSET Group
    /\ serialize \in BOOLEAN
    /\ elements \in {"applicable", "malformed"}
    /\ limit \in Limits \cup {Absent, Omitted}
    /\ scope \in {0} \cup (IF limit = Absent THEN {} ELSE Group)
    /\ named \in (IF limit = Absent THEN {FALSE} ELSE BOOLEAN)
    /\ task = "none"
    /\ next = 1
    /\ group = [g \in Group |-> "idle"]
    /\ measured = [g \in Group |-> [c \in 1..Users |-> Untested]]
    /\ passed = FALSE
    /\ events = <<>>

\* POST /api/load-test-plans/{plan_id}/run or /run-inline.
RunPlan ==
    /\ task = "none"
    /\ task' = "resolving"
    /\ UNCHANGED <<planVars, next, group, measured, passed, events>>

\* The runtime of the next group, disabled ones included, is looked up; a
\* missing one ends the plan before it starts.
Resolve ==
    /\ task = "resolving"
    /\ \/ task' = "erring" /\ UNCHANGED next
       \/ /\ next' = next + 1
          /\ task' = IF next = Groups THEN "starting" ELSE "resolving"
    /\ UNCHANGED <<planVars, group, measured, passed, events>>

\* The groups run_plan starts with.
FirstGroups ==
    IF serialize THEN {g \in enabled : \A h \in enabled : g <= h} ELSE enabled

\* plan_started, and run_plan up to its first await.
StartPlan ==
    /\ task = "starting"
    /\ Broadcast("plan_started")
    /\ group' = [g \in Group |-> IF g \in FirstGroups THEN "ready" ELSE "idle"]
    /\ task' = IF enabled = {} THEN "judging" ELSE "running"
    /\ UNCHANGED <<planVars, next, measured, passed>>

\* The config elements are applied outside the try block of _execute_tg, so a
\* malformed one ends the plan, and the groups that are gathered raise alike.
\* Otherwise the group is announced and its engine entered.
StartGroup(g) ==
    /\ group[g] = "ready"
    /\ IF elements = "malformed"
       THEN /\ group' = [group EXCEPT ![g] = "idle"]
            /\ task' = IF task = "running" THEN "erring" ELSE task
            /\ UNCHANGED events
       ELSE /\ group' = [group EXCEPT ![g] = "engine"]
            /\ Broadcast("plan_thread_group_start")
            /\ UNCHANGED task
    /\ UNCHANGED <<planVars, next, measured, passed>>

\* The group's result is there: a serialized plan goes on to its next group;
\* after the last one, or when all that were gathered are done, the aggregates
\* are merged.
EndGroup(g, how) ==
    LET later == {h \in enabled : serialize /\ h > g}
        ended == [group EXCEPT ![g] = how]
    IN  /\ group' = IF later = {} THEN ended
                    ELSE [ended EXCEPT ![Min(later)] = "ready"]
        /\ task' = IF \A h \in enabled : group'[h] \in {"done", "crashed"}
                   THEN "judging" ELSE task

\* run_load_test returns (it does, by its contract).
EngineReturns(g) ==
    /\ group[g] = "engine"
    /\ \E m \in Measurement : measured' = [measured EXCEPT ![g] = m]
    /\ EndGroup(g, "done")
    /\ UNCHANGED <<planVars, next, passed, events>>

\* It raises, and the exception is turned into a result.
EngineRaises(g) ==
    /\ group[g] = "engine"
    /\ EndGroup(g, "crashed")
    /\ UNCHANGED <<planVars, next, measured, passed, events>>

\* Slip: an exception of the evaluation is not caught.
JudgeUncaught ==
    /\ task = "judging"
    /\ IF Raises
       THEN task' = "done" /\ UNCHANGED passed
       ELSE task' = "reporting" /\ passed' = OverallPassed
    /\ UNCHANGED <<planVars, next, group, measured, events>>

\* The verdict, and the listeners' reports.
Judge ==
    /\ task = "judging"
    /\ IF Raises
       THEN task' = "erring" /\ UNCHANGED passed
       ELSE task' = "reporting" /\ passed' = OverallPassed
    /\ UNCHANGED <<planVars, next, group, measured, events>>

Report ==
    /\ task \in {"reporting", "erring"}
    /\ task' = "done"
    /\ Broadcast(IF task = "reporting" THEN "plan_completed" ELSE "plan_error")
    /\ UNCHANGED <<planVars, next, group, measured, passed>>

-----------------------------------------------------------------------------
Plan == Resolve \/ StartPlan \/ Judge \/ Report

Next ==
    \/ RunPlan
    \/ Plan
    \/ \E g \in Group : StartGroup(g) \/ EngineReturns(g) \/ EngineRaises(g)

Spec == Init /\ [][Next]_vars

\* The event loop resumes the plan's coroutines, and every engine comes back
\* (ContractFairness of EngineContract).
FairSpec ==
    /\ Spec
    /\ WF_vars(Plan)
    /\ \A g \in Group : /\ WF_vars(StartGroup(g))
                        /\ WF_vars(EngineReturns(g) \/ EngineRaises(g))

-----------------------------------------------------------------------------
(***************************************************************************)
(* Properties.                                                             *)
(***************************************************************************)
Happened(kind) == \E i \in DOMAIN events : events[i] = kind
Completed == Happened("plan_completed")

\* A plan is reported as passed only if every enabled group was run, came back
\* with at least one request, and those the assertion is about failed no more
\* often than it allows (to a hundredth of a percent, the code's rounding).
\* The counts are those of the engines, not those of the merged aggregates.
VerdictIsSound ==
    Completed /\ passed =>
        LET asked == IF scope \in enabled THEN {scope} ELSE enabled
            n == SumFunction([g \in asked |-> Total(measured[g])])
            f == SumFunction([g \in asked |-> Failed(measured[g])])
        IN  /\ \A g \in enabled : group[g] = "done" /\ Total(measured[g]) > 0
            /\ limit # Absent => n > 0 /\ 10000 * f <= (100 * limit + 1) * n

\* A concurrency tier counts as safe only if it and every smaller one that was
\* tested meet the SLA, and the largest such is reported; a limit is called a
\* ceiling exactly when a tier broke the SLA.  (When the smallest tier already
\* broke it, the code reports 1, or 0 if nothing succeeded.)
SafeMaxIsTheLimit ==
    \A g \in Group : group[g] = "done" /\ Total(measured[g]) > 0 =>
        LET m    == measured[g]
            safe == {c \in Tested(m) : \A d \in Tested(m) : d <= c => PassesSLA(m[d])}
        IN  /\ IF safe # {} THEN Result(g).safe = Max(safe) ELSE Result(g).safe \in {0, 1}
            /\ Result(g).ceiling <=> safe # Tested(m)

\* Every plan that is run ends with a report or an error, whatever its
\* engines, its config elements or its assertions do.
PlanEnds == (task = "resolving") ~> (Completed \/ Happened("plan_error"))
=============================================================================
