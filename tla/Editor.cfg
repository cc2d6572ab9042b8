\* One stored plan and one more id, one runtime, two groups.
CONSTANTS
    Plans = {p1, p2}
    Saved = {p1}
    NoPlan = NoPlan
    Runtimes = {r1}
    DefaultRuntime = r1
    NoRuntime = NoRuntime
    Unregistered = Unregistered
    Calls = {c1, c2}
    MaxGroups = 2
    MaxEdits = 2
    MaxActs = 3
    MaxTurns = 2
    MaxRuns = 2

SPECIFICATION FairEditor

INVARIANTS
    StartedPlansAreRunnable
    RunIsTheClickedPlan
    OnePlanIsOpen

PROPERTIES
    OwnFormIsKept
    EffectsSettle
    RunningClears

\* Every request may be answered and every plan over.
CHECK_DEADLOCK FALSE
