\* All four patterns of up to three users; stress is capped at two.  Only
\* ImplementsFairContract assumes a running clock.
CONSTANTS
    Patterns           = {"constant", "rampup", "spike", "stress"}
    TargetUsers        = 3
    StepUsers          = 1
    StepSeconds        = 1
    Duration           = 3
    WarmUsers          = 1
    WarmSeconds        = 1
    MaxConcurrentUsers = 2
    RequestBudget      = 1

SPECIFICATION FairSpec

INVARIANTS
    LoadIsBounded
    RequestsAccounted
    RowsMatchResults
    ActiveOnlyWhileRunning
    DeadlineWithinBudget

PROPERTIES
    StopAdmitsOnlyPendingRetries
    LoadEscalatesSafely
    ImplementsFairContract

\* The run may be over and nobody stops it again.
CHECK_DEADLOCK FALSE
