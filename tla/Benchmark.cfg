\* Three iterations, two stop calls and a delete call.
CONSTANTS
    Iterations = 3
    Stops   = {s1, s2}
    Deletes = {d1}

SPECIFICATION FairSpec

INVARIANTS
    
    StopEndsAfterIteration

PROPERTIES
    OutcomeIsAnnounced

\* The run may be over and every call answered.
CHECK_DEADLOCK FALSE
