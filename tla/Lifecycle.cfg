\* Two stop calls and a delete call around one run.
CONSTANTS
    MaxRows = 1
    Stops   = {s1, s2}
    Deletes = {d1}

SPECIFICATION FairSpec

INVARIANTS
    EventOrder

PROPERTIES
    NoResurrection
    OutcomeIsFinal
    RunSettles
    OutcomeIsAnnounced

\* The run may be over and every call answered.
CHECK_DEADLOCK FALSE
