\* A stop that is answered before the engine is entered.
CONSTANTS
    MaxRows = 1
    Stops   = {s1}
    Deletes = {d1}

SPECIFICATION Spec

INVARIANTS
    StopHalts

\* The run may be over and every call answered.
CHECK_DEADLOCK FALSE
