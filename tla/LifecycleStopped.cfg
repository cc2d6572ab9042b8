\* The stop endpoint's status against the task's stale session.
CONSTANTS
    MaxRows = 1
    Stops   = {s1}
    Deletes = {d1}

SPECIFICATION Spec

PROPERTIES
    StoppedIsNotCompleted

\* The run may be over and every call answered.
CHECK_DEADLOCK FALSE
