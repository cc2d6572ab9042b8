\* One stop call is enough.
CONSTANTS
    Iterations = 1
    Stops   = {s1}
    Deletes = {}

SPECIFICATION Spec

PROPERTIES
    StoppedIsNotCompleted

CHECK_DEADLOCK FALSE
