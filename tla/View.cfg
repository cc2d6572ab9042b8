\* One stop call and one delete call around one run and one browser.  The view
\* never looks at the result rows, so none are written.
CONSTANTS
    MaxRows = 0
    Stops   = {s1}
    Deletes = {d1}

SPECIFICATION FairViewSpec

INVARIANTS
    OutcomeClearsProgress

PROPERTIES
    ShownOutcomeIsFinal
    ViewSettles

\* The run may be over and every message handled.
CHECK_DEADLOCK FALSE
