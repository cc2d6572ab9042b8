\* Two runtimes, two runs, ring buffers of two samples.
CONSTANTS
    Runtimes   = {r1, r2}
    Runs       = {k1, k2}
    None       = None
    MaxSamples = 2

SPECIFICATION FairSpec

INVARIANTS
    EvictionIsComplete
    LabelsAreTrue

PROPERTIES
    InactiveIsForgotten

\* The runs may be over and no runtime configured.
CHECK_DEADLOCK FALSE
