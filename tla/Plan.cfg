\* Two thread groups, each testing one and two users.
CONSTANTS
    Groups   = 2
    Users    = 2
    Tiers    <- MCTiers
    Limits   <- MCLimits

SPECIFICATION FairSpec

INVARIANTS
    VerdictIsSound
    SafeMaxIsTheLimit

PROPERTIES
    PlanEnds

\* The plan may be over.
CHECK_DEADLOCK FALSE
