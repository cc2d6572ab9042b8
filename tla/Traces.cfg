\* A proxied request and the tiers of two load tests write over a full table.
CONSTANTS
    Singles = {p1}
    Bulks   = {b1, b2}
    MaxStoredTraces = 1
    Stamps  = {1, 2, 3, 4}

SPECIFICATION Spec

SYMMETRY Symmetry

INVARIANTS
    LimitHolds

PROPERTIES
    KeepsTheNewest

\* The stamps run out.
CHECK_DEADLOCK FALSE
