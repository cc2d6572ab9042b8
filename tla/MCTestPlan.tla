----------------------------- MODULE MCTestPlan -----------------------------
(***************************************************************************)
(* Model checking of TestPlan: measurements and thresholds at which the    *)
(* code's comparisons change, and one whose rate is rounded down to 5%.    *)
(***************************************************************************)
EXTENDS TestPlan

MCTiers == {[n |-> 20,   failed |-> 0,   good |-> 20],
            [n |-> 20,   failed |-> 1,   good |-> 19],
            [n |-> 20,   failed |-> 1,   good |-> 18],
            [n |-> 1999, failed |-> 100, good |-> 1899],
            [n |-> 3,    failed |-> 3,   good |-> 0]}

MCLimits == {0, 5}
=============================================================================
