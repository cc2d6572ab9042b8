--------------------------- MODULE MCRunLifecycle ---------------------------
(***************************************************************************)
(* Model checking of RunLifecycle: stop and delete calls are model values, *)
(* without symmetry, since the runs check liveness.                        *)
(***************************************************************************)
EXTENDS RunLifecycle
=============================================================================
