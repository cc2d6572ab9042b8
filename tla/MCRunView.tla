------------------------------ MODULE MCRunView ------------------------------
(***************************************************************************)
(* Model checking of RunView: stop and delete calls are model values.      *)
(***************************************************************************)
EXTENDS RunView
=============================================================================
