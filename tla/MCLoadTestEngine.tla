-------------------------- MODULE MCLoadTestEngine --------------------------
(***************************************************************************)
(* Model checking of LoadTestEngine; the Engine*.cfg files choose the      *)
(* traffic pattern and the sizes.                                          *)
(***************************************************************************)
EXTENDS LoadTestEngine
=============================================================================
