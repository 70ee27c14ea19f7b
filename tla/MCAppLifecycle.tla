----------------------------- MODULE MCAppLifecycle -----------------------------
(***************************************************************************)
(* Small instances of AppLifecycle: the configurations that use this       *)
(* module give the constants.  Requests are interchangeable.               *)
(***************************************************************************)
EXTENDS AppCorrectness, TLC

RequestSymmetry == Permutations(Requests)
================================================================================
