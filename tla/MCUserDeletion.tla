----------------------------- MODULE MCUserDeletion -----------------------------
(***************************************************************************)
(* Small instances of UserDeletion, and so of AppLifecycle, for two apps.  *)
(***************************************************************************)
EXTENDS UserDeletion, TLC

RequestSymmetry == Permutations(Requests)
================================================================================
