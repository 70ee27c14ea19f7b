----------------------------- MODULE MCSecretStore -----------------------------
(***************************************************************************)
(* Small instances of SecretStore: two apps, each with secrets of its own. *)
(***************************************************************************)
EXTENDS SecretCorrectness, TLC

CONSTANTS a1, a2

OneSecretEach  == (a1 :> {"u1"} @@ a2 :> {"u2"})
TwoSecretsEach == (a1 :> {"u1", "v1"} @@ a2 :> {"u2", "v2"})

RequestSymmetry == Permutations(Requests)

\* where no key is in the environment at first, the keys are alike too
KeySymmetry == RequestSymmetry \cup Permutations(Keys)
================================================================================
