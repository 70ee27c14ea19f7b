--------------------------- MODULE SecretCorrectness ---------------------------
(***************************************************************************)
(* What makes SecretStore correct.                                         *)
(***************************************************************************)
EXTENDS SecretStore

(***************************************************************************)
(* All records are under one key, the one of the last rotation that was    *)
(* committed, whatever commits fail and whenever the process dies:         *)
(* rotate_encryption_key leaves no record behind under an old key, and a   *)
(* rotation that does not end changes none of them.  So this key in the    *)
(* environment and a restart make every record readable again, until a     *)
(* store or a rotation is served with another key in memory.               *)
(***************************************************************************)
AllUnderTheKey == tableKey # NoKey => \A k \in Used : store[k].cipher.key = tableKey

(***************************************************************************)
(* The key in memory follows the records through rotations.  It leaves     *)
(* them only when the commit of a rotation fails, for the key was switched *)
(* before it, or when the process starts again with an environment that    *)
(* has another key than the records, as it has right after a rotation.     *)
(***************************************************************************)
InStep == /\ tableKey # NoKey
          /\ key = tableKey \/ \E r \in Requests : reqs[r].pc = "r_commit"

KeyFollowsRecords ==
  [][InStep => \/ InStep'
               \/ \E r \in Requests : RotateFails(r)
               \/ Restart /\ envKey # tableKey]_svars

(***************************************************************************)
(* Between requests the table holds for every app what the last successful *)
(* store_secrets gave it, and nothing after a delete_secrets, whatever     *)
(* rotations came after.                                                   *)
(***************************************************************************)
LatestIsStored ==
  Quiet => \A a \in Apps :
    IF latest[a] = NoVal
    THEN RecordsOf(a) = {}
    ELSE \E k \in Used : RecordsOf(a) = {k} /\ store[k].cipher.val = latest[a]

(***************************************************************************)
(* A read that has found a record returns what the last successful         *)
(* store_secrets gave the app, or a 500, never an older secret, and it     *)
(* does return it while the key in memory is the one of the records.  Not  *)
(* so, see KeyFollowsRecords, after the commit of a rotation has failed or *)
(* after a restart with the environment of before the rotation.            *)
(***************************************************************************)
ReadsLatest ==
  [][\A r \in Requests :
       GetReturns(r) =>
         /\ key = tableKey => Decrypts(reqs[r].cipher, key)
         /\ Decrypts(reqs[r].cipher, key) => reqs[r].cipher.val = latest[reqs[r].app]]_svars

(***************************************************************************)
(* An app has one record at most, also when two handlers have both found   *)
(* none and both insert one: select ... scalar_one_or_none would raise in  *)
(* every handler from then on.                                             *)
(***************************************************************************)
OneRecordEach == \A a \in Apps : Cardinality(RecordsOf(a)) <= 1

(***************************************************************************)
(* An app's record holds a secret that was stored for this app, never one  *)
(* of another app.                                                         *)
(***************************************************************************)
OwnSecret == \A k \in Used : store[k].cipher.val \in Values[store[k].app]

================================================================================
