--------------------------- MODULE SecretStore_proofs ---------------------------
(***************************************************************************)
(* Theorems about SecretStore, for any apps, keys, secrets, requests and   *)
(* failures.                                                               *)
(***************************************************************************)
EXTENDS SecretCorrectness, FiniteSetTheorems, TLAPS

\* an abbreviation, in every action that leaves both observations alone
USE DEF observed

--------------------------------------------------------------------------------
(* Type correctness *)

LEMMA IdleType == Idle \in Session
  BY SecretAssumption DEF Idle, Session, Pcs, Pks

(***************************************************************************)
(* A session of which a field changes within the field's type.             *)
(***************************************************************************)
LEMMA PcType ==
  ASSUME NEW s \in Session, NEW pc \in Pcs
  PROVE  [s EXCEPT !.pc = pc] \in Session
  BY DEF Session

LEMMA PkType ==
  ASSUME NEW s \in Session, NEW k \in Pks
  PROVE  [s EXCEPT !.pk = k] \in Session
<1>1. k \in 0..MaxPk
  BY SecretAssumption DEF Pks
<1> QED BY <1>1 DEF Session

LEMMA CipherType ==
  ASSUME NEW s \in Session, NEW c \in Cipher \cup {NoCipher}
  PROVE  [s EXCEPT !.cipher = c] \in Session
  BY DEF Session

LEMMA RowsType ==
  ASSUME NEW s \in Session, NEW pc \in Pcs, NEW rows \in [Pks -> Cipher \cup {NoCipher}]
  PROVE  [s EXCEPT !.pc = pc, !.rows = rows] \in Session
  BY DEF Session

(***************************************************************************)
(* A record in use is a record, with a ciphertext under a key.             *)
(***************************************************************************)
LEMMA UsedType ==
  ASSUME TypeOK
  PROVE  /\ \A k \in Used : store[k] \in Record /\ store[k].cipher \in Cipher
         /\ \A k \in Pks : store[k].cipher \in Cipher \cup {NoCipher}
  BY DEF TypeOK, Used, Record, NoRecord

LEMMA CipherIsSome == NoCipher \notin Cipher
  BY SecretAssumption DEF NoCipher, Cipher

LEMMA TypeInit == Init => TypeOK
  BY IdleType, SecretAssumption DEF Init, TypeOK, Idle

LEMMA FaultType ==
  ASSUME TypeOK, NEW kind, Fault(kind) \/ NoFault
  PROVE  faults' \in 0..MaxFaults
  BY SecretAssumption DEF TypeOK, Fault, NoFault

LEMMA RequestType ==
  ASSUME TypeOK, NEW r \in Requests, Request(r)
  PROVE  TypeOK'
<1> DEFINE Accepted(s) ==
      /\ s \in Session
      /\ s.pc \notin {"idle", "r_select", "r_loop", "r_commit"} => s.app \in Apps
      /\ s.pc \in {"s_select", "s_commit"} => s.cipher \in Cipher
      /\ s.pc \in {"r_select", "r_loop", "r_commit"} => s.key \in Keys
<1>1. ASSUME NEW s, Accept(r, s), Accepted(s) PROVE TypeOK'
  BY <1>1 DEF Accept, TypeOK
<1>2. ASSUME NEW a \in Apps, NEW v \in Values[a], StartStore(r, a, v) PROVE TypeOK'
  <2> DEFINE s == [Idle EXCEPT !.pc = "s_select", !.app = a, !.cipher = Encrypt(v, key)]
  <2>1. v \in AllVals
    BY DEF AllVals
  <2>2. Encrypt(v, key) \in Cipher
    BY <2>1 DEF Encrypt, Cipher, TypeOK
  <2>3. Accepted(s)
    BY <2>2, IdleType DEF Session, Pcs, Idle
  <2> QED BY <1>1, <1>2, <2>3 DEF StartStore
<1>3. ASSUME NEW a \in Apps, StartGet(r, a) PROVE TypeOK'
  <2> DEFINE s == [Idle EXCEPT !.pc = "g_select", !.app = a]
  <2>1. Accepted(s)
    BY IdleType DEF Session, Pcs, Idle
  <2> QED BY <1>1, <1>3, <2>1 DEF StartGet
<1>4. ASSUME NEW a \in Apps, StartDelete(r, a) PROVE TypeOK'
  <2> DEFINE s == [Idle EXCEPT !.pc = "d_select", !.app = a]
  <2>1. Accepted(s)
    BY IdleType DEF Session, Pcs, Idle
  <2> QED BY <1>1, <1>4, <2>1 DEF StartDelete
<1>5. ASSUME NEW k \in Keys, StartRotate(r, k) PROVE TypeOK'
  <2> DEFINE s == [Idle EXCEPT !.pc = "r_select", !.key = k]
  <2>1. Accepted(s)
    BY IdleType DEF Session, Pcs, Idle
  <2> QED BY <1>1, <1>5, <2>1 DEF StartRotate
<1> QED BY <1>2, <1>3, <1>4, <1>5 DEF Request

LEMMA DoneType ==
  ASSUME TypeOK, NEW r \in Requests, Done(r)
  PROVE  /\ reqs' \in [Requests -> Session]
         /\ \A q \in Requests :
              /\ reqs'[q].pc \notin {"idle", "r_select", "r_loop", "r_commit"} => reqs'[q].app \in Apps
              /\ reqs'[q].pc \in {"s_select", "s_commit"} => reqs'[q].cipher \in Cipher
              /\ reqs'[q].pc \in {"r_select", "r_loop", "r_commit"} => reqs'[q].key \in Keys
  BY IdleType DEF Done, TypeOK, Idle

LEMMA SelectType ==
  ASSUME TypeOK, NEW r \in Requests,
         NEW here \in {"s_select", "g_select", "d_select"},
         NEW found \in {"s_commit", "g_decrypt", "d_commit"},
         NEW missing \in {"idle", "s_commit"},
         found = "s_commit" \/ missing = "s_commit" => here = "s_select",
         Select(r, here, found, missing)
  PROVE  TypeOK'
<1>0. {here, found, missing} \subseteq Pcs
  BY DEF Pcs
<1>1. ASSUME NEW k \in RecordsOf(reqs[r].app),
             reqs' = [reqs EXCEPT ![r].pc = found, ![r].pk = k,
                        ![r].cipher = IF found = "g_decrypt" THEN store[k].cipher ELSE @]
      PROVE  TypeOK'
  <2> DEFINE c == IF found = "g_decrypt" THEN store[k].cipher ELSE reqs[r].cipher
  <2>1. k \in Pks /\ c \in Cipher \cup {NoCipher}
    BY UsedType DEF RecordsOf, Used, TypeOK, Session
  <2>2. reqs' = [reqs EXCEPT ![r] = [@ EXCEPT !.pc = found, !.pk = k, !.cipher = c]]
    BY <1>1
  <2>3. reqs' \in [Requests -> Session]
    BY <1>0, <2>1, <2>2, PcType, PkType, CipherType DEF TypeOK
  <2> HIDE DEF c
  <2>4. /\ reqs[r].pc = here
        /\ reqs'[r] = [reqs[r] EXCEPT !.pc = found, !.pk = k, !.cipher = c]
        /\ \A q \in Requests \ {r} : reqs'[q] = reqs[q]
    BY <2>2 DEF Select, TypeOK
  <2>5. reqs'[r].pc = found /\ reqs'[r].app = reqs[r].app /\ reqs'[r].cipher = c
    BY <2>3, <2>4 DEF TypeOK, Session
  <2>6. reqs[r].app \in Apps
    BY <2>4 DEF TypeOK
  <2>7. found = "s_commit" => c \in Cipher
    BY <2>4 DEF c, TypeOK
  <2> QED BY <2>3, <2>4, <2>5, <2>6, <2>7 DEF Select, TypeOK
<1>2. CASE reqs' = [reqs EXCEPT ![r] = IF missing = "idle" THEN Idle ELSE [@ EXCEPT !.pc = missing]]
  <2>1. CASE missing = "idle"
    <3>1. Done(r)
      BY <1>2, <2>1 DEF Done
    <3> QED BY <3>1, DoneType DEF Select, TypeOK
  <2>2. CASE missing = "s_commit"
    <3>1. here = "s_select" /\ reqs[r].pc = here /\ reqs[r] \in Session
      BY <2>2 DEF Select, TypeOK
    <3> DEFINE s == [reqs[r] EXCEPT !.pc = missing]
    <3>2. reqs' = [reqs EXCEPT ![r] = s]
      BY <1>2, <2>2
    <3>3. s \in Session /\ s.pc = "s_commit" /\ s.app = reqs[r].app /\ s.cipher = reqs[r].cipher
      BY <1>0, <2>2, <3>1, PcType DEF Session
    <3> HIDE DEF s
    <3> QED BY <3>1, <3>2, <3>3 DEF Select, TypeOK
  <2> QED BY <2>1, <2>2
<1> QED BY <1>1, <1>2 DEF Select

LEMMA StepType ==
  ASSUME TypeOK, NEW r \in Requests, Step(r)
  PROVE  TypeOK'
<1> USE DEF TypeOK
<1>1. CASE StoreUpdates(r)
  BY <1>1, DoneType, UsedType DEF StoreUpdates, UnderOneKey, Used, Record, Cipher
<1>2. CASE StoreInserts(r)
  <2> DEFINE new == [app |-> reqs[r].app, cipher |-> reqs[r].cipher]
  <2>1. new \in Record /\ reqs[r].cipher.val \in AllVals /\ reqs[r].app \in Apps
    BY <1>2 DEF StoreInserts, Record, Cipher
  <2>2. \E k \in Pks : store' = [store EXCEPT ![k] = new]
    BY <1>2 DEF StoreInserts
  <2> HIDE DEF new
  <2>3. store' \in [Pks -> Record \cup {NoRecord}]
    BY <2>1, <2>2
  <2> QED BY <1>2, <2>1, <2>3, DoneType DEF StoreInserts, UnderOneKey
<1>3. CASE StoreFails(r)
  BY <1>3, DoneType, FaultType DEF StoreFails
<1>4. CASE GetReturns(r)
  BY <1>4, DoneType DEF GetReturns
<1>5. CASE DeleteCommits(r)
  BY <1>5, DoneType DEF DeleteCommits
<1>6. CASE DeleteFails(r)
  BY <1>6, DoneType, FaultType DEF DeleteFails
<1>7. CASE SelectAll(r)
  <2> DEFINE rows == [k \in Pks |-> store[k].cipher]
  <2>1. rows \in [Pks -> Cipher \cup {NoCipher}]
    BY UsedType
  <2>2. reqs' = [reqs EXCEPT ![r] = [@ EXCEPT !.pc = "r_loop", !.rows = rows]]
    BY <1>7 DEF SelectAll
  <2>3. reqs' \in [Requests -> Session]
    BY <2>1, <2>2, RowsType DEF Pcs
  <2> HIDE DEF rows
  <2> QED BY <1>7, <2>2, <2>3 DEF SelectAll
<1>8. CASE RotateLoop(r)
  <2> DEFINE old  == reqs[r].rows
             rows == Reencrypted(old, key, reqs[r].key)
  <2>1. reqs[r].key \in Keys /\ old \in [Pks -> Cipher \cup {NoCipher}]
    BY <1>8 DEF RotateLoop, Session
  <2>2. rows \in [Pks -> Cipher \cup {NoCipher}]
    BY <2>1 DEF Reencrypted, Decrypts, Encrypt, Cipher
  <2>3. reqs' = [reqs EXCEPT ![r] = [@ EXCEPT !.pc = "r_commit", !.rows = rows]]
    BY <1>8 DEF RotateLoop
  <2> HIDE DEF rows
  <2>4. reqs' \in [Requests -> Session]
    BY <2>2, <2>3, RowsType DEF Pcs
  <2> QED BY <1>8, <2>1, <2>3, <2>4 DEF RotateLoop, UnderOneKey
<1>9. CASE RotateCommits(r)
  <2>1. \A k \in Rewritten(r) : store[k] \in Record /\ reqs[r].rows[k] \in Cipher
    BY <1>9, UsedType DEF RotateCommits, Rewritten, Used, Session
  <2>2. store' \in [Pks -> Record \cup {NoRecord}]
    BY <1>9, <2>1 DEF RotateCommits, Record
  <2> QED BY <1>9, <2>2, DoneType DEF RotateCommits
<1>10. CASE RotateFails(r)
  BY <1>10, DoneType, FaultType DEF RotateFails
<1> QED
  BY <1>1, <1>2, <1>3, <1>4, <1>5, <1>6, <1>7, <1>8, <1>9, <1>10, SelectType DEF Step

LEMMA TypeStep == TypeOK /\ [Next]_svars => TypeOK'
<1> SUFFICES ASSUME TypeOK, [Next]_svars PROVE TypeOK'
  OBVIOUS
<1>1. CASE UpdateEnvironment
  BY <1>1 DEF UpdateEnvironment, TypeOK
<1>2. CASE Restart
  <2>1. key' \in Keys
    BY <1>2 DEF Restart, TypeOK
  <2> QED BY <1>2, <2>1, IdleType, FaultType DEF Restart, TypeOK, Idle
<1>3. CASE UNCHANGED svars
  BY <1>3 DEF svars, TypeOK
<1> QED BY <1>1, <1>2, <1>3, RequestType, StepType DEF Next

(***************************************************************************)
(* Every variable keeps its type.                                          *)
(***************************************************************************)
THEOREM TypeCorrect == Spec => []TypeOK
  BY TypeInit, TypeStep, PTL DEF Spec

--------------------------------------------------------------------------------
(* One record per app *)

(***************************************************************************)
(* Two records in use never have the same app.                             *)
(***************************************************************************)
AppsDiffer == \A j, k \in Used : store[j].app = store[k].app => j = k

LEMMA AppsDifferAlways == Spec => []AppsDiffer
<1>1. Init => AppsDiffer
  BY DEF Init, AppsDiffer, Used
<1>2. TypeOK /\ AppsDiffer /\ [Next]_svars => AppsDiffer'
  <2> SUFFICES ASSUME TypeOK, AppsDiffer, [Next]_svars
               PROVE  AppsDiffer'
    OBVIOUS
  <2>1. ASSUME store' = store
        PROVE  AppsDiffer'
    BY <2>1 DEF AppsDiffer, Used
  <2>2. ASSUME Used' \subseteq Used, \A k \in Used' : store'[k].app = store[k].app
        PROVE  AppsDiffer'
    BY <2>2 DEF AppsDiffer
  <2>3. ASSUME NEW r \in Requests, Step(r)
        PROVE  AppsDiffer'
    <3>1. CASE StoreUpdates(r)
      BY <2>2, <3>1 DEF StoreUpdates, Used, TypeOK
    <3>2. CASE StoreInserts(r)
      <4>1. PICK k \in Pks :
              store' = [store EXCEPT ![k] = [app |-> reqs[r].app, cipher |-> reqs[r].cipher]]
        BY <3>2 DEF StoreInserts
      <4>2. \A j \in Used : store[j].app # reqs[r].app
        BY <3>2 DEF StoreInserts, RecordsOf
      <4> QED BY <4>1, <4>2 DEF AppsDiffer, Used, TypeOK
    <3>3. CASE DeleteCommits(r)
      BY <2>2, <3>3 DEF DeleteCommits, Used, TypeOK
    <3>4. CASE RotateCommits(r)
      <4>1. Used' \subseteq Used
        BY <3>4 DEF RotateCommits, Used
      <4>2. \A k \in Pks : store'[k].app = store[k].app
        BY <3>4 DEF RotateCommits, TypeOK, Record, NoRecord
      <4> QED BY <2>2, <4>1, <4>2 DEF Used
    <3>5. ASSUME \/ StoreFails(r) \/ GetReturns(r) \/ DeleteFails(r) \/ SelectAll(r)
                 \/ RotateLoop(r) \/ RotateFails(r)
          PROVE  store' = store
      BY <3>5 DEF StoreFails, GetReturns, DeleteFails, SelectAll, RotateLoop, RotateFails
    <3>6. ASSUME NEW here, NEW found, NEW missing, Select(r, here, found, missing)
          PROVE  store' = store
      BY <3>6 DEF Select
    <3> QED BY <2>1, <2>3, <3>1, <3>2, <3>3, <3>4, <3>5, <3>6 DEF Step
  <2>4. ASSUME NEW r \in Requests, Request(r)
        PROVE  store' = store
    BY <2>4 DEF Request, StartStore, StartGet, StartDelete, StartRotate, Accept
  <2>5. ASSUME UpdateEnvironment \/ Restart \/ UNCHANGED svars
        PROVE  store' = store
    BY <2>5 DEF UpdateEnvironment, Restart, svars
  <2> QED BY <2>1, <2>3, <2>4, <2>5 DEF Next
<1> QED BY <1>1, <1>2, TypeCorrect, PTL DEF Spec

(***************************************************************************)
(* No two records of one app, also when the queries of two stores both     *)
(* found none: the UNIQUE constraint refuses the second insertion, and     *)
(* every other write leaves the app of a record alone.                     *)
(***************************************************************************)
THEOREM OneRecord == Spec => []OneRecordEach
<1>1. AppsDiffer => OneRecordEach
  <2> SUFFICES ASSUME AppsDiffer, NEW a \in Apps
               PROVE  Cardinality(RecordsOf(a)) <= 1
    BY DEF OneRecordEach
  <2>1. CASE RecordsOf(a) = {}
    BY <2>1, FS_EmptySet
  <2>2. ASSUME NEW k \in RecordsOf(a)
        PROVE  Cardinality(RecordsOf(a)) <= 1
    <3>1. RecordsOf(a) = {k}
      BY <2>2 DEF AppsDiffer, RecordsOf
    <3> QED BY <3>1, FS_Singleton
  <2> QED BY <2>1, <2>2
<1> QED BY <1>1, AppsDifferAlways, PTL

--------------------------------------------------------------------------------
(* One request at a time *)

(***************************************************************************)
(* All slots but one are idle, and a slot that is idle has forgotten its   *)
(* last request.                                                           *)
(***************************************************************************)
Serial ==
  /\ \A r \in Requests : reqs[r].pc = "idle" => reqs[r] = Idle
  /\ \A q, r \in Requests : reqs[q] # Idle /\ reqs[r] # Idle => q = r

Alone(r) == \A q \in Requests \ {r} : reqs[q] = Idle

(***************************************************************************)
(* A handler moves its own session, from a step to a step.                 *)
(***************************************************************************)
LEMMA OwnSession ==
  ASSUME TypeOK, NEW r \in Requests, Step(r) \/ Request(r)
  PROVE  /\ Step(r) => reqs[r].pc # "idle"
         /\ reqs'[r] = Idle \/ reqs'[r].pc # "idle"
         /\ \A q \in Requests \ {r} : reqs'[q] = reqs[q]
<1> USE DEF TypeOK
<1>0. Step(r) => reqs[r].pc # "idle"
  <2>1. ASSUME NEW here \in {"s_select", "g_select", "d_select"}, NEW found, NEW missing,
               Select(r, here, found, missing)
        PROVE  reqs[r].pc # "idle"
    BY <2>1 DEF Select
  <2>2. ASSUME \/ StoreUpdates(r) \/ StoreInserts(r) \/ StoreFails(r) \/ GetReturns(r)
               \/ DeleteCommits(r) \/ DeleteFails(r) \/ SelectAll(r) \/ RotateLoop(r)
               \/ RotateCommits(r) \/ RotateFails(r)
        PROVE  reqs[r].pc # "idle"
    BY <2>2
    DEF StoreUpdates, StoreInserts, StoreFails, GetReturns, DeleteCommits, DeleteFails,
        SelectAll, RotateLoop, RotateCommits, RotateFails
  <2> QED BY <2>1, <2>2 DEF Step
<1> DEFINE Started == \E s : s.pc # "idle" /\ reqs' = [reqs EXCEPT ![r] = s]
<1>1. CASE Request(r)
  <2>1. Started
    <3>1. ASSUME NEW a \in Apps, NEW v \in Values[a], StartStore(r, a, v) PROVE Started
      BY <3>1 DEF StartStore, Accept, Idle
    <3>2. ASSUME NEW a \in Apps, StartGet(r, a) \/ StartDelete(r, a) PROVE Started
      BY <3>2 DEF StartGet, StartDelete, Accept, Idle
    <3>3. ASSUME NEW k \in Keys, StartRotate(r, k) PROVE Started
      BY <3>3 DEF StartRotate, Accept, Idle
    <3> QED BY <1>1, <3>1, <3>2, <3>3 DEF Request
  <2>2. reqs[r].pc = "idle"
    <3>1. reqs[r] = Idle
      BY <1>1 DEF Request, StartStore, StartGet, StartDelete, StartRotate, Start
    <3> QED BY <3>1 DEF Idle
  <2>3. PICK s : s.pc # "idle" /\ reqs' = [reqs EXCEPT ![r] = s]
    BY <2>1
  <2>4. reqs'[r].pc # "idle" /\ \A q \in Requests \ {r} : reqs'[q] = reqs[q]
    BY <2>3
  <2> QED BY <1>0, <2>2, <2>4
<1>2. ASSUME NEW here \in {"s_select", "g_select", "d_select"},
             NEW found \in {"s_commit", "g_decrypt", "d_commit"},
             NEW missing \in {"idle", "s_commit"}, Select(r, here, found, missing)
      PROVE  /\ reqs'[r] = Idle \/ reqs'[r].pc # "idle"
             /\ \A q \in Requests \ {r} : reqs'[q] = reqs[q]
  <2>1. ASSUME NEW k,
               reqs' = [reqs EXCEPT ![r].pc = found, ![r].pk = k,
                          ![r].cipher = IF found = "g_decrypt" THEN store[k].cipher ELSE @]
        PROVE  reqs'[r].pc = found /\ \A q \in Requests \ {r} : reqs'[q] = reqs[q]
    BY <2>1 DEF Session
  <2>2. ASSUME reqs' = [reqs EXCEPT ![r] = IF missing = "idle" THEN Idle ELSE [@ EXCEPT !.pc = missing]]
        PROVE  /\ reqs'[r] = IF missing = "idle" THEN Idle ELSE [reqs[r] EXCEPT !.pc = missing]
               /\ \A q \in Requests \ {r} : reqs'[q] = reqs[q]
    BY <2>2
  <2>3. [reqs[r] EXCEPT !.pc = missing].pc = missing
    BY DEF Session
  <2> QED BY <1>2, <2>1, <2>2, <2>3 DEF Select
<1>3. CASE \/ StoreUpdates(r) \/ StoreInserts(r) \/ StoreFails(r) \/ GetReturns(r)
           \/ DeleteCommits(r) \/ DeleteFails(r) \/ RotateCommits(r) \/ RotateFails(r)
  BY <1>3
  DEF StoreUpdates, StoreInserts, StoreFails, GetReturns, DeleteCommits, DeleteFails,
      RotateCommits, RotateFails, Done
<1>4. CASE SelectAll(r) \/ RotateLoop(r)
  BY <1>4 DEF SelectAll, RotateLoop, Session
<1> QED BY <1>0, <1>1, <1>2, <1>3, <1>4 DEF Step

LEMMA AloneStep ==
  ASSUME TypeOK, Serial, OneAtATime, NEW r \in Requests, Step(r) \/ Request(r)
  PROVE  Alone(r) /\ Alone(r)' /\ Serial'
<1>1. Alone(r)
  <2>1. CASE Request(r)
    BY <2>1
    DEF Request, StartStore, StartGet, StartDelete, StartRotate, Start, Admit, Quiet, Alone
  <2>2. CASE Step(r)
    BY <2>2, OwnSession DEF Serial, Alone, Idle
  <2> QED BY <2>1, <2>2
<1> QED BY <1>1, OwnSession DEF Alone, Serial

(***************************************************************************)
(* The records and what was last stored, and how far a request has got.    *)
(***************************************************************************)
Stored ==
  /\ \A k \in Used : latest[store[k].app] = store[k].cipher.val
  /\ \A a \in Apps : latest[a] # NoVal => \E k \in Used : store[k].app = a

Kept(r) ==
  /\ reqs[r].pc = "s_select" => reqs[r].pk = 0
  /\ reqs[r].pc = "s_commit" =>
       \/ reqs[r].pk = 0
       \/ reqs[r].pk \in Used /\ store[reqs[r].pk].app = reqs[r].app
  /\ reqs[r].pc = "d_commit" => reqs[r].pk \in Used /\ store[reqs[r].pk].app = reqs[r].app
  /\ reqs[r].pc = "r_loop" => \A k \in Pks : reqs[r].rows[k] = store[k].cipher
  /\ reqs[r].pc = "r_commit" =>
       \A k \in Pks : reqs[r].rows[k] # NoCipher =>
         k \in Used /\ reqs[r].rows[k].val = store[k].cipher.val

(***************************************************************************)
(* Where requests overlap, only stores and reads are under way.            *)
(***************************************************************************)
StoresAndReads ==
  \A r \in Requests : reqs[r].pc \in {"idle", "s_select", "s_commit", "g_select", "g_decrypt"}

StoredInv ==
  /\ AppsDiffer
  /\ Stored
  /\ \A r \in Requests : Kept(r)
  /\ IF OneAtATime THEN Serial ELSE StoresAndReads

LEMMA StoredInit == Init => StoredInv
  BY DEF Init, StoredInv, AppsDiffer, Serial, StoresAndReads, Stored, Kept, Used, Idle

(***************************************************************************)
(* Between requests nothing is under way that could be out of date.        *)
(***************************************************************************)
LEMMA IdleKept ==
  ASSUME NEW r \in Requests, reqs[r] = Idle
  PROVE  Kept(r)
  BY DEF Kept, Idle

LEMMA StoredStep ==
  ASSUME TypeOK, AppsDiffer, Stored, NEW r \in Requests, Kept(r), Step(r)
  PROVE  Stored' /\ Kept(r)'
<1> USE DEF TypeOK
<1>0. TypeOK'
  BY StepType
<1>1. ASSUME UNCHANGED <<store, latest>>
      PROVE  Stored'
  BY <1>1 DEF Stored, Used
<1>2. ASSUME Done(r)
      PROVE  Kept(r)'
  BY <1>2 DEF Done, Kept, Idle
<1>3. \A k \in Used : store[k].app \in Apps /\ store[k].cipher.val # NoVal
  BY UsedType, SecretAssumption DEF Record, Cipher, AllVals
<1>4. CASE \/ StoreFails(r) \/ GetReturns(r) \/ DeleteFails(r) \/ RotateFails(r)
  BY <1>1, <1>2, <1>4 DEF StoreFails, GetReturns, DeleteFails, RotateFails
<1>5. CASE StoreUpdates(r)
  <2> DEFINE k == reqs[r].pk  a == reqs[r].app  c == reqs[r].cipher
  <2>1. k \in Used /\ store[k].app = a /\ c \in Cipher /\ c.val # NoVal
    <3>1. reqs[r].pc = "s_commit" /\ k \in Used /\ k # 0
      BY <1>5, SecretAssumption DEF StoreUpdates, Used, Pks
    <3>2. c \in Cipher
      BY <3>1
    <3> QED BY <3>1, <3>2, SecretAssumption DEF Kept, Cipher, AllVals
  <2>2. store' = [store EXCEPT ![k].cipher = c] /\ latest' = [latest EXCEPT ![a] = c.val]
    BY <1>5 DEF StoreUpdates
  <2>3. store'[k] # NoRecord
    BY <2>1, <2>2, CipherIsSome, UsedType DEF Used, Record, NoRecord
  <2>4. Used' = Used /\ \A j \in Used : store'[j].app = store[j].app
    BY <2>1, <2>2, <2>3 DEF Used
  <2>5. \A j \in Used \ {k} : store[j].app # a /\ store'[j] = store[j]
    BY <2>1, <2>2 DEF AppsDiffer, Used
  <2>6. store'[k].cipher = c /\ latest'[a] = c.val /\ \A b \in Apps \ {a} : latest'[b] = latest[b]
    BY <1>3, <2>1, <2>2, UsedType DEF Used, Record
  <2>7. Stored'
    BY <1>3, <2>1, <2>4, <2>5, <2>6 DEF Stored
  <2> QED BY <1>2, <1>5, <2>7 DEF StoreUpdates
<1>6. CASE StoreInserts(r)
  <2> DEFINE a == reqs[r].app  c == reqs[r].cipher  new == [app |-> a, cipher |-> c]
  <2>1. reqs[r].pc = "s_commit" /\ a \in Apps /\ c \in Cipher /\ \A j \in Used : store[j].app # a
    BY <1>6 DEF StoreInserts, RecordsOf
  <2>2. PICK k \in Pks : NextPk(k) /\ store' = [store EXCEPT ![k] = new]
    BY <1>6 DEF StoreInserts
  <2>3. k \notin Used
    BY <2>2, SecretAssumption DEF NextPk, Pks
  <2>4. new # NoRecord
    BY <2>1, CipherIsSome DEF NoRecord
  <2>5. /\ Used' = Used \cup {k} /\ store'[k] = new
        /\ \A j \in Used : store'[j] = store[j]
    BY <2>2, <2>3, <2>4 DEF Used
  <2>6. latest' = [latest EXCEPT ![a] = c.val]
    BY <1>6 DEF StoreInserts
  <2>7. Stored'
    BY <1>3, <2>1, <2>5, <2>6 DEF Stored
  <2> QED BY <1>2, <1>6, <2>7 DEF StoreInserts
<1>7. CASE DeleteCommits(r)
  <2> DEFINE k == reqs[r].pk  a == reqs[r].app
  <2>1. k \in Used /\ store[k].app = a
    BY <1>7 DEF DeleteCommits, Kept
  <2>2. store' = [store EXCEPT ![k] = NoRecord] /\ latest' = [latest EXCEPT ![a] = NoVal]
    BY <1>7 DEF DeleteCommits
  <2>3. /\ Used' = Used \ {k}
        /\ \A j \in Used \ {k} : store'[j] = store[j] /\ store[j].app # a
    BY <2>1, <2>2 DEF Used, AppsDiffer
  <2>4. Stored'
    BY <1>3, <2>1, <2>2, <2>3 DEF Stored
  <2> QED BY <1>2, <1>7, <2>4 DEF DeleteCommits
<1>8. CASE SelectAll(r)
  <2>1. reqs' = [reqs EXCEPT ![r].pc = "r_loop", ![r].rows = [k \in Pks |-> store[k].cipher]]
    BY <1>8 DEF SelectAll
  <2>2. reqs'[r].pc = "r_loop" /\ \A k \in Pks : reqs'[r].rows[k] = store[k].cipher
    BY <2>1 DEF Session
  <2> QED BY <1>1, <1>8, <2>2 DEF SelectAll, Kept
<1>9. CASE RotateLoop(r)
  <2>1. reqs'[r].pc = "r_commit"
        /\ reqs'[r].rows = [k \in Pks |-> IF Decrypts(reqs[r].rows[k], key)
                              THEN Encrypt(reqs[r].rows[k].val, reqs[r].key) ELSE NoCipher]
    BY <1>9 DEF RotateLoop, Reencrypted, Session
  <2>2. \A k \in Pks : reqs[r].rows[k] = store[k].cipher
    BY <1>9 DEF RotateLoop, Kept
  <2>3. \A k \in Pks : reqs'[r].rows[k] # NoCipher =>
          k \in Used /\ reqs'[r].rows[k].val = store[k].cipher.val
    <3> SUFFICES ASSUME NEW k \in Pks, reqs'[r].rows[k] # NoCipher
                 PROVE  k \in Used /\ reqs'[r].rows[k].val = store[k].cipher.val
      OBVIOUS
    <3>1. Decrypts(store[k].cipher, key)
      BY <2>1, <2>2
    <3>2. reqs'[r].rows[k] = Encrypt(store[k].cipher.val, reqs[r].key)
      BY <2>1, <2>2, <3>1
    <3>3. k \in Used
      BY <3>1 DEF Decrypts, Used, NoRecord
    <3> QED BY <3>2, <3>3 DEF Encrypt
  <2>4. UNCHANGED <<store, latest>>
    BY <1>9 DEF RotateLoop
  <2> QED BY <1>1, <2>1, <2>3, <2>4 DEF Kept, Used
<1>10. CASE RotateCommits(r)
  <2> DEFINE W == Rewritten(r)  R == reqs[r].rows
  <2>1. \A k \in W : k \in Used /\ R[k] \in Cipher /\ R[k].val = store[k].cipher.val
    BY <1>10 DEF RotateCommits, Rewritten, Kept, Session
  <2>2. \A k \in Pks : store'[k] = IF k \in W THEN [store[k] EXCEPT !.cipher = R[k]] ELSE store[k]
    BY <1>10 DEF RotateCommits
  <2>3. \A k \in W : /\ store'[k].cipher = R[k] /\ store'[k].app = store[k].app
                     /\ store'[k] # NoRecord
    <3> SUFFICES ASSUME NEW k \in W
                 PROVE  /\ store'[k].cipher = R[k] /\ store'[k].app = store[k].app
                        /\ store'[k] # NoRecord
      OBVIOUS
    <3>1. store[k] \in Record /\ R[k] \in Cipher /\ k \in Pks
      BY <2>1, UsedType DEF Used
    <3>2. store'[k] = [store[k] EXCEPT !.cipher = R[k]]
      BY <2>2, <3>1
    <3>3. store'[k].cipher = R[k] /\ store'[k].app = store[k].app
      BY <3>1, <3>2 DEF Record
    <3> QED BY <3>1, <3>3, CipherIsSome DEF NoRecord
  <2>4. Used' = Used /\ \A k \in Used : /\ store'[k].app = store[k].app
                                        /\ store'[k].cipher.val = store[k].cipher.val
    BY <2>1, <2>2, <2>3 DEF Used
  <2>5. latest' = latest
    BY <1>10 DEF RotateCommits
  <2>6. Stored'
    BY <2>4, <2>5 DEF Stored
  <2> QED BY <1>2, <1>10, <2>6 DEF RotateCommits
<1>11. ASSUME NEW here, NEW found \in {"s_commit", "g_decrypt", "d_commit"},
              NEW missing \in {"idle", "s_commit"},
              Select(r, here, found, missing), found = "s_commit" \/ missing = "idle",
              missing = "s_commit" => reqs[r].pk = 0
       PROVE  Stored' /\ Kept(r)'
  <2>1. UNCHANGED <<store, latest>>
    BY <1>11 DEF Select
  <2>2. ASSUME NEW k \in RecordsOf(reqs[r].app),
               reqs' = [reqs EXCEPT ![r].pc = found, ![r].pk = k,
                          ![r].cipher = IF found = "g_decrypt" THEN store[k].cipher ELSE @]
        PROVE  Kept(r)'
    <3>1. reqs'[r].pc = found /\ reqs'[r].pk = k /\ reqs'[r].app = reqs[r].app
      BY <2>2 DEF Session
    <3> QED BY <2>1, <3>1 DEF Kept, RecordsOf, Used
  <2>3. ASSUME reqs' = [reqs EXCEPT ![r] = IF missing = "idle" THEN Idle ELSE [@ EXCEPT !.pc = missing]]
        PROVE  Kept(r)'
    <3>1. CASE missing = "idle"
      BY <1>2, <2>3, <3>1 DEF Done
    <3>2. CASE missing = "s_commit"
      <4>1. reqs'[r] = [reqs[r] EXCEPT !.pc = missing]
        BY <2>3, <3>2
      <4>2. reqs'[r].pc = "s_commit" /\ reqs'[r].pk = reqs[r].pk
        BY <3>2, <4>1 DEF Session
      <4> QED BY <1>11, <3>2, <4>2 DEF Kept
    <3> QED BY <3>1, <3>2
  <2> QED BY <1>1, <1>11, <2>1, <2>2, <2>3 DEF Select
<1>12. ASSUME Select(r, "s_select", "s_commit", "s_commit")
       PROVE  reqs[r].pk = 0
  BY <1>12 DEF Select, Kept
<1>13. CASE \/ Select(r, "s_select", "s_commit", "s_commit")
            \/ Select(r, "g_select", "g_decrypt", "idle")
            \/ Select(r, "d_select", "d_commit", "idle")
  BY <1>11, <1>12, <1>13
<1> QED
  BY <1>4, <1>5, <1>6, <1>7, <1>8, <1>9, <1>10, <1>13 DEF Step

(***************************************************************************)
(* All a store does to the records of others is leave them alone.          *)
(***************************************************************************)
LEMMA RecordsStay ==
  ASSUME TypeOK, NEW r \in Requests, Step(r), ~DeleteCommits(r)
  PROVE  Used \subseteq Used' /\ \A k \in Used : store'[k].app = store[k].app
<1> USE DEF TypeOK
<1>1. ASSUME store' = store
      PROVE  Used \subseteq Used' /\ \A k \in Used : store'[k].app = store[k].app
  BY <1>1 DEF Used
<1>2. CASE StoreUpdates(r)
  <2> DEFINE k == reqs[r].pk
  <2>1. k \in Used /\ store' = [store EXCEPT ![k].cipher = reqs[r].cipher]
    BY <1>2 DEF StoreUpdates
  <2>2. store'[k] = [store[k] EXCEPT !.cipher = reqs[r].cipher] /\ store[k] \in Record
    BY <2>1, UsedType DEF Used
  <2>3. store'[k].app = store[k].app /\ store'[k].cipher = reqs[r].cipher
    BY <2>2 DEF Record
  <2>4. reqs[r].cipher \in Cipher
    BY <1>2 DEF StoreUpdates
  <2>5. store'[k] # NoRecord
    BY <2>3, <2>4, CipherIsSome DEF NoRecord
  <2> HIDE DEF k
  <2>6. \A j \in Pks \ {k} : store'[j] = store[j]
    BY <2>1 DEF k
  <2> QED BY <2>1, <2>3, <2>5, <2>6 DEF Used
<1>3. CASE StoreInserts(r)
  <2>1. PICK k \in Pks :
          /\ NextPk(k)
          /\ store' = [store EXCEPT ![k] = [app |-> reqs[r].app, cipher |-> reqs[r].cipher]]
    BY <1>3 DEF StoreInserts
  <2>2. k \notin Used
    BY <2>1, SecretAssumption DEF NextPk, Pks
  <2> QED BY <2>1, <2>2 DEF Used
<1>4. CASE RotateCommits(r)
  <2> DEFINE W == Rewritten(r)  R == reqs[r].rows
  <2>1. /\ \A k \in W : k \in Used /\ R[k] \in Cipher
        /\ \A k \in Pks : store'[k] = IF k \in W THEN [store[k] EXCEPT !.cipher = R[k]] ELSE store[k]
    BY <1>4 DEF RotateCommits, Rewritten, Session
  <2>2. \A k \in W : store'[k].app = store[k].app /\ store'[k].cipher = R[k]
    BY <2>1, UsedType DEF Record, Used
  <2>3. \A k \in W : store'[k] # NoRecord
    BY <2>1, <2>2, CipherIsSome DEF NoRecord
  <2> HIDE DEF W, R
  <2> QED BY <2>1, <2>2, <2>3 DEF Used
<1>5. ASSUME \/ StoreFails(r) \/ GetReturns(r) \/ DeleteFails(r) \/ SelectAll(r)
             \/ RotateLoop(r) \/ RotateFails(r)
      PROVE  store' = store
  BY <1>5 DEF StoreFails, GetReturns, DeleteFails, SelectAll, RotateLoop, RotateFails
<1>6. ASSUME NEW here, NEW found, NEW missing, Select(r, here, found, missing)
      PROVE  store' = store
  BY <1>6 DEF Select
<1> QED BY <1>1, <1>2, <1>3, <1>4, <1>5, <1>6 DEF Step

LEMMA StoresAndReadsStep ==
  ASSUME TypeOK, StoresAndReads, Ops \cap {"delete", "rotate"} = {},
         NEW r \in Requests, Step(r) \/ Request(r)
  PROVE  StoresAndReads' /\ ~DeleteCommits(r)
<1> DEFINE Fine(pc) == pc \in {"idle", "s_select", "s_commit", "g_select", "g_decrypt"}
<1>1. Fine(reqs[r].pc)
  BY DEF StoresAndReads
<1>2. \A q \in Requests \ {r} : reqs'[q] = reqs[q]
  BY OwnSession
<1>3. Fine(reqs'[r].pc)
  <2>1. ASSUME Done(r) PROVE Fine(reqs'[r].pc)
    BY <2>1 DEF Done, Idle, TypeOK
  <2>2. CASE StoreUpdates(r) \/ StoreInserts(r) \/ StoreFails(r) \/ GetReturns(r)
    BY <2>1, <2>2 DEF StoreUpdates, StoreInserts, StoreFails, GetReturns
  <2>3. ASSUME NEW here, NEW found \in {"s_commit", "g_decrypt"}, NEW missing \in {"s_commit", "idle"},
               Select(r, here, found, missing)
        PROVE  Fine(reqs'[r].pc)
    <3>1. ASSUME NEW k, reqs' = [reqs EXCEPT ![r].pc = found, ![r].pk = k,
                     ![r].cipher = IF found = "g_decrypt" THEN store[k].cipher ELSE @]
          PROVE  reqs'[r].pc = found
      BY <3>1 DEF TypeOK, Session
    <3>2. ASSUME reqs' = [reqs EXCEPT ![r] = IF missing = "idle" THEN Idle ELSE [@ EXCEPT !.pc = missing]]
          PROVE  reqs'[r].pc \in {"idle", "s_commit"}
      <4>1. reqs'[r] = IF missing = "idle" THEN Idle ELSE [reqs[r] EXCEPT !.pc = missing]
        BY <3>2 DEF TypeOK
      <4>2. [reqs[r] EXCEPT !.pc = missing].pc = missing
        BY DEF TypeOK, Session
      <4> QED BY <4>1, <4>2 DEF Idle
    <3> QED BY <2>3, <3>1, <3>2 DEF Select
  <2>4. ASSUME Request(r) PROVE Fine(reqs'[r].pc)
    <3>1. ASSUME NEW a \in Apps, NEW v \in Values[a], StartStore(r, a, v) PROVE Fine(reqs'[r].pc)
      BY <3>1 DEF StartStore, Accept, Idle, TypeOK
    <3>2. ASSUME NEW a \in Apps, StartGet(r, a) PROVE Fine(reqs'[r].pc)
      BY <3>2 DEF StartGet, Accept, Idle, TypeOK
    <3> QED BY <2>4, <3>1, <3>2 DEF Request, StartDelete, StartRotate, Start
  <2>5. ~(\/ Select(r, "d_select", "d_commit", "idle") \/ DeleteCommits(r) \/ DeleteFails(r)
          \/ SelectAll(r) \/ RotateLoop(r) \/ RotateCommits(r) \/ RotateFails(r))
    BY <1>1 DEF Select, DeleteCommits, DeleteFails, SelectAll, RotateLoop, RotateCommits, RotateFails
  <2> QED BY <2>2, <2>3, <2>4, <2>5 DEF Step
<1>4. ~DeleteCommits(r)
  BY <1>1 DEF DeleteCommits
<1> QED BY <1>2, <1>3, <1>4 DEF StoresAndReads

(***************************************************************************)
(* A step of one handler leaves alone what another relies on: there is no  *)
(* other, or it is a store whose record nobody takes away.                 *)
(***************************************************************************)
LEMMA OthersKept ==
  ASSUME OneAtATime \/ Ops \cap {"delete", "rotate"} = {}, TypeOK, StoredInv,
         NEW r \in Requests, Step(r) \/ (Request(r) /\ UNCHANGED store)
  PROVE  /\ IF OneAtATime THEN Serial' ELSE StoresAndReads'
         /\ \A q \in Requests \ {r} : Kept(q)'
<1>1. CASE OneAtATime
  <2>1. Serial' /\ Alone(r)'
    BY <1>1, AloneStep DEF StoredInv
  <2>2. \A q \in Requests \ {r} : Kept(q)'
    BY <2>1 DEF Alone, Kept, Idle
  <2> QED BY <1>1, <2>1, <2>2
<1>2. CASE ~OneAtATime
  <2>1. StoresAndReads /\ StoresAndReads' /\ ~DeleteCommits(r)
    BY <1>2, StoresAndReadsStep DEF StoredInv
  <2>2. Used \subseteq Used' /\ \A k \in Used : store'[k].app = store[k].app
    BY <2>1, RecordsStay DEF Used
  <2>3. \A q \in Requests \ {r} : reqs'[q] = reqs[q]
    BY OwnSession
  <2>4. \A q \in Requests \ {r} : Kept(q)'
    BY <2>1, <2>2, <2>3 DEF StoredInv, StoresAndReads, Kept
  <2> QED BY <1>2, <2>1, <2>4
<1> QED BY <1>1, <1>2

LEMMA StoredInvStep ==
  ASSUME OneAtATime \/ Ops \cap {"delete", "rotate"} = {}, TypeOK, StoredInv, AppsDiffer', [Next]_svars
  PROVE  StoredInv'
<1>1. ASSUME NEW r \in Requests, Step(r)
      PROVE  StoredInv'
  <2>1. Stored' /\ Kept(r)'
    BY <1>1, StoredStep DEF StoredInv
  <2> QED BY <1>1, <2>1, OthersKept DEF StoredInv
<1>2. ASSUME NEW r \in Requests, Request(r)
      PROVE  StoredInv'
  <2>2. UNCHANGED <<store, latest>>
    BY <1>2 DEF Request, StartStore, StartGet, StartDelete, StartRotate, Accept
  <2>3. Stored'
    BY <2>2 DEF StoredInv, Stored, Used
  <2>4. /\ IF OneAtATime THEN Serial' ELSE StoresAndReads'
        /\ \A q \in Requests \ {r} : Kept(q)'
    BY <1>2, <2>2, OthersKept
  <2>5. Kept(r)'
    <3>1. ASSUME NEW s, s.pc \in {"g_select", "d_select", "r_select"} \/ (s.pc = "s_select" /\ s.pk = 0),
                 Accept(r, s)
          PROVE  Kept(r)'
      BY <3>1 DEF Accept, Kept, TypeOK
    <3>2. ASSUME NEW a \in Apps, NEW v \in Values[a], StartStore(r, a, v)
          PROVE  Kept(r)'
      BY <3>1, <3>2 DEF StartStore, Idle
    <3>3. ASSUME NEW a \in Apps, StartGet(r, a) \/ StartDelete(r, a)
          PROVE  Kept(r)'
      BY <3>1, <3>3 DEF StartGet, StartDelete, Idle
    <3>4. ASSUME NEW k \in Keys, StartRotate(r, k)
          PROVE  Kept(r)'
      BY <3>1, <3>4 DEF StartRotate, Idle
    <3> QED BY <1>2, <3>2, <3>3, <3>4 DEF Request
  <2> QED BY <2>3, <2>4, <2>5 DEF StoredInv
<1>3. CASE UpdateEnvironment \/ Restart \/ UNCHANGED svars
  <2>1. UNCHANGED <<store, latest>> /\ (reqs' = reqs \/ reqs' = [r \in Requests |-> Idle])
    BY <1>3 DEF UpdateEnvironment, Restart, svars
  <2>2. Stored'
    BY <2>1 DEF StoredInv, Stored, Used
  <2>3. CASE reqs' = reqs
    <3>1. /\ IF OneAtATime THEN Serial' ELSE StoresAndReads'
          /\ \A r \in Requests : Kept(r)'
      BY <2>1, <2>3 DEF StoredInv, Serial, StoresAndReads, Kept, Used
    <3> QED BY <2>2, <3>1 DEF StoredInv
  <2>4. CASE reqs' = [r \in Requests |-> Idle]
    <3>1. Serial' /\ StoresAndReads' /\ \A r \in Requests : Kept(r)'
      BY <2>4 DEF Serial, StoresAndReads, Kept, Idle
    <3> QED BY <2>2, <3>1 DEF StoredInv
  <2> QED BY <2>1, <2>3, <2>4
<1> QED BY <1>1, <1>2, <1>3 DEF Next

(***************************************************************************)
(* When clients send one request after the other, the table holds for      *)
(* every app what the last successful store gave it, through rotations,    *)
(* failed commits and crashes.  So it does when stores and reads overlap   *)
(* in any way: it is deletions and rotations that must not overlap others. *)
(***************************************************************************)
THEOREM LatestKept ==
  ASSUME OneAtATime \/ Ops \cap {"delete", "rotate"} = {}
  PROVE  Spec => []LatestIsStored
<1>1. TypeOK /\ StoredInv /\ AppsDiffer' /\ [Next]_svars => StoredInv'
  BY StoredInvStep
<1>2. TypeOK /\ StoredInv => LatestIsStored
  <2> SUFFICES ASSUME TypeOK, StoredInv, NEW a \in Apps
               PROVE  IF latest[a] = NoVal
                      THEN RecordsOf(a) = {}
                      ELSE \E k \in Used : RecordsOf(a) = {k} /\ store[k].cipher.val = latest[a]
    BY DEF LatestIsStored
  <2>1. CASE latest[a] = NoVal
    <3>1. \A k \in Used : store[k].cipher.val # NoVal
      BY UsedType, SecretAssumption DEF Cipher, AllVals
    <3> QED BY <2>1, <3>1 DEF StoredInv, Stored, RecordsOf
  <2>2. CASE latest[a] # NoVal
    <3>1. PICK k \in Used : store[k].app = a
      BY <2>2 DEF StoredInv, Stored
    <3>2. RecordsOf(a) = {k} /\ store[k].cipher.val = latest[a]
      BY <3>1 DEF StoredInv, AppsDiffer, Stored, RecordsOf
    <3> QED BY <2>2, <3>2
  <2> QED BY <2>1, <2>2
<1> QED BY <1>1, <1>2, StoredInit, TypeCorrect, AppsDifferAlways, PTL DEF Spec

--------------------------------------------------------------------------------
(* One key for all records *)

Under(k0) == \A k \in Used : store[k].cipher.key = k0

(***************************************************************************)
(* A store holds a ciphertext under the key in memory.  A rotation that    *)
(* has switched the key, and ran with the one of the records, is about to  *)
(* rewrite every one of them under the key now in memory.                  *)
(***************************************************************************)
Keyed(r) ==
  /\ reqs[r].pc \in {"s_select", "s_commit"} => reqs[r].cipher.key = key
  /\ reqs[r].pc = "r_commit" => key = reqs[r].key
  /\ reqs[r].pc = "r_commit" /\ tableKey # NoKey =>
       \A k \in Used : reqs[r].rows[k] # NoCipher /\ reqs[r].rows[k].key = reqs[r].key

KeyInv == AllUnderTheKey /\ \A r \in Requests : Keyed(r)

LEMMA KeyInit == Init => KeyInv
  BY DEF Init, KeyInv, Keyed, AllUnderTheKey, Used, Idle

LEMMA KeyStep ==
  ASSUME OneAtATime, TypeOK, StoredInv, KeyInv, NEW r \in Requests, Step(r)
  PROVE  AllUnderTheKey' /\ Keyed(r)'
<1> USE DEF TypeOK
<1>0. Keyed(r) /\ Kept(r) /\ AllUnderTheKey
  BY DEF KeyInv, StoredInv
<1>1. ASSUME store' = store, tableKey' \in {tableKey, NoKey}
      PROVE  AllUnderTheKey'
  BY <1>0, <1>1 DEF AllUnderTheKey, Used
<1>2. ASSUME Done(r)
      PROVE  Keyed(r)'
  BY <1>2 DEF Done, Keyed, Idle
<1>3. CASE StoreFails(r) \/ GetReturns(r) \/ DeleteFails(r) \/ RotateFails(r)
  BY <1>1, <1>2, <1>3 DEF StoreFails, GetReturns, DeleteFails, RotateFails
<1>4. CASE StoreUpdates(r)
  <2> DEFINE k == reqs[r].pk  c == reqs[r].cipher
  <2>1. k \in Used /\ store' = [store EXCEPT ![k].cipher = c] /\ UnderOneKey(c.key)
    BY <1>4 DEF StoreUpdates
  <2>2. \A j \in Used' : j \in Used /\ (j # k => store'[j] = store[j])
    BY <2>1 DEF Used
  <2>3. store'[k].cipher = c
    BY <2>1, UsedType DEF Used, Record
  <2> HIDE DEF k, c
  <2>4. AllUnderTheKey'
    BY <1>0, <2>1, <2>2, <2>3 DEF AllUnderTheKey, UnderOneKey
  <2> QED BY <1>2, <1>4, <2>4 DEF StoreUpdates
<1>5. CASE StoreInserts(r)
  <2> DEFINE new == [app |-> reqs[r].app, cipher |-> reqs[r].cipher]
  <2>1. PICK k \in Pks : store' = [store EXCEPT ![k] = new]
    BY <1>5 DEF StoreInserts
  <2>2. UnderOneKey(new.cipher.key)
    BY <1>5 DEF StoreInserts
  <2> HIDE DEF new
  <2>3. AllUnderTheKey'
    BY <1>0, <2>1, <2>2 DEF AllUnderTheKey, UnderOneKey, Used
  <2> QED BY <1>2, <1>5, <2>3 DEF StoreInserts
<1>6. CASE DeleteCommits(r)
  <2>1. AllUnderTheKey'
    BY <1>0, <1>6 DEF DeleteCommits, AllUnderTheKey, Used
  <2> QED BY <1>2, <1>6, <2>1 DEF DeleteCommits
<1>7. CASE SelectAll(r)
  <2>1. reqs'[r].pc = "r_loop"
    BY <1>7 DEF SelectAll, Session
  <2> QED BY <1>1, <1>7, <2>1 DEF SelectAll, Keyed
<1>8. CASE RotateLoop(r)
  <2>1. /\ reqs'[r].pc = "r_commit" /\ reqs'[r].key = reqs[r].key
        /\ reqs'[r].rows = Reencrypted(reqs[r].rows, key, reqs[r].key)
    BY <1>8 DEF RotateLoop, Session
  <2>2. store' = store /\ key' = reqs[r].key /\ UnderOneKey(key)
    BY <1>8 DEF RotateLoop
  <2>3. /\ \A k \in Pks : reqs[r].rows[k] = store[k].cipher
        /\ reqs[r].key \in Keys
    BY <1>0, <1>8 DEF RotateLoop, Kept
  <2>4. ASSUME tableKey' # NoKey, NEW k \in Used
        PROVE  reqs'[r].rows[k] # NoCipher /\ reqs'[r].rows[k].key = reqs[r].key
    <3>1. store[k].cipher.key = key
      BY <1>0, <2>2, <2>4 DEF AllUnderTheKey, UnderOneKey
    <3>2. Decrypts(store[k].cipher, key)
      BY <3>1, UsedType, CipherIsSome DEF Decrypts
    <3>3. reqs'[r].rows[k] = Encrypt(store[k].cipher.val, reqs[r].key)
      BY <2>1, <2>3, <3>2 DEF Reencrypted, Used
    <3>4. NoCipher.key = NoKey /\ reqs[r].key # NoKey
      BY <2>3, SecretAssumption DEF NoCipher
    <3>5. Encrypt(store[k].cipher.val, reqs[r].key).key = reqs[r].key
      BY DEF Encrypt
    <3> QED BY <3>3, <3>4, <3>5
  <2>5. Used' = Used
    BY <2>2 DEF Used
  <2>6. Keyed(r)'
    BY <2>1, <2>2, <2>4, <2>5 DEF Keyed
  <2>7. tableKey' \in {tableKey, NoKey}
    BY <2>2 DEF UnderOneKey
  <2> QED BY <1>1, <2>2, <2>6, <2>7
<1>9. CASE RotateCommits(r)
  <2>1. reqs[r].pc = "r_commit" /\ tableKey' = IF tableKey = NoKey THEN NoKey ELSE reqs[r].key
    BY <1>9 DEF RotateCommits
  <2>2. ASSUME tableKey # NoKey
        PROVE  \A k \in Used : k \in Rewritten(r) /\ reqs[r].rows[k].key = reqs[r].key
    BY <1>0, <2>1, <2>2 DEF Keyed, Rewritten, Used
  <2>3. ASSUME tableKey # NoKey, NEW k \in Used
        PROVE  store'[k].cipher.key = reqs[r].key
    <3>1. store[k] \in Record /\ k \in Pks
      BY UsedType DEF Used
    <3>2. store'[k] = [store[k] EXCEPT !.cipher = reqs[r].rows[k]]
      BY <1>9, <2>2, <2>3, <3>1 DEF RotateCommits
    <3> QED BY <2>2, <2>3, <3>1, <3>2 DEF Record
  <2>4. Used' \subseteq Used
    BY <1>9 DEF RotateCommits, Used
  <2>5. AllUnderTheKey'
    BY <2>1, <2>3, <2>4 DEF AllUnderTheKey
  <2> QED BY <1>2, <1>9, <2>5 DEF RotateCommits
<1>10. ASSUME NEW here \in {"s_select", "g_select", "d_select"},
              NEW found \in {"s_commit", "g_decrypt", "d_commit"},
              NEW missing \in {"idle", "s_commit"},
              Select(r, here, found, missing),
              found = "s_commit" \/ missing = "s_commit" => here = "s_select"
       PROVE  AllUnderTheKey' /\ Keyed(r)'
  <2>1. UNCHANGED <<store, key, tableKey>> /\ reqs[r].pc = here
    BY <1>10 DEF Select
  <2>2. ASSUME NEW k,
               reqs' = [reqs EXCEPT ![r].pc = found, ![r].pk = k,
                          ![r].cipher = IF found = "g_decrypt" THEN store[k].cipher ELSE @]
        PROVE  Keyed(r)'
    <3>1. reqs'[r].pc = found /\ (found # "g_decrypt" => reqs'[r].cipher = reqs[r].cipher)
      BY <2>2 DEF Session
    <3> QED BY <1>0, <1>10, <2>1, <3>1 DEF Keyed
  <2>3. ASSUME reqs' = [reqs EXCEPT ![r] = IF missing = "idle" THEN Idle ELSE [@ EXCEPT !.pc = missing]]
        PROVE  Keyed(r)'
    <3>1. CASE missing = "idle"
      BY <1>2, <2>3, <3>1 DEF Done
    <3>2. CASE missing = "s_commit"
      <4>1. reqs'[r] = [reqs[r] EXCEPT !.pc = missing]
        BY <2>3, <3>2
      <4>2. reqs'[r].pc = "s_commit" /\ reqs'[r].cipher = reqs[r].cipher
        BY <3>2, <4>1 DEF Session
      <4> QED BY <1>0, <1>10, <2>1, <3>2, <4>2 DEF Keyed
    <3> QED BY <3>1, <3>2
  <2> QED BY <1>1, <1>10, <2>1, <2>2, <2>3 DEF Select
<1>11. CASE \/ Select(r, "s_select", "s_commit", "s_commit")
            \/ Select(r, "g_select", "g_decrypt", "idle")
            \/ Select(r, "d_select", "d_commit", "idle")
  BY <1>10, <1>11
<1> QED
  BY <1>3, <1>4, <1>5, <1>6, <1>7, <1>8, <1>9, <1>11 DEF Step

LEMMA KeyRequest ==
  ASSUME TypeOK, NEW r \in Requests, Request(r)
  PROVE  Keyed(r)' /\ UNCHANGED <<store, key, tableKey>>
<1>1. ASSUME NEW s, Accept(r, s), s.pc \in {"g_select", "d_select", "r_select"}
               \/ (s.pc = "s_select" /\ s.cipher.key = key)
      PROVE  Keyed(r)' /\ UNCHANGED <<store, key, tableKey>>
  BY <1>1 DEF Accept, TypeOK, Keyed
<1>2. ASSUME NEW a \in Apps, NEW v \in Values[a], StartStore(r, a, v)
      PROVE  Keyed(r)' /\ UNCHANGED <<store, key, tableKey>>
  BY <1>1, <1>2 DEF StartStore, Idle, Encrypt
<1>3. ASSUME NEW a \in Apps, StartGet(r, a) \/ StartDelete(r, a)
      PROVE  Keyed(r)' /\ UNCHANGED <<store, key, tableKey>>
  BY <1>1, <1>3 DEF StartGet, StartDelete, Idle
<1>4. ASSUME NEW k \in Keys, StartRotate(r, k)
      PROVE  Keyed(r)' /\ UNCHANGED <<store, key, tableKey>>
  BY <1>1, <1>4 DEF StartRotate, Idle
<1> QED BY <1>2, <1>3, <1>4 DEF Request

LEMMA KeyInvStep ==
  ASSUME OneAtATime, TypeOK, StoredInv, KeyInv, [Next]_svars
  PROVE  KeyInv'
<1>1. ASSUME UNCHANGED <<store, tableKey>>
      PROVE  AllUnderTheKey'
  BY <1>1 DEF KeyInv, AllUnderTheKey, Used
<1>2. ASSUME NEW r \in Requests, Step(r) \/ Request(r)
      PROVE  KeyInv'
  <2>1. Alone(r)'
    BY <1>2, AloneStep DEF StoredInv
  <2>2. \A q \in Requests \ {r} : Keyed(q)'
    BY <2>1 DEF Alone, Keyed, Idle
  <2>3. AllUnderTheKey' /\ Keyed(r)'
    BY <1>1, <1>2, KeyStep, KeyRequest
  <2> QED BY <2>2, <2>3 DEF KeyInv
<1>3. CASE UpdateEnvironment \/ UNCHANGED svars
  BY <1>1, <1>3 DEF UpdateEnvironment, svars, KeyInv, Keyed, Used
<1>4. CASE Restart
  <2>1. UNCHANGED <<store, tableKey>> /\ reqs' = [r \in Requests |-> Idle]
    BY <1>4 DEF Restart
  <2>2. \A r \in Requests : Keyed(r)'
    BY <2>1 DEF Keyed, Idle
  <2> QED BY <1>1, <2>1, <2>2 DEF KeyInv
<1> QED BY <1>2, <1>3, <1>4 DEF Next

LEMMA KeyInvAlways == OneAtATime => (Spec => []KeyInv)
<1> SUFFICES ASSUME OneAtATime PROVE Spec => []KeyInv
  OBVIOUS
<1>1. TypeOK /\ StoredInv /\ AppsDiffer' /\ [Next]_svars => StoredInv'
  BY StoredInvStep
<1>2. TypeOK /\ StoredInv /\ KeyInv /\ [Next]_svars => KeyInv'
  BY KeyInvStep
<1> QED BY <1>1, <1>2, KeyInit, StoredInit, TypeCorrect, AppsDifferAlways, PTL DEF Spec

(***************************************************************************)
(* When clients send one request after the other, all records are under    *)
(* the key of the last rotation that was committed, whatever the operator  *)
(* sets, whatever commits fail and whenever the sidecar is restarted, also *)
(* between a rotation and the update of the environment.                   *)
(***************************************************************************)
THEOREM RecordsUnderTheKey ==
  ASSUME OneAtATime
  PROVE  Spec => []AllUnderTheKey
<1>1. KeyInv => AllUnderTheKey
  BY DEF KeyInv
<1> QED BY <1>1, KeyInvAlways, PTL

(***************************************************************************)
(* When clients send one request after the other, the key in memory leaves *)
(* the records only when the commit of a rotation fails or the sidecar is  *)
(* restarted with another key in its environment.                          *)
(***************************************************************************)
THEOREM KeyStaysWithRecords ==
  ASSUME OneAtATime
  PROVE  Spec => KeyFollowsRecords
<1> DEFINE Left == (\E r \in Requests : RotateFails(r)) \/ (Restart /\ envKey # tableKey)
<1>1. TypeOK /\ StoredInv /\ AppsDiffer' /\ [Next]_svars => StoredInv'
  BY StoredInvStep
<1>2. ASSUME TypeOK, StoredInv, KeyInv, InStep, [Next]_svars
      PROVE  InStep' \/ Left
  <2>0. tableKey # NoKey
    BY <1>2 DEF InStep
  <2>1. ASSUME NEW r \in Requests, Step(r) \/ Request(r)
        PROVE  InStep' \/ Left
    <3>1. Alone(r)
      BY <1>2, <2>1, AloneStep DEF StoredInv
    <3>2. reqs[r].pc = "r_commit" \/ key = tableKey
      BY <1>2, <3>1 DEF InStep, Alone, Idle
    <3>3. ASSUME UNCHANGED <<key, tableKey>>, reqs[r].pc # "r_commit"
          PROVE  InStep'
      BY <2>0, <3>2, <3>3 DEF InStep
    <3>4. CASE Request(r)
      <4>1. reqs[r] = Idle
        BY <3>4 DEF Request, StartStore, StartGet, StartDelete, StartRotate, Start
      <4> QED BY <1>2, <3>3, <3>4, <4>1, KeyRequest DEF Idle
    <3>5. CASE StoreUpdates(r) \/ StoreInserts(r)
      <4>1. reqs[r].pc = "s_commit" /\ UnderOneKey(reqs[r].cipher.key) /\ key' = key
        BY <3>5 DEF StoreUpdates, StoreInserts
      <4>2. reqs[r].cipher.key = key
        BY <1>2, <4>1 DEF KeyInv, Keyed
      <4> QED BY <3>2, <3>3, <4>1, <4>2 DEF UnderOneKey
    <3>6. CASE RotateLoop(r)
      <4>1. reqs[r].pc = "r_loop" /\ UnderOneKey(key)
        BY <3>6 DEF RotateLoop
      <4>2. reqs'[r].pc = "r_commit"
        BY <1>2, <3>6 DEF RotateLoop, TypeOK, Session
      <4> QED BY <2>0, <3>2, <4>1, <4>2 DEF UnderOneKey, InStep
    <3>7. CASE RotateCommits(r)
      <4>1. key = reqs[r].key /\ reqs[r].key \in Keys
        BY <1>2, <3>7 DEF RotateCommits, KeyInv, Keyed, TypeOK
      <4>2. key' = key /\ tableKey' = reqs[r].key
        BY <2>0, <3>7 DEF RotateCommits
      <4> QED BY <4>1, <4>2, SecretAssumption DEF InStep
    <3>8. CASE StoreFails(r) \/ GetReturns(r) \/ DeleteCommits(r) \/ DeleteFails(r) \/ SelectAll(r)
      BY <3>3, <3>8 DEF StoreFails, GetReturns, DeleteCommits, DeleteFails, SelectAll
    <3>9. ASSUME NEW here \in {"s_select", "g_select", "d_select"}, NEW found, NEW missing,
                 Select(r, here, found, missing)
          PROVE  InStep'
      BY <3>3, <3>9 DEF Select
    <3> QED BY <2>1, <3>4, <3>5, <3>6, <3>7, <3>8, <3>9 DEF Step
  <2>2. CASE UpdateEnvironment \/ UNCHANGED svars
    BY <1>2, <2>2 DEF UpdateEnvironment, svars, InStep
  <2>3. CASE Restart
    BY <2>0, <2>3 DEF Restart, InStep
  <2> QED BY <1>2, <2>1, <2>2, <2>3 DEF Next
<1>3. TypeOK /\ StoredInv /\ KeyInv /\ [Next]_svars => [InStep => InStep' \/ Left]_svars
  BY <1>2
<1> QED
  BY <1>1, <1>3, KeyInvAlways, StoredInit, TypeCorrect, AppsDifferAlways, PTL DEF Spec, KeyFollowsRecords

--------------------------------------------------------------------------------
(* Reads *)

(***************************************************************************)
(* The ciphertext a read holds is the one in the record of its app.        *)
(***************************************************************************)
Reading(r) ==
  reqs[r].pc = "g_decrypt" =>
    /\ reqs[r].pk \in Used
    /\ store[reqs[r].pk].app = reqs[r].app
    /\ reqs[r].cipher = store[reqs[r].pk].cipher

LEMMA ReadingStep ==
  ASSUME OneAtATime, TypeOK, StoredInv, \A r \in Requests : Reading(r), [Next]_svars
  PROVE  \A r \in Requests : Reading(r)'
<1>1. ASSUME NEW r \in Requests, Step(r) \/ Request(r)
      PROVE  \A q \in Requests : Reading(q)'
  <2>1. Alone(r)'
    BY <1>1, AloneStep DEF StoredInv
  <2>2. \A q \in Requests \ {r} : Reading(q)'
    BY <2>1 DEF Alone, Reading, Idle
  <2>3. Reading(r)'
    <3>1. ASSUME reqs'[r].pc # "g_decrypt" PROVE Reading(r)'
      BY <3>1 DEF Reading
    <3>2. ASSUME Done(r) PROVE Reading(r)'
      BY <3>1, <3>2 DEF Done, Idle, TypeOK
    <3>3. CASE Request(r)
      <4>1. ASSUME NEW a \in Apps, NEW v \in Values[a], StartStore(r, a, v) PROVE Reading(r)'
        BY <3>1, <4>1 DEF StartStore, Accept, Idle, TypeOK
      <4>2. ASSUME NEW a \in Apps, StartGet(r, a) \/ StartDelete(r, a) PROVE Reading(r)'
        BY <3>1, <4>2 DEF StartGet, StartDelete, Accept, Idle, TypeOK
      <4>3. ASSUME NEW k \in Keys, StartRotate(r, k) PROVE Reading(r)'
        BY <3>1, <4>3 DEF StartRotate, Accept, Idle, TypeOK
      <4> QED BY <3>3, <4>1, <4>2, <4>3 DEF Request
    <3>4. CASE \/ StoreUpdates(r) \/ StoreInserts(r) \/ StoreFails(r) \/ GetReturns(r)
               \/ DeleteCommits(r) \/ DeleteFails(r) \/ RotateCommits(r) \/ RotateFails(r)
      BY <3>2, <3>4 DEF StoreUpdates, StoreInserts, StoreFails, GetReturns, DeleteCommits,
                        DeleteFails, RotateCommits, RotateFails
    <3>5. CASE SelectAll(r) \/ RotateLoop(r)
      BY <3>1, <3>5 DEF SelectAll, RotateLoop, TypeOK, Session
    <3>6. ASSUME NEW here \in {"s_select", "g_select", "d_select"},
                 NEW found \in {"s_commit", "g_decrypt", "d_commit"},
                 NEW missing \in {"idle", "s_commit"},
                 Select(r, here, found, missing)
          PROVE  Reading(r)'
      <4>1. ASSUME NEW k \in RecordsOf(reqs[r].app),
                   reqs' = [reqs EXCEPT ![r].pc = found, ![r].pk = k,
                              ![r].cipher = IF found = "g_decrypt" THEN store[k].cipher ELSE @]
            PROVE  Reading(r)'
        <5>1. /\ reqs'[r].pc = found /\ reqs'[r].pk = k /\ reqs'[r].app = reqs[r].app
              /\ found = "g_decrypt" => reqs'[r].cipher = store[k].cipher
          BY <4>1 DEF TypeOK, Session
        <5>2. store' = store /\ Used' = Used /\ k \in Used /\ store[k].app = reqs[r].app
          BY <3>6 DEF Select, RecordsOf, Used
        <5> QED BY <5>1, <5>2 DEF Reading
      <4>2. ASSUME reqs' = [reqs EXCEPT ![r] = IF missing = "idle" THEN Idle ELSE [@ EXCEPT !.pc = missing]]
            PROVE  Reading(r)'
        <5>1. reqs'[r] = IF missing = "idle" THEN Idle ELSE [reqs[r] EXCEPT !.pc = missing]
          BY <4>2 DEF TypeOK
        <5>2. [reqs[r] EXCEPT !.pc = missing].pc = missing
          BY DEF TypeOK, Session
        <5>3. reqs'[r].pc # "g_decrypt"
          BY <5>1, <5>2 DEF Idle
        <5> QED BY <3>1, <5>3
      <4> QED BY <3>6, <4>1, <4>2 DEF Select
    <3> QED BY <1>1, <3>3, <3>4, <3>5, <3>6 DEF Step
  <2> QED BY <2>2, <2>3
<1>2. CASE Restart
  <2>1. reqs' = [r \in Requests |-> Idle]
    BY <1>2 DEF Restart
  <2> QED BY <2>1 DEF Reading, Idle
<1>3. CASE UpdateEnvironment \/ UNCHANGED svars
  BY <1>3 DEF UpdateEnvironment, svars, Reading, Used
<1> QED BY <1>1, <1>2, <1>3 DEF Next

(***************************************************************************)
(* When clients send one request after the other, a read that finds a      *)
(* record returns what was last stored, or a 500; a 500 only when the key  *)
(* in memory is not the one of the records.                                *)
(***************************************************************************)
THEOREM ReadsReturnLatest ==
  ASSUME OneAtATime
  PROVE  Spec => ReadsLatest
<1> DEFINE Reads == \A r \in Requests : Reading(r)
           Latest(r) ==
             GetReturns(r) =>
               /\ key = tableKey => Decrypts(reqs[r].cipher, key)
               /\ Decrypts(reqs[r].cipher, key) => reqs[r].cipher.val = latest[reqs[r].app]
<1>1. TypeOK /\ StoredInv /\ AppsDiffer' /\ [Next]_svars => StoredInv'
  BY StoredInvStep
<1>2. TypeOK /\ StoredInv /\ Reads /\ [Next]_svars => Reads'
  BY ReadingStep
<1>3. Init => Reads
  BY DEF Init, Reading, Idle
<1>4. TypeOK /\ StoredInv /\ KeyInv /\ Reads /\ [Next]_svars => [\A r \in Requests : Latest(r)]_svars
  <2> SUFFICES ASSUME TypeOK, StoredInv, KeyInv, Reads, NEW r \in Requests, GetReturns(r)
               PROVE  /\ key = tableKey => Decrypts(reqs[r].cipher, key)
                      /\ reqs[r].cipher.val = latest[reqs[r].app]
    OBVIOUS
  <2> DEFINE k == reqs[r].pk
  <2>1. k \in Used /\ store[k].app = reqs[r].app /\ reqs[r].cipher = store[k].cipher
    BY DEF GetReturns, Reading
  <2>2. store[k].cipher # NoCipher
    BY <2>1, UsedType, CipherIsSome
  <2>3. key = tableKey => store[k].cipher.key = key
    BY <2>1, SecretAssumption DEF KeyInv, AllUnderTheKey, TypeOK
  <2>4. latest[store[k].app] = store[k].cipher.val
    BY <2>1 DEF StoredInv, Stored
  <2> QED BY <2>1, <2>2, <2>3, <2>4 DEF Decrypts
<1> QED
  BY <1>1, <1>2, <1>3, <1>4, KeyInvAlways, StoredInit, TypeCorrect, AppsDifferAlways, PTL
  DEF Spec, ReadsLatest

--------------------------------------------------------------------------------
(* No secret of another app *)

(***************************************************************************)
(* What a handler holds belongs to the app it is for: the secret to store, *)
(* the record found, and for each record the secret a rotation rewrites.   *)
(***************************************************************************)
Ours(r) ==
  /\ reqs[r].pc \in {"s_select", "s_commit"} => reqs[r].cipher.val \in Values[reqs[r].app]
  /\ reqs[r].pc = "s_select" => reqs[r].pk = 0
  /\ reqs[r].pc = "s_commit" =>
       reqs[r].pk = 0 \/ (reqs[r].pk \in Used /\ store[reqs[r].pk].app = reqs[r].app)
  /\ reqs[r].pc \in {"r_loop", "r_commit"} =>
       \A k \in Pks : reqs[r].rows[k] # NoCipher =>
         k \in Used /\ reqs[r].rows[k].val \in Values[store[k].app]

NoDeletes == \A r \in Requests : reqs[r].pc \notin {"d_select", "d_commit"}

OwnInv ==
  /\ OwnSecret
  /\ \A r \in Requests : Ours(r)
  /\ IF OneAtATime THEN Serial ELSE NoDeletes

LEMMA OursStep ==
  ASSUME TypeOK, OwnSecret, NEW r \in Requests, Ours(r), Step(r)
  PROVE  OwnSecret' /\ Ours(r)'
<1> USE DEF TypeOK
<1>1. ASSUME store' = store
      PROVE  OwnSecret' /\ Used' = Used
  BY <1>1 DEF OwnSecret, Used
<1>2. ASSUME Done(r)
      PROVE  Ours(r)'
  BY <1>2 DEF Done, Ours, Idle
<1>3. CASE StoreFails(r) \/ GetReturns(r) \/ DeleteFails(r) \/ RotateFails(r)
  BY <1>1, <1>2, <1>3 DEF StoreFails, GetReturns, DeleteFails, RotateFails
<1>4. CASE StoreUpdates(r)
  <2> DEFINE k == reqs[r].pk  c == reqs[r].cipher
  <2>1. reqs[r].pc = "s_commit" /\ k \in Used /\ k # 0 /\ store' = [store EXCEPT ![k].cipher = c]
    BY <1>4, SecretAssumption DEF StoreUpdates, Used, Pks
  <2>2. store[k].app = reqs[r].app /\ c.val \in Values[reqs[r].app] /\ c \in Cipher
    BY <2>1 DEF Ours
  <2>3. store'[k].app = store[k].app /\ store'[k].cipher = c
    BY <2>1, UsedType DEF Used, Record
  <2>4. \A j \in Pks \ {k} : store'[j] = store[j]
    BY <2>1
  <2> HIDE DEF k, c
  <2>5. OwnSecret'
    BY <2>1, <2>2, <2>3, <2>4 DEF OwnSecret, Used
  <2> QED BY <1>2, <1>4, <2>5 DEF StoreUpdates
<1>5. CASE StoreInserts(r)
  <2> DEFINE new == [app |-> reqs[r].app, cipher |-> reqs[r].cipher]
  <2>1. PICK k \in Pks : store' = [store EXCEPT ![k] = new]
    BY <1>5 DEF StoreInserts
  <2>2. new.cipher.val \in Values[new.app]
    BY <1>5 DEF StoreInserts, Ours
  <2> HIDE DEF new
  <2>3. OwnSecret'
    BY <2>1, <2>2 DEF OwnSecret, Used
  <2> QED BY <1>2, <1>5, <2>3 DEF StoreInserts
<1>6. CASE DeleteCommits(r)
  <2>1. OwnSecret'
    BY <1>6 DEF DeleteCommits, OwnSecret, Used
  <2> QED BY <1>2, <1>6, <2>1 DEF DeleteCommits
<1>7. CASE SelectAll(r)
  <2>1. reqs' = [reqs EXCEPT ![r].pc = "r_loop", ![r].rows = [k \in Pks |-> store[k].cipher]]
    BY <1>7 DEF SelectAll
  <2>2. reqs'[r].pc = "r_loop" /\ \A k \in Pks : reqs'[r].rows[k] = store[k].cipher
    BY <2>1 DEF Session
  <2>3. store' = store
    BY <1>7 DEF SelectAll
  <2>4. \A k \in Pks : store[k].cipher # NoCipher => k \in Used
    BY DEF Used, NoRecord
  <2> QED BY <1>1, <2>2, <2>3, <2>4 DEF Ours, OwnSecret
<1>8. CASE RotateLoop(r)
  <2>1. reqs'[r].pc = "r_commit"
        /\ reqs'[r].rows = [k \in Pks |-> IF Decrypts(reqs[r].rows[k], key)
                              THEN Encrypt(reqs[r].rows[k].val, reqs[r].key) ELSE NoCipher]
    BY <1>8 DEF RotateLoop, Reencrypted, Session
  <2>2. store' = store
    BY <1>8 DEF RotateLoop
  <2>3. ASSUME NEW k \in Pks, reqs'[r].rows[k] # NoCipher
        PROVE  k \in Used /\ reqs'[r].rows[k].val \in Values[store[k].app]
    <3>1. Decrypts(reqs[r].rows[k], key)
      BY <2>1, <2>3
    <3>2. reqs'[r].rows[k].val = reqs[r].rows[k].val
      BY <2>1, <3>1 DEF Encrypt
    <3> QED BY <1>8, <3>1, <3>2 DEF Decrypts, Ours, RotateLoop
  <2> QED BY <1>1, <2>1, <2>2, <2>3 DEF Ours
<1>9. CASE RotateCommits(r)
  <2> DEFINE W == Rewritten(r)  R == reqs[r].rows
  <2>1. \A k \in W : k \in Used /\ R[k].val \in Values[store[k].app]
    BY <1>9 DEF RotateCommits, Rewritten, Ours
  <2>2. \A k \in Pks : store'[k] = IF k \in W THEN [store[k] EXCEPT !.cipher = R[k]] ELSE store[k]
    BY <1>9 DEF RotateCommits
  <2>3. \A k \in W : store'[k].app = store[k].app /\ store'[k].cipher = R[k]
    BY <2>1, <2>2, UsedType DEF Record, Used
  <2> HIDE DEF W, R
  <2>4. OwnSecret'
    BY <2>1, <2>2, <2>3 DEF OwnSecret, Used
  <2> QED BY <1>2, <1>9, <2>4 DEF RotateCommits
<1>10. ASSUME NEW here \in {"s_select", "g_select", "d_select"},
              NEW found \in {"s_commit", "g_decrypt", "d_commit"},
              NEW missing \in {"idle", "s_commit"},
              Select(r, here, found, missing),
              found = "s_commit" \/ missing = "s_commit" => here = "s_select"
       PROVE  OwnSecret' /\ Ours(r)'
  <2>1. store' = store /\ reqs[r].pc = here
    BY <1>10 DEF Select
  <2>2. ASSUME NEW k \in RecordsOf(reqs[r].app),
               reqs' = [reqs EXCEPT ![r].pc = found, ![r].pk = k,
                          ![r].cipher = IF found = "g_decrypt" THEN store[k].cipher ELSE @]
        PROVE  Ours(r)'
    <3>1. /\ reqs'[r].pc = found /\ reqs'[r].pk = k /\ reqs'[r].app = reqs[r].app
          /\ found # "g_decrypt" => reqs'[r].cipher = reqs[r].cipher
      BY <2>2 DEF Session
    <3> QED BY <1>1, <1>10, <2>1, <3>1 DEF Ours, RecordsOf
  <2>3. ASSUME reqs' = [reqs EXCEPT ![r] = IF missing = "idle" THEN Idle ELSE [@ EXCEPT !.pc = missing]]
        PROVE  Ours(r)'
    <3>1. CASE missing = "idle"
      BY <1>2, <2>3, <3>1 DEF Done
    <3>2. CASE missing = "s_commit"
      <4>1. reqs'[r] = [reqs[r] EXCEPT !.pc = missing]
        BY <2>3, <3>2
      <4>2. /\ reqs'[r].pc = "s_commit" /\ reqs'[r].pk = reqs[r].pk
            /\ reqs'[r].app = reqs[r].app /\ reqs'[r].cipher = reqs[r].cipher
        BY <3>2, <4>1 DEF Session
      <4> QED BY <1>10, <2>1, <3>2, <4>2 DEF Ours
    <3> QED BY <3>1, <3>2
  <2> QED BY <1>1, <1>10, <2>1, <2>2, <2>3 DEF Select
<1>11. CASE \/ Select(r, "s_select", "s_commit", "s_commit")
            \/ Select(r, "g_select", "g_decrypt", "idle")
            \/ Select(r, "d_select", "d_commit", "idle")
  BY <1>10, <1>11
<1> QED BY <1>3, <1>4, <1>5, <1>6, <1>7, <1>8, <1>9, <1>11 DEF Step

LEMMA OursRequest ==
  ASSUME TypeOK, NEW r \in Requests, Request(r)
  PROVE  Ours(r)'
<1>1. ASSUME NEW s, Accept(r, s), s.pc \in {"g_select", "d_select", "r_select"}
               \/ (s.pc = "s_select" /\ s.pk = 0 /\ s.cipher.val \in Values[s.app])
      PROVE  Ours(r)'
  BY <1>1 DEF Accept, Ours, TypeOK
<1>2. ASSUME NEW a \in Apps, NEW v \in Values[a], StartStore(r, a, v)
      PROVE  Ours(r)'
  BY <1>1, <1>2 DEF StartStore, Idle, Encrypt
<1>3. ASSUME NEW a \in Apps, StartGet(r, a) \/ StartDelete(r, a)
      PROVE  Ours(r)'
  BY <1>1, <1>3 DEF StartGet, StartDelete, Idle
<1>4. ASSUME NEW k \in Keys, StartRotate(r, k)
      PROVE  Ours(r)'
  BY <1>1, <1>4 DEF StartRotate, Idle
<1> QED BY <1>2, <1>3, <1>4 DEF Request

LEMMA NoDeletesStep ==
  ASSUME TypeOK, NoDeletes, "delete" \notin Ops, NEW r \in Requests, Step(r) \/ Request(r)
  PROVE  NoDeletes' /\ ~DeleteCommits(r)
<1> DEFINE Fine(pc) == pc \notin {"d_select", "d_commit"}
<1>1. Fine(reqs[r].pc)
  BY DEF NoDeletes
<1>2. \A q \in Requests \ {r} : reqs'[q] = reqs[q]
  BY OwnSession
<1>3. Fine(reqs'[r].pc)
  <2>1. ASSUME Done(r) PROVE Fine(reqs'[r].pc)
    BY <2>1 DEF Done, Idle, TypeOK
  <2>2. CASE \/ StoreUpdates(r) \/ StoreInserts(r) \/ StoreFails(r) \/ GetReturns(r)
             \/ RotateCommits(r) \/ RotateFails(r)
    BY <2>1, <2>2 DEF StoreUpdates, StoreInserts, StoreFails, GetReturns, RotateCommits, RotateFails
  <2>3. ASSUME NEW here, NEW found \in {"s_commit", "g_decrypt"}, NEW missing \in {"s_commit", "idle"},
               Select(r, here, found, missing)
        PROVE  Fine(reqs'[r].pc)
    <3>1. ASSUME NEW k, reqs' = [reqs EXCEPT ![r].pc = found, ![r].pk = k,
                     ![r].cipher = IF found = "g_decrypt" THEN store[k].cipher ELSE @]
          PROVE  reqs'[r].pc = found
      BY <3>1 DEF TypeOK, Session
    <3>2. ASSUME reqs' = [reqs EXCEPT ![r] = IF missing = "idle" THEN Idle ELSE [@ EXCEPT !.pc = missing]]
          PROVE  reqs'[r].pc \in {"idle", "s_commit"}
      <4>1. reqs'[r] = IF missing = "idle" THEN Idle ELSE [reqs[r] EXCEPT !.pc = missing]
        BY <3>2 DEF TypeOK
      <4>2. [reqs[r] EXCEPT !.pc = missing].pc = missing
        BY DEF TypeOK, Session
      <4> QED BY <4>1, <4>2 DEF Idle
    <3> QED BY <2>3, <3>1, <3>2 DEF Select
  <2>4. ASSUME Request(r) PROVE Fine(reqs'[r].pc)
    <3>1. ASSUME NEW a \in Apps, NEW v \in Values[a], StartStore(r, a, v) PROVE Fine(reqs'[r].pc)
      BY <3>1 DEF StartStore, Accept, Idle, TypeOK
    <3>2. ASSUME NEW a \in Apps, StartGet(r, a) PROVE Fine(reqs'[r].pc)
      BY <3>2 DEF StartGet, Accept, Idle, TypeOK
    <3>3. ASSUME NEW k \in Keys, StartRotate(r, k) PROVE Fine(reqs'[r].pc)
      BY <3>3 DEF StartRotate, Accept, Idle, TypeOK
    <3> QED BY <2>4, <3>1, <3>2, <3>3 DEF Request, StartDelete, Start
  <2>5. CASE SelectAll(r) \/ RotateLoop(r)
    BY <2>5 DEF SelectAll, RotateLoop, TypeOK, Session
  <2>6. ~(Select(r, "d_select", "d_commit", "idle") \/ DeleteCommits(r) \/ DeleteFails(r))
    BY <1>1 DEF Select, DeleteCommits, DeleteFails
  <2> QED BY <2>2, <2>3, <2>4, <2>5, <2>6 DEF Step
<1>4. ~DeleteCommits(r)
  BY <1>1 DEF DeleteCommits
<1> QED BY <1>2, <1>3, <1>4 DEF NoDeletes

LEMMA OwnInvStep ==
  ASSUME OneAtATime \/ "delete" \notin Ops, TypeOK, OwnInv, [Next]_svars
  PROVE  OwnInv'
<1>1. ASSUME NEW r \in Requests, Step(r) \/ Request(r)
      PROVE  OwnInv'
  <2>1. OwnSecret' /\ Ours(r)'
    <3>1. CASE Step(r)
      BY <3>1, OursStep DEF OwnInv
    <3>2. CASE Request(r)
      <4>1. store' = store
        BY <3>2 DEF Request, StartStore, StartGet, StartDelete, StartRotate, Accept
      <4> QED BY <3>2, <4>1, OursRequest DEF OwnInv, OwnSecret, Used
    <3> QED BY <1>1, <3>1, <3>2
  <2>2. CASE OneAtATime
    <3>1. Serial' /\ Alone(r)'
      BY <1>1, <2>2, AloneStep DEF OwnInv
    <3>2. \A q \in Requests \ {r} : Ours(q)'
      BY <3>1 DEF Alone, Ours, Idle
    <3> QED BY <2>1, <2>2, <3>1, <3>2 DEF OwnInv
  <2>3. CASE ~OneAtATime
    <3>1. NoDeletes' /\ ~DeleteCommits(r)
      BY <1>1, <2>3, NoDeletesStep DEF OwnInv
    <3>2. Used \subseteq Used' /\ \A k \in Used : store'[k].app = store[k].app
      <4>1. CASE Step(r)
        BY <3>1, <4>1, RecordsStay
      <4>2. CASE Request(r)
        BY <4>2 DEF Request, StartStore, StartGet, StartDelete, StartRotate, Accept, Used
      <4> QED BY <1>1, <4>1, <4>2
    <3>3. \A q \in Requests \ {r} : reqs'[q] = reqs[q]
      BY <1>1, OwnSession
    <3>4. \A q \in Requests \ {r} : Ours(q)'
      BY <3>2, <3>3 DEF OwnInv, Ours
    <3> QED BY <2>1, <2>3, <3>1, <3>4 DEF OwnInv
  <2> QED BY <2>2, <2>3
<1>2. CASE Restart
  <2>1. store' = store /\ reqs' = [r \in Requests |-> Idle]
    BY <1>2 DEF Restart
  <2>2. OwnSecret'
    BY <2>1 DEF OwnInv, OwnSecret, Used
  <2>3. Serial' /\ NoDeletes' /\ \A r \in Requests : Ours(r)'
    BY <2>1 DEF Serial, NoDeletes, Ours, Idle
  <2> QED BY <2>2, <2>3 DEF OwnInv
<1>3. CASE UpdateEnvironment \/ UNCHANGED svars
  BY <1>3 DEF UpdateEnvironment, svars, OwnInv, OwnSecret, Serial, NoDeletes, Ours, Used
<1> QED BY <1>1, <1>2, <1>3 DEF Next

(***************************************************************************)
(* While nothing is deleted, or one request is made at a time, no app ever *)
(* gets a secret of another, however stores, reads, rotations, failures    *)
(* and restarts overlap: a primary key that a handler holds across its     *)
(* awaits still belongs to the app it was found for.                       *)
(***************************************************************************)
THEOREM SecretsApart ==
  ASSUME OneAtATime \/ "delete" \notin Ops
  PROVE  Spec => []OwnSecret
<1>1. Init => OwnInv
  BY DEF Init, OwnInv, OwnSecret, Ours, Serial, NoDeletes, Used, Idle
<1>2. TypeOK /\ OwnInv /\ [Next]_svars => OwnInv'
  BY OwnInvStep
<1>3. OwnInv => OwnSecret
  BY DEF OwnInv
<1> QED BY <1>1, <1>2, <1>3, TypeCorrect, PTL DEF Spec
================================================================================
