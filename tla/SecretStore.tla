------------------------------ MODULE SecretStore ------------------------------
(***************************************************************************)
(* The secret manager sidecar (sidecar/main.py): one encrypted record per  *)
(* app in an SQLite table, one encryption key in memory, and the handlers  *)
(* store_secrets, get_secrets, delete_secrets and rotate_encryption_key.   *)
(* Each handler awaits a query and then a commit; others run in between.   *)
(* Nothing excludes two handlers at once; OneAtATime states that clients   *)
(* send one request after the other, and nothing else: the process may die *)
(* at any moment and come back with whatever key the environment has.      *)
(*                                                                         *)
(* A ciphertext is the pair of the key and the plaintext it was made from: *)
(* Fernet decrypts it with that key and rejects it under any other.        *)
(***************************************************************************)
EXTENDS Naturals, FiniteSets

CONSTANTS
  Apps,          \* app ids
  Requests,      \* slots for requests in flight
  Keys,          \* encryption keys
  FirstKey,      \* the key in the environment at the first start, or NoKey
  Values,        \* secrets: Values[a] is what clients store for app a
  MaxPk,         \* bound: primary keys are 1..MaxPk
  Ops,           \* the operations clients use, a subset of AllOps
  OneAtATime,    \* TRUE: a request starts when the one before has ended
  FaultKinds,    \* the failures considered: "db" a commit raises, "crash"
  MaxFaults      \* bound: how many of them

NoKey   == "no key"
NoVal   == "no secret"
AllOps  == {"store", "get", "delete", "rotate"}

ASSUME SecretAssumption ==
  /\ NoKey \notin Keys
  /\ FirstKey \in Keys \cup {NoKey}
  /\ Keys # {}
  /\ \A a \in Apps : NoVal \notin Values[a]
  /\ MaxPk \in Nat
  /\ Ops \subseteq AllOps
  /\ OneAtATime \in BOOLEAN
  /\ FaultKinds \subseteq {"db", "crash"}
  /\ MaxFaults \in Nat

VARIABLES
  store,   \* store[pk]: the record with that primary key, or NoRecord
  key,     \* SidecarConfig.ENCRYPTION_KEY in memory
  envKey,  \* SIDECAR_ENCRYPTION_KEY in the environment, NoKey if it is not set
  reqs,    \* the handlers in flight
  faults,
  latest,  \* observation: what the last successful store or delete left for an app
  tableKey \* observation: see UnderOneKey

observed == <<latest, tableKey>>
svars == <<store, key, envKey, reqs, faults, observed>>

Pks      == 1..MaxPk
AllVals  == UNION {Values[a] : a \in Apps}
Cipher   == [key : Keys, val : AllVals]
NoCipher == [key |-> NoKey, val |-> NoVal]
Record   == [app : Apps, cipher : Cipher]
NoApp    == "no app"
NoRecord == [app |-> NoApp, cipher |-> NoCipher]

Pcs == {"idle", "s_select", "s_commit", "g_select", "g_decrypt", "d_select", "d_commit",
        "r_select", "r_loop", "r_commit"}

Idle == [pc |-> "idle", app |-> NoApp, pk |-> 0, cipher |-> NoCipher, key |-> NoKey,
         rows |-> [k \in Pks |-> NoCipher]]

Session ==
  [pc     : Pcs,
   app    : Apps \cup {NoApp},
   pk     : 0..MaxPk,                          \* of the record found, 0 if none
   cipher : Cipher \cup {NoCipher},            \* to store, or read
   key    : Keys \cup {NoKey},                 \* new_key of a rotation
   rows   : [Pks -> Cipher \cup {NoCipher}]]   \* of a rotation: read, then to write

TypeOK ==
  /\ store \in [Pks -> Record \cup {NoRecord}]
  /\ key \in Keys
  /\ envKey \in Keys \cup {NoKey}
  /\ reqs \in [Requests -> Session]
  /\ faults \in 0..MaxFaults
  /\ latest \in [Apps -> AllVals \cup {NoVal}]
  /\ tableKey \in Keys \cup {NoKey}
  /\ \A r \in Requests :
       /\ reqs[r].pc \notin {"idle", "r_select", "r_loop", "r_commit"} => reqs[r].app \in Apps
       /\ reqs[r].pc \in {"s_select", "s_commit"} => reqs[r].cipher \in Cipher
       /\ reqs[r].pc \in {"r_select", "r_loop", "r_commit"} => reqs[r].key \in Keys

Init ==
  /\ store = [k \in Pks |-> NoRecord]
  /\ envKey = FirstKey
  /\ IF FirstKey = NoKey THEN key \in Keys ELSE key = FirstKey
  /\ reqs = [r \in Requests |-> Idle]
  /\ faults = 0
  /\ latest = [a \in Apps |-> NoVal]
  /\ tableKey = key

--------------------------------------------------------------------------------
Fault(kind) == kind \in FaultKinds /\ faults < MaxFaults /\ faults' = faults + 1
NoFault     == UNCHANGED faults

Used         == {k \in Pks : store[k] # NoRecord}
RecordsOf(a) == {k \in Used : store[k].app = a}
Quiet        == \A r \in Requests : reqs[r] = Idle
Admit        == OneAtATime => Quiet
Done(r)      == reqs' = [reqs EXCEPT ![r] = Idle]

(***************************************************************************)
(* tableKey is the key of the last rotation that was committed, the first  *)
(* key of the process before that.  It is NoKey once a store was committed *)
(* or a rotation ran with another key k in memory.                         *)
(***************************************************************************)
UnderOneKey(k) == tableKey' = IF k = tableKey THEN tableKey ELSE NoKey

\* SQLite: one more than the largest primary key in the table
NextPk(k) == (\A j \in Used : j < k) /\ (k = 1 \/ k - 1 \in Used)

Encrypt(val, k)  == [key |-> k, val |-> val]
Decrypts(c, k)   == c # NoCipher /\ c.key = k

Start(r, op) ==
  /\ op \in Ops
  /\ reqs[r] = Idle
  /\ Admit

Accept(r, session) ==
  /\ reqs' = [reqs EXCEPT ![r] = session]
  /\ UNCHANGED <<store, key, envKey, faults, observed>>

\* mutant: the query forgets the app
SelectAny(r, here, found, missing) ==
  /\ reqs[r].pc = here
  /\ \/ \E k \in Used :
          reqs' = [reqs EXCEPT ![r].pc = found, ![r].pk = k,
                     ![r].cipher = IF found = "g_decrypt" THEN store[k].cipher ELSE @]
     \/ /\ Used = {}
        /\ reqs' = [reqs EXCEPT ![r] = IF missing = "idle" THEN Idle ELSE [@ EXCEPT !.pc = missing]]
  /\ UNCHANGED <<store, key, envKey, faults, observed>>

(***************************************************************************)
(* select(SecretStore).where(app_id == ...): the record found, or missing  *)
(***************************************************************************)
Select(r, here, found, missing) ==
  /\ reqs[r].pc = here
  /\ \/ \E k \in RecordsOf(reqs[r].app) :
          reqs' = [reqs EXCEPT ![r].pc = found, ![r].pk = k,
                     ![r].cipher = IF found = "g_decrypt" THEN store[k].cipher ELSE @]
     \/ /\ RecordsOf(reqs[r].app) = {}
        /\ reqs' = [reqs EXCEPT ![r] = IF missing = "idle" THEN Idle ELSE [@ EXCEPT !.pc = missing]]
  /\ UNCHANGED <<store, key, envKey, faults, observed>>

--------------------------------------------------------------------------------
(* store_secrets: encrypted with the key of the moment, before the query *)

\* bound: there is a primary key for every store in flight
Room ==
  Cardinality({r \in Requests : reqs[r].pc \in {"s_select", "s_commit"}})
    < Cardinality({k \in Pks : \A j \in Used : j < k})

StartStore(r, a, v) ==
  /\ Start(r, "store")
  /\ Room
  /\ Accept(r, [Idle EXCEPT !.pc = "s_select", !.app = a, !.cipher = Encrypt(v, key)])

\* mutant: what is there is kept
StoreKeeps(r) ==
  /\ reqs[r].pc = "s_commit"
  /\ reqs[r].pk \in Used
  /\ latest' = [latest EXCEPT ![reqs[r].app] = reqs[r].cipher.val]
  /\ UnderOneKey(reqs[r].cipher.key)
  /\ Done(r)
  /\ UNCHANGED <<store, key, envKey, faults>>

\* an UPDATE goes by primary key
StoreUpdates(r) ==
  LET k == reqs[r].pk IN
  /\ reqs[r].pc = "s_commit"
  /\ k \in Used
  /\ store' = [store EXCEPT ![k].cipher = reqs[r].cipher]
  /\ latest' = [latest EXCEPT ![reqs[r].app] = reqs[r].cipher.val]
  /\ UnderOneKey(reqs[r].cipher.key)
  /\ Done(r)
  /\ UNCHANGED <<key, envKey, faults>>

\* mutant: app_id is not UNIQUE
StoreInsertsTwice(r) ==
  /\ reqs[r].pc = "s_commit"
  /\ reqs[r].pk = 0
  /\ \E k \in Pks : NextPk(k) /\
       store' = [store EXCEPT ![k] = [app |-> reqs[r].app, cipher |-> reqs[r].cipher]]
  /\ latest' = [latest EXCEPT ![reqs[r].app] = reqs[r].cipher.val]
  /\ UnderOneKey(reqs[r].cipher.key)
  /\ Done(r)
  /\ UNCHANGED <<key, envKey, faults>>

StoreInserts(r) ==
  /\ reqs[r].pc = "s_commit"
  /\ reqs[r].pk = 0
  /\ RecordsOf(reqs[r].app) = {}
  /\ \E k \in Pks : NextPk(k) /\
       store' = [store EXCEPT ![k] = [app |-> reqs[r].app, cipher |-> reqs[r].cipher]]
  /\ latest' = [latest EXCEPT ![reqs[r].app] = reqs[r].cipher.val]
  /\ UnderOneKey(reqs[r].cipher.key)
  /\ Done(r)
  /\ UNCHANGED <<key, envKey, faults>>

\* StaleDataError, UNIQUE (app_id), or the database: the client gets a 500
StoreFails(r) ==
  /\ reqs[r].pc = "s_commit"
  /\ \/ reqs[r].pk # 0 /\ reqs[r].pk \notin Used /\ NoFault
     \/ reqs[r].pk = 0 /\ RecordsOf(reqs[r].app) # {} /\ NoFault
     \/ Fault("db")
  /\ Done(r)
  /\ UNCHANGED <<store, key, envKey, observed>>

--------------------------------------------------------------------------------
(* get_secrets *)

StartGet(r, a) ==
  /\ Start(r, "get")
  /\ Accept(r, [Idle EXCEPT !.pc = "g_select", !.app = a])

\* with the key of the moment: the plaintext, or a 500
GetReturns(r) ==
  /\ reqs[r].pc = "g_decrypt"
  /\ Done(r)
  /\ UNCHANGED <<store, key, envKey, faults, observed>>

--------------------------------------------------------------------------------
(* delete_secrets *)

StartDelete(r, a) ==
  /\ Start(r, "delete")
  /\ Accept(r, [Idle EXCEPT !.pc = "d_select", !.app = a])

\* a DELETE of a record that is gone raises nothing
DeleteCommits(r) ==
  /\ reqs[r].pc = "d_commit"
  /\ store' = [store EXCEPT ![reqs[r].pk] = NoRecord]
  /\ latest' = [latest EXCEPT ![reqs[r].app] = NoVal]
  /\ Done(r)
  /\ UNCHANGED <<key, envKey, faults, tableKey>>

DeleteFails(r) ==
  /\ reqs[r].pc = "d_commit"
  /\ Fault("db")
  /\ Done(r)
  /\ UNCHANGED <<store, key, envKey, observed>>

--------------------------------------------------------------------------------
(* rotate_encryption_key *)

StartRotate(r, k) ==
  /\ Start(r, "rotate")
  /\ Accept(r, [Idle EXCEPT !.pc = "r_select", !.key = k])

SelectAll(r) ==
  /\ reqs[r].pc = "r_select"
  /\ reqs' = [reqs EXCEPT ![r].pc = "r_loop",
                          ![r].rows = [k \in Pks |-> store[k].cipher]]
  /\ UNCHANGED <<store, key, envKey, faults, observed>>

\* the ciphertexts, each re-encrypted when key k decrypts it, NoCipher for the rest
Reencrypted(rows, k, new) ==
  [j \in Pks |-> IF Decrypts(rows[j], k) THEN Encrypt(rows[j].val, new) ELSE NoCipher]

\* mutant: the key is not switched
RotateKeepsKey(r) ==
  /\ reqs[r].pc = "r_loop"
  /\ reqs' = [reqs EXCEPT ![r].pc = "r_commit",
                          ![r].rows = Reencrypted(@, key, reqs[r].key)]
  /\ UnderOneKey(key)
  /\ UNCHANGED <<store, key, envKey, faults, latest>>

\* mutant: the key is switched before the loop decrypts
RotateSwitchesFirst(r) ==
  /\ reqs[r].pc = "r_loop"
  /\ reqs' = [reqs EXCEPT ![r].pc = "r_commit",
                          ![r].rows = Reencrypted(@, reqs[r].key, reqs[r].key)]
  /\ key' = reqs[r].key
  /\ UnderOneKey(key)
  /\ UNCHANGED <<store, envKey, faults, latest>>

\* the loop re-encrypts what the key of the moment decrypts and skips the rest;
\* then the key is switched, before the commit
RotateLoop(r) ==
  /\ reqs[r].pc = "r_loop"
  /\ reqs' = [reqs EXCEPT ![r].pc = "r_commit",
                          ![r].rows = Reencrypted(@, key, reqs[r].key)]
  /\ key' = reqs[r].key
  /\ UnderOneKey(key)
  /\ UNCHANGED <<store, envKey, faults, latest>>

Rewritten(r) == {k \in Pks : reqs[r].rows[k] # NoCipher}

RotateCommits(r) ==
  /\ reqs[r].pc = "r_commit"
  /\ Rewritten(r) \subseteq Used
  /\ store' = [k \in Pks |-> IF k \in Rewritten(r)
                             THEN [store[k] EXCEPT !.cipher = reqs[r].rows[k]]
                             ELSE store[k]]
  /\ tableKey' = IF tableKey = NoKey THEN NoKey ELSE reqs[r].key
  /\ Done(r)
  /\ UNCHANGED <<key, envKey, faults, latest>>

\* one record gone is enough: StaleDataError rolls all of them back
RotateFails(r) ==
  /\ reqs[r].pc = "r_commit"
  /\ \/ ~(Rewritten(r) \subseteq Used) /\ NoFault
     \/ Fault("db")
  /\ Done(r)
  /\ UNCHANGED <<store, key, envKey, observed>>

--------------------------------------------------------------------------------
(* the operator, and restarts *)

\* SIDECAR_ENCRYPTION_KEY is set, at any time and to any key
UpdateEnvironment ==
  /\ \E k \in Keys : envKey' = k
  /\ UNCHANGED <<store, key, reqs, faults, observed>>

\* mutant: no key is made when none is set
RestartWithoutKey ==
  /\ Fault("crash")
  /\ key' = envKey
  /\ reqs' = [r \in Requests |-> Idle]
  /\ UNCHANGED <<store, envKey, observed>>

\* lifespan: the key of the environment, updated or not, or a new one
Restart ==
  /\ Fault("crash")
  /\ IF envKey = NoKey THEN key' \in Keys \ {key} ELSE key' = envKey
  /\ reqs' = [r \in Requests |-> Idle]
  /\ UNCHANGED <<store, envKey, observed>>

Step(r) ==
  \/ Select(r, "s_select", "s_commit", "s_commit")
  \/ StoreUpdates(r) \/ StoreInserts(r) \/ StoreFails(r)
  \/ Select(r, "g_select", "g_decrypt", "idle") \/ GetReturns(r)
  \/ Select(r, "d_select", "d_commit", "idle") \/ DeleteCommits(r) \/ DeleteFails(r)
  \/ SelectAll(r) \/ RotateLoop(r) \/ RotateCommits(r) \/ RotateFails(r)

Request(r) ==
  \/ \E a \in Apps : \/ \E v \in Values[a] : StartStore(r, a, v)
                     \/ StartGet(r, a)
                     \/ StartDelete(r, a)
  \/ \E k \in Keys : StartRotate(r, k)

Next == (\E r \in Requests : Request(r) \/ Step(r)) \/ UpdateEnvironment \/ Restart

Spec == Init /\ [][Next]_svars
================================================================================
