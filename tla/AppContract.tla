------------------------------ MODULE AppContract ------------------------------
(***************************************************************************)
(* What the platform promises about an app: the state diagram of           *)
(* docs/UML.md:217-281 with the two resources behind it, the lease on a    *)
(* host port and the container bound to one.  "running" is entered only    *)
(* from "prepared" with the container up on the leased port.  A running    *)
(* app loses its container only to a deletion; one that fails half-way     *)
(* leaves it "down", which the diagram does not have, until the app is     *)
(* "prepared" again or deleted.  A failure may come at any moment; it may  *)
(* leave the app where it is or make it "error".                           *)
(***************************************************************************)
EXTENDS Naturals

CONSTANTS Apps, Ports, NoPort

VARIABLES
  state,  \* state[a]: the app's status, "absent" before it is created
  lease,  \* lease[a]: the host port reserved for it, or NoPort
  up      \* up[a]: the host port its running container is bound to, or NoPort

cvars == <<state, lease, up>>

ContractTypeOK ==
  /\ state \in [Apps -> {"absent", "created", "prepared", "running", "down", "error"}]
  /\ lease \in [Apps -> Ports \cup {NoPort}]
  /\ up \in [Apps -> Ports \cup {NoPort}]

ContractInit ==
  /\ state = [a \in Apps |-> "absent"]
  /\ lease = [a \in Apps |-> NoPort]
  /\ up = [a \in Apps |-> NoPort]

Create(a) ==
  /\ state[a] = "absent"
  /\ state' = [state EXCEPT ![a] = "created"]
  /\ UNCHANGED <<lease, up>>

Prepare(a) ==
  /\ state[a] # "absent"
  /\ state' = [state EXCEPT ![a] = "prepared"]
  /\ UNCHANGED <<lease, up>>

\* the container goes, before a new one comes or with the app
Stop(a) ==
  /\ state[a] # "absent"
  /\ up' = [up EXCEPT ![a] = NoPort]
  /\ state' = [state EXCEPT ![a] = IF @ = "running" THEN "down" ELSE @]
  /\ UNCHANGED lease

Release(a) ==
  /\ state[a] = "prepared"
  /\ lease' = [lease EXCEPT ![a] = NoPort]
  /\ UNCHANGED <<state, up>>

Lease(a, p) ==
  /\ state[a] = "prepared"
  /\ \A b \in Apps \ {a} : lease[b] # p
  /\ lease' = [lease EXCEPT ![a] = p]
  /\ UNCHANGED <<state, up>>

\* the new container takes the leased port
Start(a) ==
  /\ state[a] = "prepared"
  /\ up[a] = NoPort
  /\ lease[a] # NoPort
  /\ \A b \in Apps : up[b] # lease[a]
  /\ up' = [up EXCEPT ![a] = lease[a]]
  /\ UNCHANGED <<state, lease>>

Succeed(a) ==
  /\ state[a] = "prepared"
  /\ lease[a] # NoPort
  /\ up[a] = lease[a]
  /\ state' = [state EXCEPT ![a] = "running"]
  /\ UNCHANGED <<lease, up>>

Fail(a) ==
  /\ state[a] # "absent"
  /\ state' = [state EXCEPT ![a] = "error"]
  /\ UNCHANGED <<lease, up>>

\* no app goes before its container; the apps of a user go together
Delete(D) ==
  /\ \A a \in D : up[a] = NoPort
  /\ state' = [a \in Apps |-> IF a \in D THEN "absent" ELSE state[a]]
  /\ lease' = [a \in Apps |-> IF a \in D THEN NoPort ELSE lease[a]]
  /\ UNCHANGED up

ContractNext ==
  \/ \E a \in Apps :
       \/ Create(a) \/ Prepare(a) \/ Stop(a) \/ Release(a) \/ Start(a)
       \/ Succeed(a) \/ Fail(a)
       \/ \E p \in Ports : Lease(a, p)
  \/ \E D \in SUBSET Apps : Delete(D)

ContractSpec == ContractInit /\ [][ContractNext]_cvars

(***************************************************************************)
(* A running app has its lease and its container on the leased port; no    *)
(* two apps share a lease, no two containers share a port; an app that is  *)
(* gone holds neither.                                                     *)
(***************************************************************************)
Promise ==
  /\ \A a \in Apps :
       /\ state[a] = "running" => up[a] = lease[a] /\ lease[a] # NoPort
       /\ state[a] = "down" => up[a] = NoPort
       /\ state[a] = "absent" => up[a] = NoPort /\ lease[a] = NoPort
  /\ \A a, b \in Apps : a # b =>
       /\ lease[a] # NoPort => lease[a] # lease[b]
       /\ up[a] # NoPort => up[a] # up[b]
================================================================================
