--------------------------- MODULE AppContract_proofs ---------------------------
(***************************************************************************)
(* AppContract keeps its own promise, for any apps and ports.  Promise     *)
(* with the types is inductive: a container starts only on a lease that    *)
(* nobody is up on, a running app that loses its container is "down", and  *)
(* an app is deleted with its lease and after its container.               *)
(***************************************************************************)
EXTENDS AppContract, TLAPS

(***************************************************************************)
(* The contract's state keeps its types.                                   *)
(***************************************************************************)
THEOREM ContractTypes == ContractSpec => []ContractTypeOK
<1>1. ContractInit => ContractTypeOK
  BY DEF ContractInit, ContractTypeOK
<1>2. ContractTypeOK /\ [ContractNext]_cvars => ContractTypeOK'
  BY DEF ContractTypeOK, ContractNext, Create, Prepare, Stop, Release, Lease, Start,
         Succeed, Fail, Delete, cvars
<1> QED BY <1>1, <1>2, PTL DEF ContractSpec

(***************************************************************************)
(* A running app is up on its lease, and neither leases nor ports are      *)
(* shared: deploy_app may rely on it at every step it maps to a step here. *)
(***************************************************************************)
THEOREM ContractPromise == ContractSpec => []Promise
<1>1. ContractInit => Promise
  BY DEF ContractInit, Promise
<1>2. ContractTypeOK /\ Promise /\ [ContractNext]_cvars => Promise'
  <2> SUFFICES ASSUME ContractTypeOK, Promise, [ContractNext]_cvars
               PROVE  Promise'
    OBVIOUS
  <2>1. ASSUME NEW a \in Apps, Create(a) \/ Prepare(a) \/ Fail(a)
        PROVE  Promise'
    BY <2>1 DEF Create, Prepare, Fail, ContractTypeOK, Promise
  <2>2. ASSUME NEW a \in Apps, Stop(a) \/ Release(a)
        PROVE  Promise'
    BY <2>2 DEF Stop, Release, ContractTypeOK, Promise
  <2>3. ASSUME NEW a \in Apps, NEW p \in Ports, Lease(a, p)
        PROVE  Promise'
    BY <2>3 DEF Lease, ContractTypeOK, Promise
  <2>4. ASSUME NEW a \in Apps, Start(a)
        PROVE  Promise'
    BY <2>4 DEF Start, ContractTypeOK, Promise
  <2>5. ASSUME NEW a \in Apps, Succeed(a)
        PROVE  Promise'
    BY <2>5 DEF Succeed, ContractTypeOK, Promise
  <2>6. ASSUME NEW D \in SUBSET Apps, Delete(D)
        PROVE  Promise'
    BY <2>6 DEF Delete, ContractTypeOK, Promise
  <2>7. CASE UNCHANGED cvars
    BY <2>7 DEF cvars, Promise
  <2> QED BY <2>1, <2>2, <2>3, <2>4, <2>5, <2>6, <2>7 DEF ContractNext
<1> QED BY <1>1, <1>2, ContractTypes, PTL DEF ContractSpec
================================================================================
