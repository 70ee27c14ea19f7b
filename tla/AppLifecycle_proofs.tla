--------------------------- MODULE AppLifecycle_proofs --------------------------
(***************************************************************************)
(* Theorems about AppLifecycle, for any apps, ports, requests and failures *)
(* and with no bound on their number.                                      *)
(***************************************************************************)
EXTENDS AppCorrectness, TLAPS

--------------------------------------------------------------------------------
(* Type correctness *)

(***************************************************************************)
(* A session stays a session when one of its fields gets a value of the    *)
(* field's type: the forms the steps of the handlers use.                  *)
(***************************************************************************)
LEMMA PcType ==
  ASSUME NEW s \in Session, NEW pc \in Pcs
  PROVE  [s EXCEPT !.pc = pc] \in Session
  BY DEF Session

LEMMA BaseType ==
  ASSUME NEW s \in Session, NEW base \in Row
  PROVE  [s EXCEPT !.base = base] \in Session
  BY DEF Session

LEMMA CandType ==
  ASSUME NEW s \in Session, NEW cand \in SUBSET Ports
  PROVE  [s EXCEPT !.cand = cand] \in Session
  BY DEF Session

LEMMA CidType ==
  ASSUME NEW s \in Session, NEW cid \in Cids \cup {NoCid}
  PROVE  [s EXCEPT !.cid = cid] \in Session
  BY DEF Session

LEMMA StatusType ==
  ASSUME NEW s \in Session, NEW st \in Statuses
  PROVE  [s EXCEPT !.mem.status = st] \in Session
  BY DEF Session, Row

LEMMA PortType ==
  ASSUME NEW s \in Session, NEW p \in Ports \cup {NoPort}
  PROVE  [s EXCEPT !.mem.port = p] \in Session
  BY DEF Session, Row

(***************************************************************************)
(* What a request has loaded is a session, and so is an idle slot.         *)
(***************************************************************************)
LEMMA IdleType == Idle \in Session
  BY TableAssumption DEF Idle, Session, NoRow, Row, Pcs

LEMMA LoadedType ==
  ASSUME TypeOK, NEW op \in AllOps, NEW pc \in Pcs, NEW a \in AppIds, NEW mem \in Row
  PROVE  Loaded(op, pc, a, mem) \in Session
<1>1. Loaded(op, pc, a, mem) = [op |-> op, pc |-> pc, app |-> a, base |-> rows[a],
                                mem |-> mem, cand |-> {}, cid |-> NoCid]
  BY DEF Loaded
<1>2. rows[a] \in Row
  BY DEF TypeOK, TableTypeOK
<1> QED BY <1>1, <1>2, TableAssumption DEF Session, AppIds

(***************************************************************************)
(* An UPDATE leaves a row.                                                 *)
(***************************************************************************)
LEMMA UpdatedType ==
  ASSUME TypeOK, NEW a \in AppIds, NEW base \in Row, NEW mem \in Row
  PROVE  Updated(a, base, mem) \in Row
  BY DEF TypeOK, TableTypeOK, Updated, Row

LEMMA TypeInit == Init => TypeOK
  BY LifecycleAssumption, TableAssumption, DockerAssumption, IdleType
  DEF Init, TypeOK, TableInit, TableTypeOK, DockerInit, DockerTypeOK, Exists, Idle,
      NoRow, Row, NoContainer, Container, AppIds, Trees

(***************************************************************************)
(* What a step leaves of the table.                                        *)
(***************************************************************************)
TableOK == TableTypeOK /\ \A a \in AppIds : Exists(a) => rows[a].branch \in Branches

SessionsOK ==
  /\ reqs \in [Requests -> Session]
  /\ \A r \in Requests : reqs[r].pc # "idle" =>
       reqs[r].app \in AppIds /\ reqs[r].mem.branch \in Branches

LEMMA FlushType ==
  ASSUME TypeOK, NEW r \in Requests, reqs[r].pc # "idle",
         Flush(reqs[r].app, reqs[r].base, reqs[r].mem)
  PROVE  TableOK'
<1> DEFINE a == reqs[r].app  base == reqs[r].base  mem == reqs[r].mem
<1>1. a \in AppIds /\ base \in Row /\ mem \in Row /\ mem.branch \in Branches
  BY DEF TypeOK, Session
<1>2. Updated(a, base, mem) \in Row
  BY <1>1, UpdatedType
<1>3. Updated(a, base, mem).status # "absent" => Updated(a, base, mem).branch \in Branches
  <2>1. CASE Exists(a)
    BY <1>1, <2>1 DEF TypeOK, Updated, Exists
  <2>2. CASE ~Exists(a)
    BY <1>1, <2>2 DEF Flush, Rejected, Updated, Exists
  <2> QED BY <2>1, <2>2
<1> QED BY <1>1, <1>2, <1>3 DEF Flush, TableOK, TypeOK, TableTypeOK, Exists

(***************************************************************************)
(* What a step leaves of the sessions.                                     *)
(***************************************************************************)
LEMMA GotoType ==
  ASSUME TypeOK, NEW r \in Requests, NEW pc \in Pcs, reqs[r].pc # "idle", Goto(r, pc)
  PROVE  SessionsOK'
<1>1. reqs' \in [Requests -> Session]
  BY PcType DEF TypeOK, Goto
<1> QED BY <1>1 DEF SessionsOK, TypeOK, Goto

LEMMA DoneType ==
  ASSUME TypeOK, NEW r \in Requests, Done(r)
  PROVE  SessionsOK'
<1>1. reqs' \in [Requests -> Session]
  BY IdleType DEF TypeOK, Done
<1> QED BY <1>1 DEF SessionsOK, TypeOK, Done, Idle

LEMMA FaultType ==
  ASSUME TypeOK, NEW kind, Fault(kind) \/ NoFault
  PROVE  faults' \in 0..MaxFaults
  BY LifecycleAssumption DEF TypeOK, Fault, NoFault

(***************************************************************************)
(* One lemma per handler.                                                  *)
(***************************************************************************)
LEMMA CreateType ==
  ASSUME TypeOK, NEW r \in Requests, NEW a \in AppIds, NEW b \in Branches, CreateApp(r, a, b)
  PROVE  TypeOK'
  BY TableAssumption
  DEF CreateApp, Insert, docker, TypeOK, TableTypeOK, DockerTypeOK, Exists, AppIds, Row, Statuses

LEMMA StartDeployType ==
  ASSUME TypeOK, NEW r \in Requests, NEW a \in AppIds, NEW b \in Branches,
         NEW force \in BOOLEAN, StartDeploy(r, a, b, force)
  PROVE  TypeOK'
<1> DEFINE mem == [rows[a] EXCEPT !.branch = b]
           pc  == IF force /\ trees[a] # "absent" THEN "rmtree" ELSE "fetch"
           s   == Loaded("deploy", pc, a, mem)
<1>1. mem \in Row /\ mem.branch \in Branches
  BY DEF TypeOK, TableTypeOK, Row
<1>2. pc \in Pcs
  BY DEF Pcs, TryPcs
<1>3. s \in Session
  BY <1>1, <1>2, LoadedType DEF AllOps
<1>4. s.app = a /\ s.mem = mem
  BY DEF Loaded
<1>5. reqs' = [reqs EXCEPT ![r] = s]
  BY DEF StartDeploy
<1> HIDE DEF s
<1>6. SessionsOK'
  BY <1>1, <1>3, <1>4, <1>5 DEF SessionsOK, TypeOK
<1>7. trees' \in [AppIds -> Trees]
  BY DEF StartDeploy, TypeOK, Trees
<1> QED
  BY <1>6, <1>7
  DEF StartDeploy, SessionsOK, table, docker, TypeOK, TableTypeOK, DockerTypeOK, Exists

(***************************************************************************)
(* The steps that deployments share with deletions, or take several times. *)
(***************************************************************************)
LEMMA CommitType ==
  ASSUME TypeOK, NEW r \in Requests, NEW here \in Pcs \ {"idle"}, NEW next \in Pcs,
         Commit(r, here, next)
  PROVE  TypeOK'
<1>1. reqs[r].mem \in Row /\ reqs[r].pc # "idle"
  BY DEF TypeOK, Session, Commit
<1>2. reqs' \in [Requests -> Session]
  BY <1>1, PcType, BaseType DEF Commit, TypeOK
<1>3. TableOK'
  BY <1>1, FlushType DEF Commit
<1> QED BY <1>1, <1>2, <1>3 DEF Commit, TableOK, TypeOK, DockerTypeOK, docker

LEMMA FindContainerType ==
  ASSUME TypeOK, NEW r \in Requests, NEW here \in Pcs \ {"idle"},
         NEW found \in Pcs, NEW missing \in Pcs, FindContainer(r, here, found, missing)
  PROVE  TypeOK'
<1> DEFINE c == containers[reqs[r].app]
<1>1. reqs[r].pc # "idle" /\ reqs[r].app \in AppIds
  BY DEF TypeOK, FindContainer
<1>2. c.id \in Cids \cup {NoCid}
  BY <1>1 DEF TypeOK, DockerTypeOK, Container
<1>3. Goto(r, missing) => SessionsOK'
  BY <1>1, GotoType
<1>4. ASSUME reqs' = [reqs EXCEPT ![r].pc = found, ![r].cid = c.id]
      PROVE  SessionsOK'
  <2>1. reqs' \in [Requests -> Session]
    BY <1>2, <1>4, PcType, CidType DEF TypeOK
  <2> QED BY <1>1, <1>4, <2>1 DEF TypeOK, SessionsOK
<1>5. SessionsOK'
  BY <1>3, <1>4 DEF FindContainer
<1>6. faults' \in 0..MaxFaults
  BY FaultType DEF FindContainer
<1> QED
  BY <1>5, <1>6
  DEF FindContainer, SessionsOK, TypeOK, TableTypeOK, DockerTypeOK, Exists, table, docker

LEMMA RmContainerType ==
  ASSUME TypeOK, NEW r \in Requests, NEW here \in Pcs \ {"idle"}, NEW next \in Pcs,
         NEW port \in Ports \cup {NoPort}, RmContainer(r, here, next, port)
  PROVE  TypeOK'
<1>1. reqs[r].pc # "idle"
  BY DEF RmContainer
<1>2. reqs' = [reqs EXCEPT ![r].pc = next, ![r].cid = NoCid, ![r].mem.port = port]
  BY DEF RmContainer
<1>3. reqs' \in [Requests -> Session]
  BY <1>2, PcType, CidType, PortType DEF TypeOK
<1>4. SessionsOK'
  BY <1>1, <1>2, <1>3 DEF SessionsOK, TypeOK
<1>5. DockerTypeOK'
  <2>1. CASE RemoveContainer(reqs[r].app, reqs[r].cid)
    BY <2>1 DEF RemoveContainer, TypeOK, DockerTypeOK, Container, NoContainer
  <2>2. CASE UNCHANGED docker
    BY <2>2 DEF docker, TypeOK, DockerTypeOK
  <2> QED BY <2>1, <2>2 DEF RmContainer
<1>6. Fault("rm") \/ NoFault
  BY DEF RmContainer
<1>7. faults' \in 0..MaxFaults
  BY <1>6, FaultType
<1> QED
  BY <1>4, <1>5, <1>7
  DEF RmContainer, SessionsOK, TypeOK, TableTypeOK, Exists, table

LEMMA ProbeType ==
  ASSUME TypeOK, NEW r \in Requests, Probe(r)
  PROVE  TypeOK'
<1>1. PICK p \in reqs[r].cand :
        reqs' = IF ProbeSeesHost /\ p \in BoundPorts
                THEN [reqs EXCEPT ![r].cand = @ \ {p}]
                ELSE TakePort(r, p)
  BY DEF Probe
<1>2. reqs[r].cand \in SUBSET Ports
  BY DEF TypeOK, Session
<1>3. reqs' \in [Requests -> Session]
  <2>1. CASE ProbeSeesHost /\ p \in BoundPorts
    BY <1>1, <1>2, <2>1, CandType DEF TypeOK
  <2>2. CASE ~(ProbeSeesHost /\ p \in BoundPorts)
    BY <1>1, <1>2, <2>2, PcType, CandType, PortType DEF TakePort, TypeOK, Pcs, TryPcs
  <2> QED BY <2>1, <2>2
<1> QED
  BY <1>1, <1>3
  DEF Probe, TakePort, TypeOK, TableTypeOK, DockerTypeOK, Exists, table, docker

LEMMA StartContainerType ==
  ASSUME TypeOK, NEW r \in Requests, StartContainer(r)
  PROVE  TypeOK'
<1>1. PICK c \in Cids, started \in BOOLEAN :
        /\ CreateContainer(reqs[r].app, reqs[r].mem.port, c, started)
        /\ reqs' = [reqs EXCEPT
                      ![r].pc = IF started THEN "commit_running" ELSE "handler",
                      ![r].mem.status = IF started THEN "running" ELSE "error"]
  BY DEF StartContainer
<1>2. reqs' \in [Requests -> Session]
  BY <1>1, PcType, StatusType DEF TypeOK, Statuses, Pcs, TryPcs
<1>3. reqs[r].mem.port \in Ports \cup {NoPort}
  BY DEF TypeOK, Session, Row
<1>4. DockerTypeOK'
  BY <1>1, <1>3 DEF CreateContainer, Container, TypeOK, DockerTypeOK
<1> QED
  BY <1>1, <1>2, <1>4
  DEF StartContainer, TypeOK, TableTypeOK, Exists, table

LEMMA DeployType ==
  ASSUME TypeOK, NEW r \in Requests, Deploy(r)
  PROVE  TypeOK'
<1>0. TryPcs \subseteq Pcs \ {"idle"} /\ {"handler", "dead"} \subseteq Pcs \ {"idle"}
  BY DEF Pcs, TryPcs
<1> USE DEF TypeOK, TableTypeOK, DockerTypeOK, SessionsOK, table, docker, Exists
<1>1. CASE ForceRebuild(r)
  BY <1>0, <1>1, GotoType DEF ForceRebuild, NoFault, Trees, TryPcs
<1>2. CASE ForceRebuildFails(r)
  BY <1>2, DoneType, FaultType DEF ForceRebuildFails, Trees
<1>3. CASE Fetch(r)
  <2>1. reqs' \in [Requests -> Session]
    BY <1>0, <1>3, PcType, StatusType DEF Fetch, Statuses, TryPcs
  <2> QED BY <1>3, <2>1, LifecycleAssumption DEF Fetch, Trees
<1>4. CASE Checkout(r)
  BY <1>0, <1>4, GotoType DEF Checkout, Trees, TryPcs
<1>5. CASE Build(r)
  BY <1>0, <1>5, GotoType DEF Build, BuildImage, HasClone, TryPcs
<1>6. CASE Snapshot(r)
  <2>1. Ports \ LeasedPorts \in SUBSET Ports
    OBVIOUS
  <2>2. reqs' \in [Requests -> Session]
    BY <1>0, <1>6, <2>1, PcType, CandType DEF Snapshot, TryPcs
  <2> QED BY <1>6, <2>2 DEF Snapshot
<1>7. CASE FindImage(r)
  BY <1>0, <1>7, GotoType DEF FindImage, TryPcs
<1>8. CASE WriteConf(r)
  <2>1. reqs[r].mem.port \in Ports \cup {NoPort}
    BY DEF Session, Row
  <2> QED BY <1>8, <2>1, DoneType, FaultType DEF WriteConf, SetConf
<1>9. CASE CommitFails(r)
  BY <1>0, <1>9, GotoType, FaultType DEF CommitFails
<1>10. CASE StepRaises(r)
  <2>1. reqs' = [reqs EXCEPT ![r].pc = "handler", ![r].mem.status = "error",
                             ![r].cand = {}, ![r].cid = NoCid]
    BY <1>10 DEF StepRaises
  <2>2. reqs' \in [Requests -> Session]
    BY <1>0, <2>1, PcType, StatusType, CandType, CidType DEF Statuses
  <2>3. reqs[r].pc # "idle"
    BY <1>10 DEF StepRaises, CannotProceed
  <2>4. SessionsOK'
    BY <2>1, <2>2, <2>3
  <2>5. faults' \in 0..MaxFaults
    BY <1>10, FaultType DEF StepRaises
  <2> QED BY <1>10, <2>4, <2>5 DEF StepRaises
<1>11. CASE RecordError(r)
  BY <1>11, DoneType, FlushType DEF RecordError, TableOK
<1>12. CASE RecordErrorFails(r)
  BY <1>12, DoneType, FaultType DEF RecordErrorFails
<1>13. CASE RollbackPending(r)
  BY <1>13, DoneType DEF RollbackPending
<1> HIDE DEF TypeOK, TableTypeOK, DockerTypeOK, SessionsOK, table, docker, Exists
<1>14. NoPort \in Ports \cup {NoPort} /\ reqs[r].mem.port \in Ports \cup {NoPort}
  BY DEF TypeOK, Session, Row
<1>15. CASE \/ Commit(r, "commit_prepared", "checkout")
            \/ Commit(r, "commit_null", "snapshot")
            \/ Commit(r, "commit_port", "find_image")
            \/ Commit(r, "commit_running", "write_conf")
  BY <1>0, <1>15, CommitType DEF TryPcs
<1>16. CASE \/ FindContainer(r, "find_old", "rm_old", "snapshot")
            \/ FindContainer(r, "find_again", "rm_again", "start")
  BY <1>0, <1>16, FindContainerType DEF TryPcs
<1>17. CASE \/ RmContainer(r, "rm_old", "commit_null", NoPort)
            \/ RmContainer(r, "rm_again", "start", reqs[r].mem.port)
  BY <1>0, <1>14, <1>17, RmContainerType DEF TryPcs
<1> QED
  BY <1>1, <1>2, <1>3, <1>4, <1>5, <1>6, <1>7, <1>8, <1>9, <1>10, <1>11, <1>12, <1>13,
     <1>15, <1>16, <1>17, ProbeType, StartContainerType
  DEF Deploy

LEMMA StartDeleteType ==
  ASSUME TypeOK, NEW r \in Requests, NEW a \in AppIds, NEW op, StartDelete(r, a, op)
  PROVE  TypeOK'
<1> DEFINE s == Loaded(op, "d_find", a, rows[a])
<1>1. rows[a] \in Row /\ rows[a].branch \in Branches
  BY DEF StartDelete, Admit, TypeOK, TableTypeOK
<1>2. s \in Session
  BY <1>1, LoadedType DEF StartDelete, Pcs, DeletePcs, AllOps
<1>3. s.app = a /\ s.mem = rows[a]
  BY DEF Loaded
<1>4. reqs' = [reqs EXCEPT ![r] = s]
  BY DEF StartDelete
<1> HIDE DEF s
<1> QED
  BY <1>1, <1>2, <1>3, <1>4
  DEF StartDelete, table, docker, TypeOK, TableTypeOK, DockerTypeOK, Exists

LEMMA DeleteType ==
  ASSUME TypeOK, NEW r \in Requests, Delete(r)
  PROVE  TypeOK'
<1>0. DeletePcs \subseteq Pcs \ {"idle"}
  BY DEF Pcs, DeletePcs
<1>1. CASE FindContainer(r, "d_find", "d_rm", "d_image")
  BY <1>0, <1>1, FindContainerType DEF DeletePcs
<1>2. CASE RmContainer(r, "d_rm", "d_image", reqs[r].mem.port)
  <2>1. reqs[r].mem.port \in Ports \cup {NoPort}
    BY DEF TypeOK, Session, Row
  <2> QED BY <1>0, <1>2, <2>1, RmContainerType DEF DeletePcs
<1> USE DEF TypeOK, TableTypeOK, DockerTypeOK, SessionsOK, table, docker, Exists
<1>3. CASE RemoveAppImage(r)
  BY <1>0, <1>3, GotoType DEF RemoveAppImage, RemoveImage, DeletePcs
<1>4. CASE RemoveTree(r)
  BY <1>0, <1>4, GotoType DEF RemoveTree, NoFault, Trees, DeletePcs
<1>5. CASE RemoveConf(r)
  BY <1>0, <1>5, GotoType, FaultType DEF RemoveConf, SetConf, DeletePcs
<1>6. CASE RemoveRow(r)
  <2>1. TableOK'
    BY <1>6 DEF RemoveRow, DeleteRow, NoRow, Row, TableOK
  <2> QED BY <1>6, <2>1, DoneType DEF RemoveRow, TableOK
<1>7. CASE DeleteRaises(r)
  <2>1. trees' \in [AppIds -> Trees]
    BY <1>7 DEF DeleteRaises, Trees
  <2>2. faults' \in 0..MaxFaults
    BY <1>7, FaultType DEF DeleteRaises
  <2> QED BY <1>7, <2>1, <2>2, DoneType DEF DeleteRaises
<1> QED
  BY <1>1, <1>2, <1>3, <1>4, <1>5, <1>6, <1>7 DEF Delete

LEMMA PatchType ==
  ASSUME TypeOK, NEW r \in Requests, Patch(r)
  PROVE  TypeOK'
<1> USE DEF TypeOK, TableTypeOK, DockerTypeOK, SessionsOK, table, docker, Exists
<1>1. CASE CommitPatch(r)
  BY <1>1, FlushType, DoneType DEF CommitPatch, TableOK
<1>2. CASE PatchFails(r)
  BY <1>2, FaultType, DoneType DEF PatchFails
<1> QED BY <1>1, <1>2 DEF Patch

LEMMA StartPatchType ==
  ASSUME TypeOK, NEW r \in Requests, NEW a \in AppIds, NEW st \in Statuses,
         NEW b \in Branches, StartPatch(r, a, st, b)
  PROVE  TypeOK'
<1> DEFINE mem == [rows[a] EXCEPT !.status = st, !.branch = b]
           s   == Loaded("patch", "p_commit", a, mem)
<1>1. mem \in Row /\ mem.branch \in Branches
  BY DEF TypeOK, TableTypeOK, Row
<1>2. s \in Session
  BY <1>1, LoadedType DEF AllOps, Pcs
<1>3. s.app = a /\ s.mem = mem
  BY DEF Loaded
<1>4. reqs' = [reqs EXCEPT ![r] = s]
  BY DEF StartPatch
<1> HIDE DEF s
<1>5. SessionsOK'
  BY <1>1, <1>2, <1>3, <1>4 DEF SessionsOK, TypeOK
<1> QED
  BY <1>5
  DEF StartPatch, SessionsOK, table, docker, TypeOK, TableTypeOK, DockerTypeOK, Exists

LEMMA TypeStep == TypeOK /\ [Next]_vars => TypeOK'
<1> SUFFICES ASSUME TypeOK, [Next]_vars PROVE TypeOK'
  OBVIOUS
<1>1. ASSUME NEW r \in Requests, Request(r) PROVE TypeOK'
  BY <1>1, CreateType, StartDeployType, StartDeleteType, StartPatchType DEF Request
<1>2. ASSUME NEW r \in Requests, Step(r) PROVE TypeOK'
  BY <1>2, DeployType, DeleteType, PatchType DEF Step
<1>3. CASE Crash
  BY <1>3, IdleType, FaultType
  DEF Crash, table, docker, TypeOK, TableTypeOK, DockerTypeOK, Exists, Idle
<1>4. CASE UNCHANGED vars
  BY <1>4 DEF vars, TypeOK, TableTypeOK, DockerTypeOK, Exists
<1> QED BY <1>1, <1>2, <1>3, <1>4 DEF Next

(***************************************************************************)
(* Every variable keeps its type.                                          *)
(***************************************************************************)
THEOREM TypeCorrect == Spec => []TypeOK
  BY TypeInit, TypeStep, PTL DEF Spec

--------------------------------------------------------------------------------
(* The table under concurrent requests *)

(***************************************************************************)
(* All that a step ever does to the table: a request inserts a row,        *)
(* flushes its session or deletes its row.                                 *)
(***************************************************************************)
Flushes(r) ==
  /\ reqs[r].pc # "idle"
  /\ Flush(reqs[r].app, reqs[r].base, reqs[r].mem)

Deletes(r) ==
  /\ reqs[r].pc # "idle"
  /\ DeleteRow(reqs[r].app)

LEMMA StepTable ==
  ASSUME NEW r \in Requests, Step(r)
  PROVE  UNCHANGED table \/ Flushes(r) \/ Deletes(r)
<1>1. ASSUME Deploy(r)
      PROVE  UNCHANGED table \/ Flushes(r)
  BY <1>1
  DEF Deploy, ForceRebuild, ForceRebuildFails, Fetch, Commit, Checkout, Build, FindContainer,
      RmContainer, Snapshot, Probe, FindImage, StartContainer, WriteConf, CommitFails,
      StepRaises, RecordError, RecordErrorFails, RollbackPending, Flushes
<1>2. ASSUME Delete(r)
      PROVE  UNCHANGED table \/ Deletes(r)
  BY <1>2
  DEF Delete, FindContainer, RmContainer, RemoveAppImage, RemoveTree, RemoveConf, RemoveRow,
      DeleteRaises, Deletes
<1>3. ASSUME Patch(r)
      PROVE  UNCHANGED table \/ Flushes(r)
  BY <1>3 DEF Patch, CommitPatch, PatchFails, Flushes
<1> QED BY <1>1, <1>2, <1>3 DEF Step

LEMMA TableStep ==
  ASSUME [Next]_vars
  PROVE  \/ UNCHANGED table
         \/ \E a \in AppIds, b \in Branches : Insert(a, b)
         \/ \E r \in Requests : Flushes(r) \/ Deletes(r)
<1>1. ASSUME NEW r \in Requests, Request(r)
      PROVE  UNCHANGED table \/ \E a \in AppIds, b \in Branches : Insert(a, b)
  BY <1>1 DEF Request, CreateApp, StartDeploy, StartDelete, StartPatch
<1>2. CASE Crash
  BY <1>2 DEF Crash
<1>3. CASE UNCHANGED vars
  BY <1>3 DEF vars, table
<1> QED BY <1>1, <1>2, <1>3, StepTable DEF Next

LEMMA SessionTyped ==
  ASSUME TypeOK, NEW r \in Requests, reqs[r].pc # "idle"
  PROVE  reqs[r].app \in AppIds /\ reqs[r].base \in Row /\ reqs[r].mem \in Row
  BY DEF TypeOK, Session

LEMMA ExclusiveStep ==
  ASSUME UniquePort, TypeOK, NoSharedLease, [Next]_vars
  PROVE  NoSharedLease'
<1>1. CASE UNCHANGED table
  BY <1>1 DEF table, NoSharedLease
<1>2. ASSUME NEW a \in AppIds, NEW b \in Branches, Insert(a, b)
      PROVE  NoSharedLease'
  BY <1>2 DEF Insert, NoSharedLease, TypeOK, TableTypeOK
<1>3. ASSUME NEW r \in Requests, Flushes(r)
      PROVE  NoSharedLease'
  <2> DEFINE a == reqs[r].app
             p == Updated(a, reqs[r].base, reqs[r].mem).port
  <2>1. a \in AppIds
    BY <1>3, SessionTyped DEF Flushes
  <2>2. p # NoPort => \A c \in AppIds \ {a} : rows[c].port # p
    <3>1. CASE reqs[r].mem.port = reqs[r].base.port
      BY <2>1, <3>1 DEF Updated, NoSharedLease
    <3>2. CASE reqs[r].mem.port # reqs[r].base.port
      BY <1>3, <3>2 DEF Flushes, Flush, Rejected, Updated
    <3> QED BY <3>1, <3>2
  <2> QED
    BY <1>3, <2>1, <2>2 DEF Flushes, Flush, NoSharedLease, TypeOK, TableTypeOK
<1>4. ASSUME NEW r \in Requests, Deletes(r)
      PROVE  NoSharedLease'
  BY <1>4 DEF Deletes, DeleteRow, NoRow, NoSharedLease, TypeOK, TableTypeOK
<1> QED BY <1>1, <1>2, <1>3, <1>4, TableStep

(***************************************************************************)
(* With the UNIQUE constraint no two rows hold the same port, however many *)
(* requests work on the table at once: the constraint is checked by the    *)
(* flush that writes the port, and every other flush leaves the port alone *)
(* even if the session still has an old one in memory.                     *)
(***************************************************************************)
THEOREM LeasesExclusive ==
  ASSUME UniquePort
  PROVE  Spec => []NoSharedLease
<1>1. Init => NoSharedLease
  BY DEF Init, TableInit, NoRow, NoSharedLease
<1>2. TypeOK /\ NoSharedLease /\ [Next]_vars => NoSharedLease'
  BY ExclusiveStep
<1> QED BY <1>1, <1>2, TypeCorrect, PTL DEF Spec

(***************************************************************************)
(* A deleted row is not brought back by a request that had loaded it: with *)
(* anything to write its flush is rejected.                                *)
(***************************************************************************)
THEOREM DeletedStaysDeleted == Spec => NoResurrection
<1> DEFINE Comeback == \A a \in AppIds : ~Exists(a) /\ Exists(a)' =>
                         rows'[a].status = "created" /\ rows'[a].port = NoPort
<1>1. TypeOK /\ [Next]_vars => [Comeback]_vars
  <2> SUFFICES ASSUME TypeOK, [Next]_vars
               PROVE  Comeback
    OBVIOUS
  <2>1. CASE UNCHANGED table
    BY <2>1 DEF table, Exists
  <2>2. ASSUME NEW a \in AppIds, NEW b \in Branches, Insert(a, b)
        PROVE  Comeback
    BY <2>2 DEF Insert, Exists, TypeOK, TableTypeOK
  <2>3. ASSUME NEW r \in Requests, Flushes(r)
        PROVE  Comeback
    BY <2>3, SessionTyped
    DEF Flushes, Flush, Rejected, Updated, Exists, TypeOK, TableTypeOK
  <2>4. ASSUME NEW r \in Requests, Deletes(r)
        PROVE  Comeback
    BY <2>4 DEF Deletes, DeleteRow, NoRow, Exists, TypeOK, TableTypeOK
  <2> QED BY <2>1, <2>2, <2>3, <2>4, TableStep
<1> QED BY <1>1, TypeCorrect, PTL DEF Spec, NoResurrection

(***************************************************************************)
(* Ids are handed out in order: no row has an id larger than lastId.       *)
(***************************************************************************)
IdsOK == \A a \in AppIds : Exists(a) => a <= lastId

LEMMA IdsInOrder == Spec => []IdsOK
<1>1. Init => IdsOK
  BY DEF Init, TableInit, NoRow, IdsOK, Exists
<1>2. TypeOK /\ IdsOK /\ [Next]_vars => IdsOK'
  <2> SUFFICES ASSUME TypeOK, IdsOK, [Next]_vars
               PROVE  IdsOK'
    OBVIOUS
  <2>1. CASE UNCHANGED table
    BY <2>1 DEF table, IdsOK, Exists
  <2>2. ASSUME NEW a \in AppIds, NEW b \in Branches, Insert(a, b)
        PROVE  IdsOK'
    BY <2>2, TableAssumption DEF Insert, IdsOK, Exists, TypeOK, TableTypeOK, AppIds
  <2>3. ASSUME NEW r \in Requests, Flushes(r)
        PROVE  IdsOK'
    BY <2>3, SessionTyped
    DEF Flushes, Flush, Rejected, Updated, IdsOK, Exists, TypeOK, TableTypeOK
  <2>4. ASSUME NEW r \in Requests, Deletes(r)
        PROVE  IdsOK'
    BY <2>4 DEF Deletes, DeleteRow, NoRow, IdsOK, Exists, TypeOK, TableTypeOK
  <2> QED BY <2>1, <2>2, <2>3, <2>4, TableStep
<1> QED BY <1>1, <1>2, TypeCorrect, PTL DEF Spec

(***************************************************************************)
(* No commit sets a column back to a value its request merely loaded.      *)
(***************************************************************************)
THEOREM UpdatesKept == Spec => NoLostUpdate
<1> DEFINE Kept ==
      \A a \in AppIds : Exists(a) /\ Exists(a)' =>
        \A col \in {"status", "port", "branch"} :
          rows'[a][col] # rows[a][col] =>
            \E r \in Requests :
              /\ reqs[r].app = a
              /\ reqs[r].mem[col] = rows'[a][col]
              /\ reqs[r].base[col] # reqs[r].mem[col]
<1>1. TypeOK /\ IdsOK /\ [Next]_vars => [Kept]_vars
  <2> SUFFICES ASSUME TypeOK, IdsOK, [Next]_vars
               PROVE  Kept
    OBVIOUS
  <2>1. CASE UNCHANGED table
    BY <2>1 DEF table
  <2>2. ASSUME NEW a \in AppIds, NEW b \in Branches, Insert(a, b)
        PROVE  Kept
    <3>1. ~Exists(a)
      BY <2>2, TableAssumption
      DEF Insert, NextId, IdsOK, Exists, TypeOK, TableTypeOK, AppIds
    <3> QED BY <2>2, <3>1 DEF Insert, TypeOK, TableTypeOK
  <2>3. ASSUME NEW r \in Requests, Flushes(r)
        PROVE  Kept
    BY <2>3, SessionTyped DEF Flushes, Flush, Updated, TypeOK, TableTypeOK
  <2>4. ASSUME NEW r \in Requests, Deletes(r)
        PROVE  Kept
    BY <2>4 DEF Deletes, DeleteRow, NoRow, Exists, TypeOK, TableTypeOK
  <2> QED BY <2>1, <2>2, <2>3, <2>4, TableStep
<1> QED BY <1>1, TypeCorrect, IdsInOrder, PTL DEF Spec, NoLostUpdate
================================================================================
