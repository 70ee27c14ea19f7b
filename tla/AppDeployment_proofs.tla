-------------------------- MODULE AppDeployment_proofs --------------------------
(***************************************************************************)
(* The invariants of AppCorrectness that hold when no two requests work on *)
(* one app at a time, for any number of apps, ports, requests and          *)
(* failures.  They share one inductive invariant, Inv: what a request      *)
(* knows about its app at each of its steps (Mine).                        *)
(***************************************************************************)
EXTENDS AppLifecycle_proofs

--------------------------------------------------------------------------------
(* What a request knows *)

BuiltPcs    == {"find_old", "rm_old", "commit_null", "snapshot", "probe", "commit_port",
                "find_image", "find_again", "rm_again", "start"}
PreparedPcs == BuiltPcs \cup {"checkout", "build"}
LeasedPcs   == {"commit_port", "find_image", "find_again", "rm_again", "start"}
GonePcs     == {"commit_null", "snapshot", "probe", "commit_port", "find_image", "find_again",
                "start", "d_image", "d_tree", "d_conf", "d_row"}
DeleteOps   == {"delete", "admin_delete"}

\* its copy of the row is the row
Fresh(s) ==
  /\ s.app \in AppIds
  /\ Exists(s.app)
  /\ s.base = rows[s.app]
  /\ s.mem.status # "absent"
  /\ s.pc \notin {"commit_null", "commit_port", "dead"} => s.mem.port = s.base.port

\* it takes the steps of its operation
Operates(s) ==
  /\ s.op \in Ops
  /\ s.pc \in DeletePcs => s.op \in DeleteOps
  /\ s.pc = "p_commit" => s.op = "patch"

\* the row is "prepared" from the first commit to the last, and the tree, the
\* image, the port and the container are the ones it has made
Deploying(s) ==
  /\ s.pc = "commit_prepared" => s.mem.status = "prepared"
  /\ s.pc \in PreparedPcs => s.base.status = "prepared" /\ s.mem.status = "prepared"
  /\ s.pc = "build" => trees[s.app] = s.mem.branch
  /\ s.pc \in BuiltPcs => images[s.app] = s.mem.branch
  /\ s.pc \in LeasedPcs => s.mem.port \in Ports
  /\ s.pc \in LeasedPcs /\ ProbeSeesHost => s.mem.port \notin HostPorts
  /\ s.pc = "commit_running" =>
       /\ s.base.status = "prepared" /\ s.mem.status = "running"
       /\ containers[s.app].up
       /\ containers[s.app].port = s.mem.port
       /\ containers[s.app].branch = s.mem.branch
  /\ s.pc = "handler" => s.mem.status = "error"

\* where docker ps and docker rm do not fail, a container it has removed is gone
Removed(s) ==
  {"ps", "rm"} \cap FaultKinds = {} =>
    /\ s.pc \in {"rm_old", "rm_again", "d_rm"} => s.cid = containers[s.app].id
    /\ s.pc \in GonePcs => containers[s.app] = NoContainer

\* what a deletion has removed stays removed
Deleting(s) ==
  /\ s.pc \in {"d_tree", "d_conf", "d_row"} =>
       images[s.app] = NoBranch /\ ~containers[s.app].up
  /\ s.pc = "d_row" \/ (s.op = "delete" /\ s.pc = "d_conf") => trees[s.app] = "absent"
  /\ "conf" \notin FaultKinds /\ (s.pc = "d_row" \/ (s.op = "admin_delete" /\ s.pc = "d_tree")) =>
       confs[s.app] = NoPort

Mine(s) ==
  s.pc # "idle" => Fresh(s) /\ Operates(s) /\ Deploying(s) /\ Removed(s) /\ Deleting(s)

Alone ==
  \A r, q \in Requests :
    reqs[r].pc # "idle" /\ reqs[q].pc # "idle" /\ reqs[r].app = reqs[q].app => r = q

\* what holds of an app whoever works on it
Imaged  == \A a \in AppIds : containers[a].up => images[a] # NoBranch
Unnamed == ~NginxEnabled => \A a \in AppIds : confs[a] = NoPort

Inv ==
  /\ IdsOK
  /\ Alone
  /\ Imaged
  /\ Unnamed
  /\ \A r \in Requests : Mine(reqs[r])

--------------------------------------------------------------------------------
(* The reach of a step *)

(***************************************************************************)
(* A request works on its own session and its own app.                     *)
(***************************************************************************)
Reach(r) ==
  /\ \A q \in Requests \ {r} : reqs'[q] = reqs[q]
  /\ \A a \in AppIds \ {reqs[r].app} :
       /\ rows'[a] = rows[a]
       /\ containers'[a] = containers[a]
       /\ images'[a] = images[a]
       /\ trees'[a] = trees[a]
       /\ confs'[a] = confs[a]

LEMMA ReachOfStep ==
  ASSUME TypeOK, NEW r \in Requests, Step(r)
  PROVE  Reach(r) /\ reqs[r].pc # "idle"
<1> USE DEF TypeOK, TableTypeOK, DockerTypeOK, table, docker, Goto, Done, Reach
<1>1. CASE ForceRebuild(r) \/ ForceRebuildFails(r) \/ Fetch(r) \/ Checkout(r) \/ Build(r)
  BY <1>1 DEF ForceRebuild, ForceRebuildFails, Fetch, Checkout, Build, BuildImage
<1>2. ASSUME NEW here \in Pcs \ {"idle"}, NEW next, Commit(r, here, next)
      PROVE  Reach(r) /\ reqs[r].pc # "idle"
  BY <1>2 DEF Commit, Flush
<1>3. ASSUME NEW here \in Pcs \ {"idle"}, NEW found, NEW missing,
             FindContainer(r, here, found, missing)
      PROVE  Reach(r) /\ reqs[r].pc # "idle"
  BY <1>3 DEF FindContainer
<1>4. ASSUME NEW here \in Pcs \ {"idle"}, NEW next, NEW port, RmContainer(r, here, next, port)
      PROVE  Reach(r) /\ reqs[r].pc # "idle"
  BY <1>4 DEF RmContainer, RemoveContainer
<1>5. CASE Snapshot(r) \/ Probe(r) \/ FindImage(r) \/ WriteConf(r)
  BY <1>5 DEF Snapshot, Probe, TakePort, FindImage, WriteConf, SetConf
<1>6. CASE StartContainer(r)
  BY <1>6 DEF StartContainer, CreateContainer
<1>7. CASE CommitFails(r) \/ StepRaises(r) \/ RecordError(r) \/ RecordErrorFails(r)
             \/ RollbackPending(r)
  BY <1>7
  DEF CommitFails, StepRaises, CannotProceed, RecordError, RecordErrorFails, RollbackPending,
      Flush
<1>8. CASE RemoveAppImage(r) \/ RemoveTree(r) \/ RemoveConf(r) \/ RemoveRow(r) \/ DeleteRaises(r)
  BY <1>8
  DEF RemoveAppImage, RemoveImage, RemoveTree, RemoveConf, SetConf, RemoveRow, DeleteRow,
      DeleteRaises
<1>9. CASE Patch(r)
  BY <1>9 DEF Patch, CommitPatch, PatchFails, Flush
<1> HIDE DEF TypeOK, TableTypeOK, DockerTypeOK, table, docker, Goto, Done, Reach
<1>10. TryPcs \cup DeletePcs \subseteq Pcs \ {"idle"}
  BY DEF Pcs, TryPcs, DeletePcs
<1>11. CASE Deploy(r)
  BY <1>1, <1>2, <1>3, <1>4, <1>5, <1>6, <1>7, <1>10, <1>11 DEF Deploy, TryPcs
<1>12. CASE Delete(r)
  BY <1>3, <1>4, <1>8, <1>10, <1>12 DEF Delete, DeletePcs
<1> QED BY <1>9, <1>11, <1>12 DEF Step

--------------------------------------------------------------------------------
(* What the steps of a request keep of what it knows *)

(***************************************************************************)
(* The fields of a session after a step that only moves it on.             *)
(***************************************************************************)
Same(r) ==
  /\ reqs'[r].app = reqs[r].app
  /\ reqs'[r].op = reqs[r].op
  /\ reqs'[r].base = reqs[r].base

LEMMA GotoFields ==
  ASSUME TypeOK, NEW r \in Requests, NEW pc, Goto(r, pc)
  PROVE  Same(r) /\ reqs'[r].pc = pc /\ reqs'[r].mem = reqs[r].mem /\ reqs'[r].cid = reqs[r].cid
  BY DEF TypeOK, Session, Goto, Same

LEMMA DoneFields ==
  ASSUME TypeOK, NEW r \in Requests, Done(r)
  PROVE  reqs'[r].pc = "idle"
  BY DEF TypeOK, Done, Idle

LEMMA IdleMine ==
  ASSUME NEW r \in Requests, reqs'[r].pc = "idle"
  PROVE  Mine(reqs[r])'
  BY DEF Mine

(***************************************************************************)
(* A flush of a session whose copy is the row leaves the session's copy.   *)
(***************************************************************************)
LEMMA FlushWrites ==
  ASSUME TypeOK, NEW r \in Requests, reqs[r].pc # "idle", Fresh(reqs[r]),
         Flush(reqs[r].app, reqs[r].base, reqs[r].mem)
  PROVE  rows'[reqs[r].app] = reqs[r].mem
<1> DEFINE a == reqs[r].app  base == reqs[r].base  mem == reqs[r].mem
<1>1. a \in AppIds /\ mem \in Row /\ rows[a] \in Row /\ base = rows[a]
  BY SessionTyped DEF Fresh, TypeOK, TableTypeOK
<1>2. Updated(a, base, mem) = [status |-> mem.status, port |-> mem.port, branch |-> mem.branch]
  BY <1>1 DEF Updated
<1>3. Updated(a, base, mem) = mem
  BY <1>1, <1>2 DEF Row
<1> QED BY <1>1, <1>3 DEF Flush, TypeOK, TableTypeOK

CommitSteps == {<<"commit_prepared", "checkout">>, <<"commit_null", "snapshot">>,
                <<"commit_port", "find_image">>, <<"commit_running", "write_conf">>}

LEMMA CommitMine ==
  ASSUME TypeOK, NEW r \in Requests, Mine(reqs[r]),
         NEW here, NEW next, <<here, next>> \in CommitSteps, Commit(r, here, next)
  PROVE  Mine(reqs[r])'
<1> DEFINE a == reqs[r].app  mem == reqs[r].mem
<1>1. reqs[r].pc = here /\ reqs[r].pc # "idle" /\ Fresh(reqs[r])
  BY DEF Commit, CommitSteps, Mine
<1>2. rows'[a] = mem
  BY <1>1, FlushWrites DEF Commit
<1>3. /\ reqs'[r].pc = next /\ reqs'[r].app = a /\ reqs'[r].op = reqs[r].op
      /\ reqs'[r].base = mem /\ reqs'[r].mem = mem /\ reqs'[r].cid = reqs[r].cid
  BY DEF Commit, TypeOK, Session
<1>4. UNCHANGED <<containers, images, trees, confs>>
  BY DEF Commit, docker
<1>5. Fresh(reqs[r])'
  BY <1>1, <1>2, <1>3 DEF Fresh, Exists
<1>6. Operates(reqs[r])'
  BY <1>1, <1>3 DEF Mine, Operates, CommitSteps, DeletePcs
<1>7. Deploying(reqs[r])'
  BY <1>1, <1>3, <1>4
  DEF Mine, Deploying, CommitSteps, PreparedPcs, BuiltPcs, LeasedPcs
<1>8. Removed(reqs[r])'
  BY <1>1, <1>3, <1>4 DEF Mine, Removed, CommitSteps, GonePcs
<1>9. Deleting(reqs[r])'
  BY <1>1, <1>3, <1>4 DEF Mine, Deleting, CommitSteps
<1> QED BY <1>5, <1>6, <1>7, <1>8, <1>9 DEF Mine

(***************************************************************************)
(* deploy_app up to the image.                                             *)
(***************************************************************************)
LEMMA BuildMine ==
  ASSUME TypeOK, NEW r \in Requests, Mine(reqs[r]),
         ForceRebuild(r) \/ ForceRebuildFails(r) \/ Fetch(r) \/ Checkout(r) \/ Build(r)
  PROVE  Mine(reqs[r])'
<1>1. CASE ForceRebuildFails(r)
  BY <1>1, DoneFields, IdleMine DEF ForceRebuildFails
<1>2. CASE ForceRebuild(r) \/ Fetch(r) \/ Checkout(r) \/ Build(r)
  <2>1. /\ reqs[r].pc \in {"rmtree", "fetch", "checkout", "build"}
        /\ Fresh(reqs[r]) /\ Operates(reqs[r]) /\ Deploying(reqs[r])
    BY <1>2 DEF ForceRebuild, Fetch, Checkout, Build, Mine
  <2>2. UNCHANGED <<rows, containers>>
    BY <1>2 DEF ForceRebuild, Fetch, Checkout, Build, BuildImage, table, docker
  <2>3. /\ Same(r)
        /\ reqs'[r].mem.port = reqs[r].mem.port /\ reqs'[r].mem.branch = reqs[r].mem.branch
        /\ reqs'[r].mem.status \in {reqs[r].mem.status, "prepared"}
    <3>1. CASE Fetch(r)
      BY <3>1 DEF Fetch, Same, TypeOK, Session, Row
    <3> QED BY <1>2, <3>1, GotoFields DEF ForceRebuild, Checkout, Build
  <2>4. reqs'[r].pc \in {"fetch", "commit_prepared", "build", "find_old"}
    BY <1>2, GotoFields DEF ForceRebuild, Checkout, Build, Fetch, TypeOK, Session
  <2>5. Deploying(reqs[r])'
    <3>1. CASE ForceRebuild(r)
      BY <3>1, GotoFields DEF ForceRebuild, Deploying, PreparedPcs, BuiltPcs, LeasedPcs
    <3>2. CASE Fetch(r)
      BY <3>2 DEF Fetch, TypeOK, Session, Row, Deploying, PreparedPcs, BuiltPcs, LeasedPcs
    <3>3. CASE Checkout(r)
      BY <2>1, <2>2, <3>3, GotoFields
      DEF Checkout, Fresh, TypeOK, Same, Deploying, PreparedPcs, BuiltPcs, LeasedPcs
    <3>4. CASE Build(r)
      BY <2>1, <2>2, <3>4, GotoFields
      DEF Build, BuildImage, Fresh, TypeOK, DockerTypeOK, Same, Deploying, PreparedPcs, BuiltPcs,
          LeasedPcs
    <3> QED BY <1>2, <3>1, <3>2, <3>3, <3>4
  <2>6. Fresh(reqs[r])' /\ Operates(reqs[r])'
    BY <2>1, <2>2, <2>3, <2>4 DEF Same, Fresh, Exists, Operates, DeletePcs
  <2>7. Removed(reqs[r])' /\ Deleting(reqs[r])'
    BY <2>4 DEF Removed, GonePcs, Deleting
  <2> QED BY <2>5, <2>6, <2>7 DEF Mine
<1> QED BY <1>1, <1>2

(***************************************************************************)
(* docker_container_exists and docker_remove_container.                    *)
(***************************************************************************)
FindSteps == {<<"find_old", "rm_old", "snapshot">>, <<"find_again", "rm_again", "start">>,
              <<"d_find", "d_rm", "d_image">>}
RmSteps   == {<<"rm_old", "commit_null">>, <<"rm_again", "start">>, <<"d_rm", "d_image">>}

LEMMA FindMine ==
  ASSUME TypeOK, NEW r \in Requests, Mine(reqs[r]),
         NEW here, NEW found, NEW missing, <<here, found, missing>> \in FindSteps,
         FindContainer(r, here, found, missing)
  PROVE  Mine(reqs[r])'
<1> DEFINE c == containers[reqs[r].app]
<1>1. /\ reqs[r].pc = here
      /\ Fresh(reqs[r]) /\ Operates(reqs[r]) /\ Deploying(reqs[r])
  BY DEF FindContainer, FindSteps, Mine
<1>2. UNCHANGED <<rows, containers, images, trees, confs>>
  BY DEF FindContainer, table, docker
<1>3. /\ Same(r) /\ reqs'[r].mem = reqs[r].mem
      /\ \/ reqs'[r].pc = found /\ reqs'[r].cid = c.id
         \/ reqs'[r].pc = missing /\ ("ps" \notin FaultKinds => c = NoContainer)
  <2>1. CASE reqs' = [reqs EXCEPT ![r].pc = found, ![r].cid = c.id]
    BY <2>1 DEF TypeOK, Session, Same
  <2>2. CASE Goto(r, missing) /\ ((c = NoContainer /\ NoFault) \/ Fault("ps"))
    BY <2>2, GotoFields DEF Fault
  <2> QED BY <2>1, <2>2 DEF FindContainer
<1>4. Fresh(reqs[r])' /\ Operates(reqs[r])'
  BY <1>1, <1>2, <1>3 DEF Same, Fresh, Exists, Operates, FindSteps, DeletePcs
<1>5. Deploying(reqs[r])'
  BY <1>1, <1>2, <1>3 DEF Same, Deploying, FindSteps, PreparedPcs, BuiltPcs, LeasedPcs
<1>6. Removed(reqs[r])'
  BY <1>2, <1>3 DEF Same, Removed, FindSteps, GonePcs
<1>7. Deleting(reqs[r])'
  BY <1>3 DEF Deleting, FindSteps
<1> QED BY <1>4, <1>5, <1>6, <1>7 DEF Mine

LEMMA RmMine ==
  ASSUME TypeOK, NEW r \in Requests, Mine(reqs[r]),
         NEW here, NEW next, <<here, next>> \in RmSteps,
         NEW port, here # "rm_old" => port = reqs[r].mem.port,
         RmContainer(r, here, next, port)
  PROVE  Mine(reqs[r])'
<1> DEFINE a == reqs[r].app
<1>1. /\ reqs[r].pc = here
      /\ Fresh(reqs[r]) /\ Operates(reqs[r]) /\ Deploying(reqs[r]) /\ Removed(reqs[r])
  BY DEF RmContainer, RmSteps, Mine
<1>2. UNCHANGED <<rows, images, trees, confs>>
  BY DEF RmContainer, RemoveContainer, table, docker
<1>3. /\ Same(r) /\ reqs'[r].pc = next
      /\ reqs'[r].mem.port = port
      /\ reqs'[r].mem.status = reqs[r].mem.status /\ reqs'[r].mem.branch = reqs[r].mem.branch
  BY DEF RmContainer, Same, TypeOK, Session, Row
<1>4. {"ps", "rm"} \cap FaultKinds = {} => containers'[a] = NoContainer
  <2>1. ASSUME {"ps", "rm"} \cap FaultKinds = {}
        PROVE  reqs[r].cid = containers[a].id /\ RemoveContainer(a, reqs[r].cid)
    BY <1>1, <2>1 DEF Removed, RmSteps, RmContainer, Fault
  <2> QED BY <1>1, <2>1 DEF RemoveContainer, Fresh, TypeOK, DockerTypeOK
<1>5. Fresh(reqs[r])' /\ Operates(reqs[r])'
  BY <1>1, <1>2, <1>3 DEF Same, Fresh, Exists, Operates, RmSteps, DeletePcs
<1>6. Deploying(reqs[r])'
  BY <1>1, <1>2, <1>3 DEF Same, Deploying, RmSteps, PreparedPcs, BuiltPcs, LeasedPcs
<1>7. Removed(reqs[r])'
  BY <1>3, <1>4 DEF Same, Removed, RmSteps, GonePcs
<1>8. Deleting(reqs[r])'
  BY <1>3 DEF Deleting, RmSteps
<1> QED BY <1>5, <1>6, <1>7, <1>8 DEF Mine

(***************************************************************************)
(* allocate_free_port and docker_run.                                      *)
(***************************************************************************)
LEMMA PortMine ==
  ASSUME TypeOK, NEW r \in Requests, Mine(reqs[r]), Snapshot(r) \/ Probe(r) \/ FindImage(r)
  PROVE  Mine(reqs[r])'
<1>1. /\ reqs[r].pc \in {"snapshot", "probe", "find_image"}
      /\ Fresh(reqs[r]) /\ Operates(reqs[r]) /\ Deploying(reqs[r]) /\ Removed(reqs[r])
  BY DEF Snapshot, Probe, FindImage, Mine
<1>2. UNCHANGED <<rows, containers, images, trees, confs>>
  BY DEF Snapshot, Probe, FindImage, table, docker
<1>3. /\ Same(r)
      /\ reqs'[r].mem.status = reqs[r].mem.status /\ reqs'[r].mem.branch = reqs[r].mem.branch
      /\ \/ /\ reqs'[r].pc \in {"probe", "find_again"}
            /\ reqs'[r].pc = "find_again" => reqs[r].pc = "find_image"
            /\ reqs'[r].mem.port = reqs[r].mem.port
         \/ /\ reqs'[r].pc = "commit_port"
            /\ reqs'[r].mem.port \in Ports
            /\ ProbeSeesHost => reqs'[r].mem.port \notin HostPorts
  <2>1. CASE Snapshot(r)
    BY <2>1 DEF Snapshot, Same, TypeOK, Session
  <2>2. CASE FindImage(r)
    BY <2>2, GotoFields DEF FindImage
  <2>3. CASE Probe(r)
    <3>1. PICK p \in reqs[r].cand :
            reqs' = IF ProbeSeesHost /\ p \in BoundPorts
                    THEN [reqs EXCEPT ![r].cand = @ \ {p}]
                    ELSE TakePort(r, p)
      BY <2>3 DEF Probe
    <3>2. CASE ProbeSeesHost /\ p \in BoundPorts
      BY <2>3, <3>1, <3>2 DEF Probe, Same, TypeOK, Session
    <3>3. CASE ~(ProbeSeesHost /\ p \in BoundPorts)
      <4>1. p \in Ports /\ (ProbeSeesHost => p \notin HostPorts)
        BY <3>3 DEF BoundPorts, TypeOK, Session
      <4>2. /\ Same(r) /\ reqs'[r].pc = "commit_port" /\ reqs'[r].mem.port = p
            /\ reqs'[r].mem.status = reqs[r].mem.status
            /\ reqs'[r].mem.branch = reqs[r].mem.branch
        BY <3>1, <3>3 DEF TakePort, Same, TypeOK, Session, Row
      <4> QED BY <4>1, <4>2
    <3> QED BY <3>2, <3>3
  <2> QED BY <2>1, <2>2, <2>3
<1>4. Fresh(reqs[r])' /\ Operates(reqs[r])'
  BY <1>1, <1>2, <1>3 DEF Same, Fresh, Exists, Operates, DeletePcs
<1>5. Deploying(reqs[r])'
  BY <1>1, <1>2, <1>3 DEF Same, Deploying, PreparedPcs, BuiltPcs, LeasedPcs
<1>6. Removed(reqs[r])'
  BY <1>1, <1>2, <1>3 DEF Same, Removed, GonePcs
<1>7. Deleting(reqs[r])'
  BY <1>3 DEF Deleting
<1> QED BY <1>4, <1>5, <1>6, <1>7 DEF Mine

LEMMA StartMine ==
  ASSUME TypeOK, NEW r \in Requests, Mine(reqs[r]), StartContainer(r)
  PROVE  Mine(reqs[r])'
<1> DEFINE a == reqs[r].app
<1>1. reqs[r].pc = "start" /\ Fresh(reqs[r]) /\ Operates(reqs[r]) /\ Deploying(reqs[r])
  BY DEF StartContainer, Mine
<1>2. UNCHANGED <<rows, images, trees, confs>>
  BY DEF StartContainer, CreateContainer, table
<1>3. PICK c \in Cids, started \in BOOLEAN :
        /\ containers' = [containers EXCEPT ![a] =
                            [id |-> c, port |-> reqs[r].mem.port, up |-> started,
                             branch |-> images[a]]]
        /\ reqs' = [reqs EXCEPT
                      ![r].pc = IF started THEN "commit_running" ELSE "handler",
                      ![r].mem.status = IF started THEN "running" ELSE "error"]
  BY DEF StartContainer, CreateContainer
<1>4. /\ Same(r)
      /\ reqs'[r].pc = IF started THEN "commit_running" ELSE "handler"
      /\ reqs'[r].mem.status = IF started THEN "running" ELSE "error"
      /\ reqs'[r].mem.port = reqs[r].mem.port /\ reqs'[r].mem.branch = reqs[r].mem.branch
  BY <1>3 DEF Same, TypeOK, Session, Row
<1>5. /\ containers'[a].port = reqs[r].mem.port /\ containers'[a].up = started
      /\ containers'[a].branch = images[a]
  BY <1>1, <1>3 DEF Fresh, TypeOK, DockerTypeOK
<1>6. Fresh(reqs[r])' /\ Operates(reqs[r])'
  BY <1>1, <1>2, <1>4 DEF Same, Fresh, Exists, Operates, DeletePcs
<1>7. Deploying(reqs[r])'
  BY <1>1, <1>4, <1>5 DEF Same, Deploying, PreparedPcs, BuiltPcs, LeasedPcs
<1>8. Removed(reqs[r])' /\ Deleting(reqs[r])'
  BY <1>4 DEF Removed, GonePcs, Deleting
<1> QED BY <1>6, <1>7, <1>8 DEF Mine

(***************************************************************************)
(* The end of a deployment, and its failures.                              *)
(***************************************************************************)
LEMMA FailMine ==
  ASSUME TypeOK, NEW r \in Requests, Mine(reqs[r]),
         WriteConf(r) \/ CommitFails(r) \/ StepRaises(r) \/ RecordError(r)
           \/ RecordErrorFails(r) \/ RollbackPending(r)
  PROVE  Mine(reqs[r])'
<1>1. CASE WriteConf(r) \/ RecordError(r) \/ RecordErrorFails(r) \/ RollbackPending(r)
  BY <1>1, DoneFields, IdleMine DEF WriteConf, RecordError, RecordErrorFails, RollbackPending
<1>2. CASE CommitFails(r) \/ StepRaises(r)
  <2>1. /\ reqs[r].pc # "idle"
        /\ Fresh(reqs[r]) /\ Operates(reqs[r])
        /\ UNCHANGED rows
    BY <1>2 DEF CommitFails, StepRaises, CannotProceed, Mine, table
  <2>2. /\ Same(r)
        /\ \/ reqs'[r].pc = "dead" /\ reqs'[r].mem.status = reqs[r].mem.status
           \/ /\ reqs'[r].pc = "handler" /\ reqs'[r].mem.status = "error"
              /\ reqs'[r].mem.port = reqs[r].mem.port
              /\ reqs[r].pc \notin {"commit_null", "commit_port", "dead"}
    <3>1. CASE CommitFails(r)
      BY <3>1, GotoFields DEF CommitFails
    <3>2. CASE StepRaises(r)
      <4>1. reqs' = [reqs EXCEPT ![r].pc = "handler", ![r].mem.status = "error",
                                 ![r].cand = {}, ![r].cid = NoCid]
        BY <3>2 DEF StepRaises
      <4>2. /\ Same(r) /\ reqs'[r].pc = "handler" /\ reqs'[r].mem.status = "error"
            /\ reqs'[r].mem.port = reqs[r].mem.port
        BY <4>1 DEF Same, TypeOK, Session, Row
      <4> QED BY <3>2, <4>2 DEF StepRaises, CannotProceed
    <3> QED BY <1>2, <3>1, <3>2
  <2>3. Fresh(reqs[r])' /\ Operates(reqs[r])'
    BY <2>1, <2>2 DEF Same, Fresh, Exists, Operates, DeletePcs
  <2>4. Deploying(reqs[r])' /\ Removed(reqs[r])' /\ Deleting(reqs[r])'
    BY <2>2 DEF Deploying, PreparedPcs, BuiltPcs, LeasedPcs, Removed, GonePcs, Deleting
  <2> QED BY <2>3, <2>4 DEF Mine
<1> QED BY <1>1, <1>2

(***************************************************************************)
(* The deletions.                                                          *)
(***************************************************************************)
LEMMA DeleteMine ==
  ASSUME TypeOK, Imaged, Unnamed, NEW r \in Requests, Mine(reqs[r]),
         RemoveAppImage(r) \/ RemoveTree(r) \/ RemoveConf(r) \/ RemoveRow(r) \/ DeleteRaises(r)
  PROVE  Mine(reqs[r])'
<1> DEFINE a == reqs[r].app
<1>1. CASE RemoveRow(r) \/ DeleteRaises(r)
  BY <1>1, DoneFields, IdleMine DEF RemoveRow, DeleteRaises
<1>2. CASE RemoveAppImage(r) \/ RemoveTree(r) \/ RemoveConf(r)
  <2>1. /\ reqs[r].pc \in {"d_image", "d_tree", "d_conf"}
        /\ Fresh(reqs[r]) /\ Operates(reqs[r]) /\ Removed(reqs[r]) /\ Deleting(reqs[r])
    BY <1>2 DEF RemoveAppImage, RemoveTree, RemoveConf, Mine
  <2>2. reqs[r].op \in DeleteOps
    BY <2>1 DEF Operates, DeletePcs
  <2>3. UNCHANGED <<rows, containers>>
    BY <1>2 DEF RemoveAppImage, RemoveImage, RemoveTree, RemoveConf, table, docker
  <2>4. /\ Same(r) /\ reqs'[r].mem = reqs[r].mem
        /\ reqs'[r].pc \in {"d_tree", "d_conf", "d_row"}
    BY <1>2, GotoFields DEF RemoveAppImage, RemoveTree, RemoveConf
  <2>5. Deleting(reqs[r])'
    <3>1. CASE RemoveAppImage(r)
      <4>1. images'[a] = NoBranch /\ ~containers'[a].up
        BY <2>1, <2>3, <3>1
        DEF RemoveAppImage, RemoveImage, ImageInUse, Imaged, Fresh, TypeOK, DockerTypeOK
      <4>2. /\ reqs[r].op = "delete" => reqs'[r].pc = "d_tree"
            /\ reqs[r].op = "admin_delete" => reqs'[r].pc = "d_conf"
        BY <3>1, GotoFields DEF RemoveAppImage
      <4> QED BY <2>2, <2>4, <4>1, <4>2 DEF Deleting, Same, DeleteOps
    <3>2. CASE RemoveTree(r)
      <4>1. /\ trees'[a] = "absent" /\ UNCHANGED <<images, confs>>
            /\ reqs[r].pc = "d_tree"
        BY <2>1, <3>2 DEF RemoveTree, Fresh, TypeOK, docker
      <4>2. /\ reqs[r].op = "delete" => reqs'[r].pc = "d_conf"
            /\ reqs[r].op = "admin_delete" => reqs'[r].pc = "d_row"
        BY <3>2, GotoFields DEF RemoveTree
      <4> QED BY <2>1, <2>2, <2>3, <2>4, <4>1, <4>2 DEF Deleting, Same, DeleteOps
    <3>3. CASE RemoveConf(r)
      <4>1. UNCHANGED <<images, trees>> /\ reqs[r].pc = "d_conf"
        BY <3>3 DEF RemoveConf, docker
      <4>2. "conf" \notin FaultKinds => confs'[a] = NoPort
        BY <2>1, <3>3 DEF RemoveConf, SetConf, Fault, Unnamed, Fresh, TypeOK
      <4>3. /\ reqs[r].op = "delete" => reqs'[r].pc = "d_row"
            /\ reqs[r].op = "admin_delete" => reqs'[r].pc = "d_tree"
        BY <3>3, GotoFields DEF RemoveConf
      <4> QED BY <2>1, <2>2, <2>3, <2>4, <4>1, <4>2, <4>3 DEF Deleting, Same, DeleteOps
    <3> QED BY <1>2, <3>1, <3>2, <3>3
  <2>6. Fresh(reqs[r])' /\ Operates(reqs[r])'
    BY <2>1, <2>2, <2>3, <2>4 DEF Same, Fresh, Exists, Operates
  <2>7. Removed(reqs[r])'
    BY <2>1, <2>3, <2>4 DEF Same, Removed, GonePcs
  <2>8. Deploying(reqs[r])'
    BY <2>4 DEF Deploying, PreparedPcs, BuiltPcs, LeasedPcs
  <2> QED BY <2>5, <2>6, <2>7, <2>8 DEF Mine
<1> QED BY <1>1, <1>2

(***************************************************************************)
(* A request that goes on knows what it should know.                       *)
(***************************************************************************)
LEMMA StepMine ==
  ASSUME TypeOK, Imaged, Unnamed, NEW r \in Requests, Mine(reqs[r]), Step(r)
  PROVE  Mine(reqs[r])'
<1>1. CASE Deploy(r)
  <2>1. ASSUME NEW here, NEW next, <<here, next>> \in CommitSteps, Commit(r, here, next)
        PROVE  Mine(reqs[r])'
    BY <2>1, CommitMine
  <2>2. ASSUME NEW here, NEW found, NEW missing, <<here, found, missing>> \in FindSteps,
               FindContainer(r, here, found, missing)
        PROVE  Mine(reqs[r])'
    BY <2>2, FindMine
  <2>3. CASE RmContainer(r, "rm_old", "commit_null", NoPort)
    BY <2>3, RmMine DEF RmSteps
  <2>4. CASE RmContainer(r, "rm_again", "start", reqs[r].mem.port)
    BY <2>4, RmMine DEF RmSteps
  <2> QED
    BY <1>1, <2>1, <2>2, <2>3, <2>4, BuildMine, PortMine, StartMine, FailMine
    DEF Deploy, CommitSteps, FindSteps
<1>2. CASE Delete(r)
  <2>1. CASE FindContainer(r, "d_find", "d_rm", "d_image")
    BY <2>1, FindMine DEF FindSteps
  <2>2. CASE RmContainer(r, "d_rm", "d_image", reqs[r].mem.port)
    BY <2>2, RmMine DEF RmSteps
  <2> QED BY <1>2, <2>1, <2>2, DeleteMine DEF Delete
<1>3. CASE Patch(r)
  BY <1>3, DoneFields, IdleMine DEF Patch, CommitPatch, PatchFails
<1> QED BY <1>1, <1>2, <1>3 DEF Step

--------------------------------------------------------------------------------
(* The invariant *)

(***************************************************************************)
(* Another app's request knows what it knew.                               *)
(***************************************************************************)
LEMMA OthersMine ==
  ASSUME TypeOK, Alone, NEW r \in Requests, reqs[r].pc # "idle", Reach(r),
         NEW q \in Requests \ {r}, Mine(reqs[q])
  PROVE  Mine(reqs[q])'
<1>1. reqs'[q] = reqs[q]
  BY DEF Reach
<1>2. CASE reqs[q].pc = "idle"
  BY <1>1, <1>2 DEF Mine
<1>3. CASE reqs[q].pc # "idle"
  <2> DEFINE s == reqs[q]
  <2>1. s.app \in AppIds \ {reqs[r].app}
    BY <1>3 DEF Alone, Mine, Fresh
  <2>2. /\ rows'[s.app] = rows[s.app]
        /\ containers'[s.app] = containers[s.app]
        /\ images'[s.app] = images[s.app]
        /\ trees'[s.app] = trees[s.app]
        /\ confs'[s.app] = confs[s.app]
    BY <2>1 DEF Reach
  <2> QED
    BY <1>1, <1>3, <2>2 DEF Mine, Fresh, Exists, Operates, Deploying, Removed, Deleting
<1> QED BY <1>2, <1>3

LEMMA ImagedStep ==
  ASSUME TypeOK, Imaged, NEW r \in Requests, Step(r)
  PROVE  Imaged'
<1> USE DEF TypeOK, DockerTypeOK, docker, Imaged
<1>1. CASE Build(r)
  <2>1. trees[reqs[r].app] # NoBranch
    BY <1>1, TableAssumption DEF Build, HasClone
  <2> QED BY <1>1, <2>1 DEF Build, BuildImage
<1>2. ASSUME NEW here, NEW next, NEW port, RmContainer(r, here, next, port)
      PROVE  Imaged'
  BY <1>2 DEF RmContainer, RemoveContainer, NoContainer
<1>3. CASE StartContainer(r)
  BY <1>3 DEF StartContainer, CreateContainer, CanCreate
<1>4. CASE RemoveAppImage(r)
  BY <1>4 DEF RemoveAppImage, RemoveImage, ImageInUse
<1>5. ASSUME UNCHANGED docker
      PROVE  Imaged'
  BY <1>5
<1> HIDE DEF TypeOK, DockerTypeOK, docker, Imaged
<1>6. CASE Deploy(r)
  <2>1. CASE \/ ForceRebuild(r) \/ ForceRebuildFails(r) \/ Fetch(r) \/ Checkout(r)
             \/ Snapshot(r) \/ Probe(r) \/ FindImage(r) \/ WriteConf(r) \/ CommitFails(r)
             \/ StepRaises(r) \/ RecordError(r) \/ RecordErrorFails(r) \/ RollbackPending(r)
    BY <1>5, <2>1
    DEF ForceRebuild, ForceRebuildFails, Fetch, Checkout, Snapshot, Probe, FindImage, WriteConf,
        CommitFails, StepRaises, RecordError, RecordErrorFails, RollbackPending
  <2>2. ASSUME NEW here, NEW next, NEW other, Commit(r, here, next) \/ FindContainer(r, here, next, other)
        PROVE  Imaged'
    BY <1>5, <2>2 DEF Commit, FindContainer
  <2> QED BY <1>1, <1>2, <1>3, <1>6, <2>1, <2>2 DEF Deploy
<1>7. CASE Delete(r)
  BY <1>2, <1>4, <1>5, <1>7
  DEF Delete, FindContainer, RemoveTree, RemoveConf, RemoveRow, DeleteRaises
<1>8. CASE Patch(r)
  BY <1>5, <1>8 DEF Patch, CommitPatch, PatchFails
<1> QED BY <1>6, <1>7, <1>8 DEF Step

LEMMA UnnamedStep ==
  ASSUME Unnamed, NEW r \in Requests, Step(r)
  PROVE  Unnamed'
<1>1. ~NginxEnabled => UNCHANGED confs
  <2>1. CASE Deploy(r)
    BY <2>1
    DEF Deploy, ForceRebuild, ForceRebuildFails, Fetch, Commit, Checkout, Build, FindContainer,
        RmContainer, Snapshot, Probe, FindImage, StartContainer, WriteConf, SetConf, CommitFails,
        StepRaises, RecordError, RecordErrorFails, RollbackPending
  <2>2. CASE Delete(r)
    BY <2>2
    DEF Delete, FindContainer, RmContainer, RemoveAppImage, RemoveTree, RemoveConf, SetConf,
        RemoveRow, DeleteRaises
  <2>3. CASE Patch(r)
    BY <2>3 DEF Patch, CommitPatch, PatchFails
  <2> QED BY <2>1, <2>2, <2>3 DEF Step
<1> QED BY <1>1 DEF Unnamed

(***************************************************************************)
(* A request keeps its app until it returns.                               *)
(***************************************************************************)
LEMMA SameApp ==
  ASSUME TypeOK, NEW r \in Requests, Step(r)
  PROVE  reqs'[r].pc = "idle" \/ reqs'[r].app = reqs[r].app
<1>1. CASE Deploy(r)
  <2>0. CASE ForceRebuildFails(r) \/ RecordError(r) \/ RecordErrorFails(r)
             \/ RollbackPending(r) \/ WriteConf(r)
    BY <2>0, DoneFields
    DEF ForceRebuildFails, RecordError, RecordErrorFails, RollbackPending, WriteConf
  <2>1. CASE ForceRebuild(r) \/ Checkout(r) \/ Build(r) \/ CommitFails(r) \/ FindImage(r)
    BY <2>1, GotoFields DEF ForceRebuild, Checkout, Build, CommitFails, FindImage, Same
  <2>2. CASE Fetch(r) \/ Snapshot(r)
    BY <2>2 DEF Fetch, Snapshot, TypeOK, Session
  <2>3. CASE Probe(r)
    BY <2>3 DEF Probe, TakePort, TypeOK, Session
  <2>4. CASE StartContainer(r)
    BY <2>4 DEF StartContainer, TypeOK, Session
  <2>5. CASE StepRaises(r)
    <3>1. reqs' = [reqs EXCEPT ![r].pc = "handler", ![r].mem.status = "error",
                               ![r].cand = {}, ![r].cid = NoCid]
      BY <2>5 DEF StepRaises
    <3> QED BY <3>1 DEF TypeOK, Session
  <2>6. ASSUME NEW here, NEW next, NEW other, NEW port,
               \/ Commit(r, here, next) \/ FindContainer(r, here, next, other)
               \/ RmContainer(r, here, next, port)
        PROVE  reqs'[r].app = reqs[r].app
    BY <2>6, GotoFields DEF Commit, FindContainer, RmContainer, Same, TypeOK, Session
  <2> QED BY <1>1, <2>0, <2>1, <2>2, <2>3, <2>4, <2>5, <2>6 DEF Deploy
<1>2. CASE Delete(r)
  <2>1. ASSUME NEW here, NEW next, NEW other, NEW port,
               FindContainer(r, here, next, other) \/ RmContainer(r, here, next, port)
        PROVE  reqs'[r].app = reqs[r].app
    BY <2>1, GotoFields DEF FindContainer, RmContainer, Same, TypeOK, Session
  <2> QED
    BY <1>2, <2>1, GotoFields, DoneFields
    DEF Delete, RemoveAppImage, RemoveTree, RemoveConf, RemoveRow, DeleteRaises, Same
<1>3. CASE Patch(r)
  BY <1>3, DoneFields DEF Patch, CommitPatch, PatchFails
<1> QED BY <1>1, <1>2, <1>3 DEF Step

(***************************************************************************)
(* A step of a request leaves the others' apps to them.                    *)
(***************************************************************************)
LEMMA AloneStep ==
  ASSUME TypeOK, Alone, NEW r \in Requests, Step(r)
  PROVE  Alone'
  BY SameApp, ReachOfStep DEF Alone, Reach

(***************************************************************************)
(* A request that comes in has its app to itself.                          *)
(***************************************************************************)
Enters(r, a) ==
  /\ \A q \in Requests : reqs[q].app # a
  /\ \A q \in Requests \ {r} : reqs'[q] = reqs[q]
  /\ reqs'[r].app = a
  /\ \A b \in AppIds \ {a} : trees'[b] = trees[b]
  /\ UNCHANGED <<rows, lastId, containers, images, confs>>

LEMMA EntersInv ==
  ASSUME TypeOK, Inv, NEW r \in Requests, NEW a \in AppIds, Enters(r, a), Mine(reqs[r])'
  PROVE  Inv'
<1>1. IdsOK'
  BY DEF Inv, IdsOK, Enters, Exists
<1>2. Imaged' /\ Unnamed'
  BY DEF Inv, Imaged, Unnamed, Enters
<1>3. Alone'
  BY DEF Inv, Alone, Enters
<1>4. ASSUME NEW q \in Requests \ {r}
      PROVE  Mine(reqs[q])'
  <2>1. Mine(reqs[q]) /\ reqs'[q] = reqs[q] /\ reqs[q].app # a
    BY DEF Inv, Enters
  <2>2. reqs[q].pc # "idle" => trees'[reqs[q].app] = trees[reqs[q].app]
    BY <2>1 DEF Mine, Fresh, Enters
  <2> QED
    BY <2>1, <2>2
    DEF Enters, Mine, Fresh, Exists, Operates, Deploying, Removed, Deleting
<1> QED BY <1>1, <1>2, <1>3, <1>4 DEF Inv

LEMMA CreateInv ==
  ASSUME TypeOK, Inv, NEW r \in Requests, NEW a \in AppIds, NEW b \in Branches, CreateApp(r, a, b)
  PROVE  Inv'
<1>1. ~Exists(a)
  BY TableAssumption DEF CreateApp, Insert, NextId, Inv, IdsOK, Exists, TypeOK, TableTypeOK, AppIds
<1>2. /\ \A c \in AppIds \ {a} : rows'[c] = rows[c]
      /\ UNCHANGED <<containers, images, trees, confs, reqs>>
  BY DEF CreateApp, Insert, TypeOK, TableTypeOK, docker
<1>3. IdsOK'
  BY TableAssumption DEF CreateApp, Insert, Inv, IdsOK, Exists, TypeOK, TableTypeOK, AppIds
<1>4. Imaged' /\ Unnamed' /\ Alone'
  BY <1>2 DEF Inv, Imaged, Unnamed, Alone
<1>5. ASSUME NEW q \in Requests
      PROVE  Mine(reqs[q])'
  <2>1. Mine(reqs[q])
    BY DEF Inv
  <2>2. reqs[q].pc # "idle" => reqs[q].app \in AppIds \ {a}
    BY <1>1, <2>1 DEF Mine, Fresh
  <2> QED
    BY <1>2, <2>1, <2>2 DEF Mine, Fresh, Exists, Operates, Deploying, Removed, Deleting
<1> QED BY <1>3, <1>4, <1>5 DEF Inv

LEMMA RequestInv ==
  ASSUME OnePerApp, TypeOK, Inv, NEW r \in Requests, Request(r)
  PROVE  Inv'
<1>1. PICK a \in AppIds, b \in Branches :
        \/ CreateApp(r, a, b)
        \/ \E force \in BOOLEAN : StartDeploy(r, a, b, force)
        \/ \E op \in {"delete", "admin_delete"} : StartDelete(r, a, op)
        \/ \E s \in Statuses : StartPatch(r, a, s, b)
  BY DEF Request
<1>2. ASSUME NEW op \in Ops, NEW pc \in {"rmtree", "fetch", "d_find", "p_commit"}, NEW mem,
             Admit(a),
             reqs' = [reqs EXCEPT ![r] = Loaded(op, pc, a, mem)],
             UNCHANGED <<rows, lastId, containers, images, confs>>,
             \A c \in AppIds \ {a} : trees'[c] = trees[c],
             mem.status # "absent", mem.port = rows[a].port,
             pc = "d_find" => op \in DeleteOps,
             pc = "p_commit" => op = "patch"
      PROVE  Inv'
  <2>1. /\ reqs'[r].app = a /\ reqs'[r].pc = pc /\ reqs'[r].op = op
        /\ reqs'[r].base = rows[a] /\ reqs'[r].mem = mem
        /\ \A q \in Requests \ {r} : reqs'[q] = reqs[q]
    BY <1>2 DEF Loaded, TypeOK
  <2>2. Exists(a) /\ \A q \in Requests : reqs[q].app # a
    BY <1>2 DEF Admit, Busy
  <2>3. Enters(r, a)
    BY <1>2, <2>1, <2>2 DEF Enters
  <2>4. Fresh(reqs[r])' /\ Operates(reqs[r])'
    BY <1>2, <2>1, <2>2 DEF Fresh, Exists, Operates, DeletePcs
  <2>5. Deploying(reqs[r])' /\ Removed(reqs[r])' /\ Deleting(reqs[r])'
    BY <1>2, <2>1 DEF Deploying, PreparedPcs, BuiltPcs, LeasedPcs, Removed, GonePcs, Deleting
  <2>6. Mine(reqs[r])'
    BY <2>4, <2>5 DEF Mine
  <2> QED BY <2>3, <2>6, EntersInv
<1>3. Exists(a) => rows[a].status # "absent" /\ rows[a] \in Row
  BY DEF Exists, TypeOK, TableTypeOK
<1>4. ASSUME NEW force \in BOOLEAN, StartDeploy(r, a, b, force)
      PROVE  Inv'
  <2> DEFINE mem == [rows[a] EXCEPT !.branch = b]
             pc  == IF force /\ trees[a] # "absent" THEN "rmtree" ELSE "fetch"
  <2>1. /\ "deploy" \in Ops /\ Admit(a) /\ Exists(a)
        /\ reqs' = [reqs EXCEPT ![r] = Loaded("deploy", pc, a, mem)]
        /\ UNCHANGED <<rows, lastId, containers, images, confs>>
    BY <1>4 DEF StartDeploy, Admit, table, docker
  <2>2. \A c \in AppIds \ {a} : trees'[c] = trees[c]
    BY <1>4 DEF StartDeploy, TypeOK
  <2>3. mem.status # "absent" /\ mem.port = rows[a].port
    BY <1>3, <2>1 DEF Row
  <2>4. pc \in {"rmtree", "fetch"}
    OBVIOUS
  <2> HIDE DEF mem, pc
  <2> QED BY <1>2, <2>1, <2>2, <2>3, <2>4
<1>5. ASSUME NEW op \in {"delete", "admin_delete"}, StartDelete(r, a, op)
      PROVE  Inv'
  <2>1. /\ op \in Ops /\ op \in DeleteOps /\ Admit(a) /\ Exists(a)
        /\ reqs' = [reqs EXCEPT ![r] = Loaded(op, "d_find", a, rows[a])]
        /\ UNCHANGED <<rows, lastId, containers, images, trees, confs>>
    BY <1>5 DEF StartDelete, Admit, DeleteOps, table, docker
  <2> QED BY <1>2, <1>3, <2>1
<1>6. ASSUME NEW s \in Statuses, StartPatch(r, a, s, b)
      PROVE  Inv'
  <2> DEFINE mem == [rows[a] EXCEPT !.status = s, !.branch = b]
  <2>1. /\ "patch" \in Ops /\ Admit(a) /\ Exists(a)
        /\ reqs' = [reqs EXCEPT ![r] = Loaded("patch", "p_commit", a, mem)]
        /\ UNCHANGED <<rows, lastId, containers, images, trees, confs>>
    BY <1>6 DEF StartPatch, Admit, table, docker
  <2>2. mem.status # "absent" /\ mem.port = rows[a].port
    BY <1>3, <2>1 DEF Row, Statuses
  <2> HIDE DEF mem
  <2> QED BY <1>2, <2>1, <2>2
<1> QED BY <1>1, <1>4, <1>5, <1>6, CreateInv

(***************************************************************************)
(* A flush brings no row back.                                             *)
(***************************************************************************)
LEMMA IdsOfStep ==
  ASSUME TypeOK, IdsOK, NEW r \in Requests, Step(r)
  PROVE  IdsOK'
<1>1. UNCHANGED table \/ Flushes(r) \/ Deletes(r)
  BY StepTable
<1> QED
  BY <1>1, SessionTyped
  DEF Flushes, Flush, Rejected, Updated, Deletes, DeleteRow, NoRow, IdsOK, Exists, table,
      TypeOK, TableTypeOK

(***************************************************************************)
(* Every step keeps the invariant.                                         *)
(***************************************************************************)
LEMMA InvStep ==
  ASSUME OnePerApp, TypeOK, Inv, [Next]_vars
  PROVE  Inv'
<1>1. ASSUME NEW r \in Requests, Step(r)
      PROVE  Inv'
  <2>1. Imaged /\ Unnamed /\ Alone /\ IdsOK /\ \A q \in Requests : Mine(reqs[q])
    BY DEF Inv
  <2>2. Mine(reqs[r])'
    BY <1>1, <2>1, StepMine
  <2>3. \A q \in Requests \ {r} : Mine(reqs[q])'
    BY <1>1, <2>1, ReachOfStep, OthersMine
  <2>4. Imaged' /\ Unnamed' /\ Alone'
    BY <1>1, <2>1, <2>2, ImagedStep, UnnamedStep, AloneStep
  <2>5. IdsOK'
    BY <1>1, <2>1, IdsOfStep
  <2> QED BY <2>2, <2>3, <2>4, <2>5 DEF Inv
<1>2. CASE Crash
  BY <1>2
  DEF Crash, table, docker, Idle, Inv, IdsOK, Exists, Alone, Imaged, Unnamed, Mine
<1>3. CASE UNCHANGED vars
  BY <1>3
  DEF vars, Inv, IdsOK, Exists, Alone, Imaged, Unnamed, Mine, Fresh, Operates, Deploying,
      Removed, Deleting
<1> QED BY <1>1, <1>2, <1>3, RequestInv DEF Next

(***************************************************************************)
(* Where requests for one app do not overlap, every request knows its app. *)
(***************************************************************************)
LEMMA InvHolds ==
  ASSUME OnePerApp
  PROVE  Spec => []Inv
<1>1. Init => Inv
  BY DEF Init, TableInit, DockerInit, NoRow, NoContainer, Idle, Inv, IdsOK, Exists, Alone,
         Imaged, Unnamed, Mine
<1>2. TypeOK /\ Inv /\ [Next]_vars => Inv'
  BY InvStep
<1> QED BY <1>1, <1>2, TypeCorrect, PTL DEF Spec

--------------------------------------------------------------------------------
(* The invariants of AppCorrectness *)

(***************************************************************************)
(* What a request that comes in, a crash and a stutter leave alone.        *)
(***************************************************************************)
LEMMA QuietSteps ==
  ASSUME TypeOK, Inv, [Next]_vars
  PROVE  \/ \E r \in Requests : Step(r)
         \/ /\ \/ UNCHANGED rows
               \/ \E a \in AppIds :
                    /\ ~Exists(a) /\ rows'[a].status = "created" /\ rows'[a].port = NoPort
                    /\ \A b \in AppIds \ {a} : rows'[b] = rows[b]
            /\ \/ UNCHANGED trees
               \/ \E a \in AppIds : Exists(a) /\ \A b \in AppIds \ {a} : trees'[b] = trees[b]
            /\ UNCHANGED <<containers, images, confs>>
            /\ \/ UNCHANGED reqs
               \/ \E r \in Requests :
                    /\ \A q \in Requests \ {r} : reqs'[q] = reqs[q]
                    /\ reqs[r] = Idle /\ reqs'[r].pc \in {"rmtree", "fetch", "d_find", "p_commit"}
               \/ "crash" \in FaultKinds /\ reqs' = [r \in Requests |-> Idle]
<1> DEFINE Known == {"rmtree", "fetch", "d_find", "p_commit"}
           Rows  == \/ UNCHANGED rows
                    \/ \E a \in AppIds :
                         /\ ~Exists(a) /\ rows'[a].status = "created" /\ rows'[a].port = NoPort
                         /\ \A b \in AppIds \ {a} : rows'[b] = rows[b]
           Tree  == \/ UNCHANGED trees
                    \/ \E a \in AppIds : Exists(a) /\ \A b \in AppIds \ {a} : trees'[b] = trees[b]
           Reqs  == \/ UNCHANGED reqs
                    \/ \E r \in Requests :
                         /\ \A q \in Requests \ {r} : reqs'[q] = reqs[q]
                         /\ reqs[r] = Idle /\ reqs'[r].pc \in Known
                    \/ "crash" \in FaultKinds /\ reqs' = [r \in Requests |-> Idle]
           Goal  == Rows /\ Tree /\ UNCHANGED <<containers, images, confs>> /\ Reqs
<1>1. ASSUME NEW r \in Requests, NEW a \in AppIds, NEW b \in Branches, CreateApp(r, a, b)
      PROVE  Goal
  <2>1. ~Exists(a)
    BY <1>1, TableAssumption
    DEF CreateApp, Insert, NextId, Inv, IdsOK, Exists, TypeOK, TableTypeOK, AppIds
  <2> QED BY <1>1, <2>1 DEF CreateApp, Insert, TypeOK, TableTypeOK, docker
<1>2. ASSUME NEW r \in Requests, NEW a \in AppIds, NEW op, NEW pc \in Known, NEW mem,
             reqs[r] = Idle, reqs' = [reqs EXCEPT ![r] = Loaded(op, pc, a, mem)]
      PROVE  Reqs
  BY <1>2 DEF Loaded, TypeOK
<1>3. ASSUME NEW r \in Requests, NEW a \in AppIds, NEW b \in Branches, NEW force \in BOOLEAN,
             StartDeploy(r, a, b, force)
      PROVE  Goal
  <2> DEFINE pc == IF force /\ trees[a] # "absent" THEN "rmtree" ELSE "fetch"
  <2>1. Reqs
    <3>1. reqs[r] = Idle /\ reqs' = [reqs EXCEPT ![r] = Loaded("deploy", pc, a, [rows[a] EXCEPT !.branch = b])]
      BY <1>3 DEF StartDeploy
    <3>2. pc \in Known
      OBVIOUS
    <3> HIDE DEF pc, Known, Reqs
    <3> QED BY <1>2, <3>1, <3>2
  <2>2. Tree
    BY <1>3 DEF StartDeploy, Admit, TypeOK
  <2> QED BY <1>3, <2>1, <2>2 DEF StartDeploy, table, docker
<1>4. ASSUME NEW r \in Requests, NEW a \in AppIds, NEW op, StartDelete(r, a, op)
      PROVE  Goal
  <2>1. Reqs
    BY <1>2, <1>4 DEF StartDelete
  <2> QED BY <1>4, <2>1 DEF StartDelete, table, docker
<1>5. ASSUME NEW r \in Requests, NEW a \in AppIds, NEW st, NEW b, StartPatch(r, a, st, b)
      PROVE  Goal
  <2>1. Reqs
    BY <1>2, <1>5 DEF StartPatch
  <2> QED BY <1>5, <2>1 DEF StartPatch, table, docker
<1>6. CASE Crash
  BY <1>6 DEF Crash, Fault, table, docker
<1>7. CASE UNCHANGED vars
  BY <1>7 DEF vars
<1> QED BY <1>1, <1>3, <1>4, <1>5, <1>6, <1>7 DEF Next, Request

(***************************************************************************)
(* A request that may only deploy deploys.                                 *)
(***************************************************************************)
LEMMA OnlyDeploys ==
  ASSUME Ops \subseteq {"create", "deploy"}, NEW r \in Requests, Mine(reqs[r]), Step(r)
  PROVE  Deploy(r)
<1>1. Delete(r) => reqs[r].pc \in DeletePcs
  BY DEF Delete, FindContainer, RmContainer, RemoveAppImage, RemoveTree, RemoveConf, RemoveRow,
         DeleteRaises, DeletePcs
<1>2. Patch(r) => reqs[r].pc = "p_commit"
  BY DEF Patch, CommitPatch, PatchFails
<1>3. reqs[r].pc \notin DeletePcs /\ reqs[r].pc # "p_commit"
  BY DEF Mine, Operates, DeletePcs, DeleteOps
<1> QED BY <1>1, <1>2, <1>3 DEF Step

(***************************************************************************)
(* A running app is the one its row describes, whatever fails or crashes   *)
(* in its deployments.                                                     *)
(***************************************************************************)
THEOREM RunningDeployed ==
  ASSUME OnePerApp, Ops \subseteq {"create", "deploy"}
  PROVE  Spec => []RunningIsDeployed
<1> DEFINE Deployed(a) == rows[a].status = "running" =>
                            /\ containers[a].up
                            /\ containers[a].port = rows[a].port
                            /\ containers[a].branch = rows[a].branch
<1>1. Init => RunningIsDeployed
  BY DEF Init, TableInit, NoRow, RunningIsDeployed
<1>2. TypeOK /\ Inv /\ RunningIsDeployed /\ [Next]_vars => RunningIsDeployed'
  <2> SUFFICES ASSUME TypeOK, Inv, RunningIsDeployed, [Next]_vars, NEW a \in AppIds
               PROVE  Deployed(a)'
    BY DEF RunningIsDeployed
  <2>0. Deployed(a)
    BY DEF RunningIsDeployed
  <2>1. ASSUME NEW r \in Requests, Step(r), reqs[r].app # a
        PROVE  Deployed(a)'
    BY <2>0, <2>1, ReachOfStep DEF Reach
  <2>2. ASSUME NEW r \in Requests, Step(r), reqs[r].app = a
        PROVE  Deployed(a)'
    <3>1. Mine(reqs[r]) /\ reqs[r].pc # "idle" /\ Deploy(r)
      BY <2>2, ReachOfStep, OnlyDeploys DEF Inv
    <3>2. Fresh(reqs[r]) /\ Deploying(reqs[r])
      BY <3>1 DEF Mine
    <3>3. ASSUME NEW here, NEW next, <<here, next>> \in CommitSteps, Commit(r, here, next)
          PROVE  Deployed(a)'
      <4>1. rows'[a] = reqs[r].mem /\ UNCHANGED containers /\ reqs[r].pc = here
        BY <2>2, <3>1, <3>2, <3>3, FlushWrites DEF Commit, docker
      <4>2. CASE here = "commit_running"
        BY <2>2, <3>2, <4>1, <4>2 DEF Deploying
      <4>3. CASE here # "commit_running"
        BY <3>2, <3>3, <4>1, <4>3 DEF Deploying, CommitSteps, PreparedPcs, BuiltPcs
      <4> QED BY <4>2, <4>3
    <3>4. CASE RecordError(r)
      <4>1. rows'[a].status = "error"
        BY <2>2, <3>1, <3>2, <3>4, FlushWrites DEF RecordError, Deploying
      <4> QED BY <4>1
    <3>5. ASSUME UNCHANGED rows, reqs[r].pc \in PreparedPcs
          PROVE  Deployed(a)'
      BY <2>2, <3>2, <3>5 DEF Fresh, Deploying
    <3>6. CASE \/ RmContainer(r, "rm_old", "commit_null", NoPort)
               \/ RmContainer(r, "rm_again", "start", reqs[r].mem.port)
               \/ StartContainer(r) \/ Build(r)
      BY <3>5, <3>6 DEF RmContainer, StartContainer, Build, PreparedPcs, BuiltPcs, table
    <3>7. ASSUME UNCHANGED <<rows, containers>>
          PROVE  Deployed(a)'
      BY <2>0, <3>7
    <3>8. ASSUME NEW here, NEW found, NEW missing, FindContainer(r, here, found, missing)
          PROVE  Deployed(a)'
      BY <3>7, <3>8 DEF FindContainer, table, docker
    <3>9. CASE \/ ForceRebuild(r) \/ ForceRebuildFails(r) \/ Fetch(r) \/ Checkout(r)
               \/ Snapshot(r) \/ Probe(r) \/ FindImage(r) \/ WriteConf(r) \/ CommitFails(r)
               \/ StepRaises(r) \/ RecordErrorFails(r) \/ RollbackPending(r)
      BY <3>7, <3>9
      DEF ForceRebuild, ForceRebuildFails, Fetch, Checkout, Snapshot, Probe, FindImage, WriteConf,
          CommitFails, StepRaises, RecordErrorFails, RollbackPending, table, docker
    <3> QED BY <3>1, <3>3, <3>4, <3>6, <3>8, <3>9 DEF Deploy, CommitSteps
  <2> QED BY <2>0, <2>1, <2>2, QuietSteps
<1> QED BY <1>1, <1>2, TypeCorrect, InvHolds, PTL DEF Spec

(***************************************************************************)
(* What a step does to the row of its app: nothing, or it writes what the  *)
(* session has in memory, or it deletes the row at the end of a deletion.  *)
(***************************************************************************)
LEMMA RowStep ==
  ASSUME TypeOK, NEW r \in Requests, Mine(reqs[r]), Step(r)
  PROVE  \/ UNCHANGED rows
         \/ /\ rows'[reqs[r].app] = reqs[r].mem
            /\ reqs[r].pc \in {"commit_prepared", "commit_null", "commit_port", "commit_running",
                               "handler", "p_commit"}
            /\ UNCHANGED <<containers, images, trees, confs>>
            /\ reqs[r].pc = "commit_running" =>
                 reqs'[r].pc = "write_conf" /\ reqs'[r].app = reqs[r].app
         \/ /\ rows'[reqs[r].app] = NoRow /\ reqs[r].pc = "d_row"
            /\ UNCHANGED <<containers, images, trees, confs>>
<1>0. reqs[r].pc # "idle" => Fresh(reqs[r])
  BY DEF Mine
<1>1. ASSUME NEW here, NEW next, <<here, next>> \in CommitSteps, Commit(r, here, next)
      PROVE  /\ rows'[reqs[r].app] = reqs[r].mem /\ reqs[r].pc = here
             /\ reqs'[r].pc = next /\ reqs'[r].app = reqs[r].app
             /\ UNCHANGED <<containers, images, trees, confs>>
  <2>1. reqs[r].pc = here /\ here # "idle"
    BY <1>1 DEF Commit, CommitSteps
  <2>2. reqs'[r].pc = next /\ reqs'[r].app = reqs[r].app
    BY <1>1 DEF Commit, TypeOK, Session
  <2> QED BY <1>0, <1>1, <2>1, <2>2, FlushWrites DEF Commit, docker
<1>2. CASE RecordError(r) \/ CommitPatch(r)
  BY <1>0, <1>2, FlushWrites DEF RecordError, CommitPatch, docker
<1>3. CASE RemoveRow(r)
  BY <1>0, <1>3 DEF RemoveRow, DeleteRow, Fresh, docker, TypeOK, TableTypeOK
<1>4. CASE Deploy(r)
  <2>1. CASE \/ ForceRebuild(r) \/ ForceRebuildFails(r) \/ Fetch(r) \/ Checkout(r) \/ Build(r)
             \/ Snapshot(r) \/ Probe(r) \/ FindImage(r) \/ StartContainer(r) \/ WriteConf(r)
             \/ CommitFails(r) \/ StepRaises(r) \/ RecordErrorFails(r) \/ RollbackPending(r)
    BY <2>1
    DEF ForceRebuild, ForceRebuildFails, Fetch, Checkout, Build, Snapshot, Probe, FindImage,
        StartContainer, WriteConf, CommitFails, StepRaises, RecordErrorFails, RollbackPending,
        table
  <2>2. ASSUME NEW here, NEW next, NEW other, NEW port,
               FindContainer(r, here, next, other) \/ RmContainer(r, here, next, port)
        PROVE  UNCHANGED rows
    BY <2>2 DEF FindContainer, RmContainer, table
  <2> QED BY <1>1, <1>2, <1>4, <2>1, <2>2 DEF Deploy, CommitSteps
<1>5. CASE Delete(r)
  BY <1>3, <1>5
  DEF Delete, FindContainer, RmContainer, RemoveAppImage, RemoveTree, RemoveConf, DeleteRaises,
      table
<1>6. CASE Patch(r)
  BY <1>2, <1>6 DEF Patch, PatchFails, table
<1> QED BY <1>4, <1>5, <1>6 DEF Step

(***************************************************************************)
(* Containers appear at docker run only.                                   *)
(***************************************************************************)
LEMMA ContainerStep ==
  ASSUME TypeOK, NEW r \in Requests, Mine(reqs[r]), Step(r)
  PROVE  \/ UNCHANGED containers
         \/ containers'[reqs[r].app] = NoContainer
         \/ reqs[r].pc = "start" /\ containers'[reqs[r].app].port = reqs[r].mem.port
<1>1. CASE StartContainer(r)
  <2>1. reqs[r].pc = "start" /\ reqs[r].app \in AppIds
    BY <1>1 DEF StartContainer, Mine, Fresh
  <2> QED BY <1>1, <2>1 DEF StartContainer, CreateContainer, TypeOK, DockerTypeOK
<1>2. ASSUME NEW here \in Pcs \ {"idle"}, NEW next, NEW port, RmContainer(r, here, next, port)
      PROVE  UNCHANGED containers \/ containers'[reqs[r].app] = NoContainer
  <2>1. reqs[r].app \in AppIds
    BY <1>2 DEF RmContainer, Mine, Fresh
  <2> QED BY <1>2, <2>1 DEF RmContainer, RemoveContainer, docker, TypeOK, DockerTypeOK
<1>3. {"rm_old", "rm_again", "d_rm"} \subseteq Pcs \ {"idle"}
  BY DEF Pcs, TryPcs, DeletePcs
<1>4. CASE Deploy(r)
  <2>1. CASE \/ ForceRebuild(r) \/ ForceRebuildFails(r) \/ Fetch(r) \/ Checkout(r) \/ Build(r)
             \/ Snapshot(r) \/ Probe(r) \/ FindImage(r) \/ WriteConf(r)
             \/ CommitFails(r) \/ StepRaises(r) \/ RecordError(r) \/ RecordErrorFails(r)
             \/ RollbackPending(r)
    BY <2>1
    DEF ForceRebuild, ForceRebuildFails, Fetch, Checkout, Build, BuildImage, Snapshot, Probe,
        FindImage, WriteConf, CommitFails, StepRaises, RecordError, RecordErrorFails,
        RollbackPending, docker
  <2>2. ASSUME NEW here, NEW next, NEW other,
               FindContainer(r, here, next, other) \/ Commit(r, here, next)
        PROVE  UNCHANGED containers
    BY <2>2 DEF FindContainer, Commit, docker
  <2> QED BY <1>1, <1>2, <1>3, <1>4, <2>1, <2>2 DEF Deploy
<1>5. CASE Delete(r)
  BY <1>2, <1>3, <1>5
  DEF Delete, FindContainer, RemoveAppImage, RemoveImage, RemoveTree, RemoveConf, RemoveRow,
      DeleteRaises, docker
<1>6. CASE Patch(r)
  BY <1>6 DEF Patch, CommitPatch, PatchFails, docker
<1> QED BY <1>4, <1>5, <1>6 DEF Step

\* no row, no lease
Blank == \A a \in AppIds : ~Exists(a) => rows[a].port = NoPort

LEMMA CoverStep ==
  ASSUME {"ps", "rm"} \cap FaultKinds = {}, TypeOK, Inv, LeaseCoversContainer, Blank, [Next]_vars
  PROVE  LeaseCoversContainer' /\ Blank'
<1> DEFINE Covered(a) == /\ containers[a].up => containers[a].port = rows[a].port
                         /\ ~Exists(a) => rows[a].port = NoPort
<1> SUFFICES ASSUME NEW a \in AppIds
             PROVE  Covered(a)'
  BY DEF LeaseCoversContainer, Blank
<1>0. Covered(a)
  BY DEF LeaseCoversContainer, Blank
<1>1. ASSUME NEW r \in Requests, Step(r), reqs[r].app # a
      PROVE  Covered(a)'
  BY <1>0, <1>1, ReachOfStep DEF Reach, Exists
<1>2. ASSUME NEW r \in Requests, Step(r), reqs[r].app = a
      PROVE  Covered(a)'
  <2>1. Mine(reqs[r]) /\ reqs[r].pc # "idle"
    BY <1>2, ReachOfStep DEF Inv
  <2>2. Fresh(reqs[r]) /\ Removed(reqs[r])
    BY <2>1 DEF Mine
  <2>3. CASE UNCHANGED rows
    <3>1. CASE reqs[r].pc = "start" /\ containers'[a].port = reqs[r].mem.port
      BY <1>2, <2>2, <2>3, <3>1 DEF Fresh, Exists
    <3> QED
      BY <1>0, <1>2, <2>1, <2>3, <3>1, ContainerStep DEF NoContainer, Exists
  <2>4. CASE /\ rows'[a] = reqs[r].mem /\ UNCHANGED containers
             /\ reqs[r].pc \in {"commit_prepared", "commit_null", "commit_port",
                               "commit_running", "handler", "p_commit"}
    <3>1. CASE reqs[r].pc \in {"commit_null", "commit_port"}
      BY <1>2, <2>2, <2>4, <3>1 DEF Removed, GonePcs, NoContainer, Fresh, Exists
    <3>2. CASE reqs[r].pc \in {"commit_prepared", "commit_running", "handler", "p_commit"}
      BY <1>0, <1>2, <2>2, <2>4, <3>2 DEF Fresh, Exists
    <3> QED BY <2>4, <3>1, <3>2
  <2>5. CASE rows'[a] = NoRow /\ UNCHANGED containers /\ reqs[r].pc = "d_row"
    BY <1>2, <2>2, <2>5 DEF Removed, GonePcs, NoContainer, NoRow
  <2> QED BY <1>2, <2>1, <2>3, <2>4, <2>5, RowStep
<1>3. CASE UNCHANGED rows /\ UNCHANGED containers
  BY <1>0, <1>3 DEF Exists
<1>4. ASSUME NEW b \in AppIds, ~Exists(b), rows'[b].status = "created", rows'[b].port = NoPort,
             \A c \in AppIds \ {b} : rows'[c] = rows[c], UNCHANGED containers
      PROVE  Covered(a)'
  BY <1>0, <1>4 DEF Exists
<1> QED BY <1>1, <1>2, <1>3, <1>4, QuietSteps

(***************************************************************************)
(* A container binds the port in its row, and no other.                    *)
(***************************************************************************)
THEOREM LeaseCovers ==
  ASSUME OnePerApp, {"ps", "rm"} \cap FaultKinds = {}
  PROVE  Spec => []LeaseCoversContainer
<1>1. Init => LeaseCoversContainer /\ Blank
  BY DEF Init, TableInit, DockerInit, NoRow, NoContainer, LeaseCoversContainer, Blank
<1>2. TypeOK /\ Inv /\ LeaseCoversContainer /\ Blank /\ [Next]_vars
        => LeaseCoversContainer' /\ Blank'
  BY CoverStep
<1> QED BY <1>1, <1>2, TypeCorrect, InvHolds, PTL DEF Spec

LEMMA PortFree ==
  ASSUME UniquePort, ProbeSeesHost, TypeOK, Inv, LeaseCoversContainer, NoSharedLease
  PROVE  AllocatedPortStaysFree
<1> SUFFICES ASSUME NEW r \in Requests, reqs[r].pc \in {"find_image", "find_again", "start"}
             PROVE  /\ reqs[r].mem.port \notin HostPorts
                    /\ \A a \in AppIds \ {reqs[r].app} :
                         containers[a].up => containers[a].port # reqs[r].mem.port
  BY DEF AllocatedPortStaysFree
<1>1. Fresh(reqs[r]) /\ Deploying(reqs[r])
  BY DEF Inv, Mine
<1>2. reqs[r].mem.port \in Ports /\ reqs[r].mem.port \notin HostPorts
  BY <1>1 DEF Deploying, LeasedPcs
<1>3. reqs[r].app \in AppIds /\ rows[reqs[r].app].port = reqs[r].mem.port
  BY <1>1 DEF Fresh
<1>4. reqs[r].mem.port # NoPort
  BY <1>2, TableAssumption
<1> QED BY <1>2, <1>3, <1>4 DEF LeaseCoversContainer, NoSharedLease

(***************************************************************************)
(* With the UNIQUE constraint and a probe that sees the host, nobody binds *)
(* the port of a deployment between the commit of the port and docker run. *)
(***************************************************************************)
THEOREM AllocatedPortFree ==
  ASSUME OnePerApp, UniquePort, ProbeSeesHost, {"ps", "rm"} \cap FaultKinds = {}
  PROVE  Spec => []AllocatedPortStaysFree
<1>1. TypeOK /\ Inv /\ LeaseCoversContainer /\ NoSharedLease => AllocatedPortStaysFree
  BY PortFree
<1> QED BY <1>1, TypeCorrect, InvHolds, LeaseCovers, LeasesExclusive, PTL

(***************************************************************************)
(* Nginx routes every running app nobody works on to the port in its row.  *)
(* A deletion takes the conf away while the row still says "running", so   *)
(* what it does after that (rmtree, the commit) must not fail.             *)
(***************************************************************************)
Unrouted(s) ==
  s.pc \in {"write_conf", "d_row"} \/ (s.pc = "d_tree" /\ s.op = "admin_delete")

Routed(a) ==
  rows[a].status = "running" /\ (\A r \in Requests : reqs[r].app = a => ~Unrouted(reqs[r]))
    => confs[a] = rows[a].port

LEMMA ConfStep ==
  ASSUME NginxEnabled, "conf" \notin FaultKinds,
         TypeOK, NEW r \in Requests, Mine(reqs[r]), Step(r)
  PROVE  \/ UNCHANGED confs
         \/ reqs[r].pc = "write_conf" /\ confs'[reqs[r].app] = reqs[r].mem.port /\ UNCHANGED rows
         \/ Unrouted(reqs[r])' /\ reqs'[r].app = reqs[r].app
<1>1. CASE WriteConf(r)
  <2>1. reqs[r].app \in AppIds
    BY <1>1 DEF WriteConf, Mine, Fresh
  <2> QED BY <1>1, <2>1 DEF WriteConf, SetConf, Fault, TypeOK, table
<1>2. CASE RemoveConf(r)
  <2>1. reqs[r].op \in {"delete", "admin_delete"}
    BY <1>2 DEF RemoveConf, Mine, Operates, DeletePcs, DeleteOps
  <2> QED BY <1>2, <2>1, GotoFields DEF RemoveConf, Same, Unrouted
<1>3. CASE Deploy(r)
  <2>1. CASE \/ ForceRebuild(r) \/ ForceRebuildFails(r) \/ Fetch(r) \/ Checkout(r) \/ Build(r)
             \/ Snapshot(r) \/ Probe(r) \/ FindImage(r) \/ StartContainer(r)
             \/ CommitFails(r) \/ StepRaises(r) \/ RecordError(r) \/ RecordErrorFails(r)
             \/ RollbackPending(r)
    BY <2>1
    DEF ForceRebuild, ForceRebuildFails, Fetch, Checkout, Build, Snapshot, Probe, FindImage,
        StartContainer, CommitFails, StepRaises, RecordError, RecordErrorFails, RollbackPending
  <2>2. ASSUME NEW here, NEW next, NEW other, NEW port,
               \/ FindContainer(r, here, next, other) \/ RmContainer(r, here, next, port)
               \/ Commit(r, here, next)
        PROVE  UNCHANGED confs
    BY <2>2 DEF FindContainer, RmContainer, Commit
  <2> QED BY <1>1, <1>3, <2>1, <2>2 DEF Deploy
<1>4. CASE Delete(r)
  BY <1>2, <1>4
  DEF Delete, FindContainer, RmContainer, RemoveAppImage, RemoveTree, RemoveRow, DeleteRaises
<1>5. CASE Patch(r)
  BY <1>5 DEF Patch, CommitPatch, PatchFails
<1> QED BY <1>3, <1>4, <1>5 DEF Step

(***************************************************************************)
(* A request that has left its app without a route finishes.               *)
(***************************************************************************)
LEMMA RouteStep ==
  ASSUME {"fs", "db"} \cap FaultKinds = {} \/ DeleteOps \cap Ops = {},
         TypeOK, NEW r \in Requests, Mine(reqs[r]), Step(r), Unrouted(reqs[r])
  PROVE  \/ WriteConf(r)
         \/ rows'[reqs[r].app] = NoRow
         \/ Unrouted(reqs[r])' /\ reqs'[r].app = reqs[r].app
<1>1. CASE reqs[r].pc = "write_conf"
  BY <1>1
  DEF Step, Deploy, ForceRebuild, ForceRebuildFails, Fetch, Commit, Checkout, Build,
      FindContainer, RmContainer, Snapshot, Probe, FindImage, StartContainer, CommitFails,
      StepRaises, CannotProceed, RecordError, RecordErrorFails, RollbackPending,
      Delete, RemoveAppImage, RemoveTree, RemoveConf, RemoveRow, DeleteRaises,
      Patch, CommitPatch, PatchFails
<1>2. CASE reqs[r].pc \in {"d_row", "d_tree"}
  <2>1. /\ reqs[r].app \in AppIds
        /\ "fs" \notin FaultKinds /\ "db" \notin FaultKinds
    BY <1>2 DEF Mine, Fresh, Operates, DeletePcs
  <2>2. RemoveRow(r) \/ (RemoveTree(r) /\ reqs[r].op = "admin_delete")
    <3>1. Delete(r)
      BY <1>2
      DEF Step, Deploy, ForceRebuild, ForceRebuildFails, Fetch, Commit, Checkout, Build,
          FindContainer, RmContainer, Snapshot, Probe, FindImage, StartContainer, WriteConf,
          CommitFails, StepRaises, CannotProceed, RecordError, RecordErrorFails,
          RollbackPending, Patch, CommitPatch, PatchFails
    <3> QED
      BY <1>2, <2>1, <3>1
      DEF Unrouted, Delete, FindContainer, RmContainer, RemoveAppImage, RemoveTree, RemoveConf,
          RemoveRow, DeleteRaises, Fault
  <2>3. CASE RemoveRow(r)
    BY <2>1, <2>3 DEF RemoveRow, DeleteRow, TypeOK, TableTypeOK
  <2>4. CASE RemoveTree(r) /\ reqs[r].op = "admin_delete"
    BY <2>4, GotoFields DEF RemoveTree, Same, Unrouted
  <2> QED BY <2>2, <2>3, <2>4
<1> QED BY <1>1, <1>2 DEF Unrouted

THEOREM RunningRouted ==
  ASSUME OnePerApp, NginxEnabled, "patch" \notin Ops, {"conf", "crash"} \cap FaultKinds = {},
         {"fs", "db"} \cap FaultKinds = {} \/ DeleteOps \cap Ops = {}
  PROVE  Spec => []RunningIsRouted
<1> DEFINE AllRouted == \A a \in AppIds : Routed(a)
<1>1. Init => AllRouted
  BY DEF Init, TableInit, NoRow, Routed
<1>2. TypeOK /\ Inv /\ AllRouted /\ [Next]_vars => AllRouted'
  <2> SUFFICES ASSUME TypeOK, Inv, AllRouted, [Next]_vars, NEW a \in AppIds
               PROVE  Routed(a)'
    OBVIOUS
  <2>0. Routed(a)
    OBVIOUS
  <2>1. ASSUME NEW r \in Requests, Step(r), reqs[r].app # a
        PROVE  Routed(a)'
    <3>1. /\ rows'[a] = rows[a] /\ confs'[a] = confs[a]
          /\ \A q \in Requests \ {r} : reqs'[q] = reqs[q]
      BY <2>1, ReachOfStep DEF Reach
    <3> QED BY <2>0, <2>1, <3>1 DEF Routed
  <2>2. ASSUME NEW r \in Requests, Step(r), reqs[r].app = a
        PROVE  Routed(a)'
    <3>1. Mine(reqs[r]) /\ reqs[r].pc # "idle"
      BY <2>2, ReachOfStep DEF Inv
    <3>2. Fresh(reqs[r]) /\ Operates(reqs[r]) /\ Deploying(reqs[r])
      BY <3>1 DEF Mine
    <3>3. \A q \in Requests \ {r} : reqs[q].pc = "idle" \/ reqs[q].app # a
      BY <2>2, <3>1 DEF Inv, Alone
    <3>4. ASSUME rows'[a].status = "running",
                 \A q \in Requests : reqs'[q].app = a => ~Unrouted(reqs[q])'
          PROVE  confs'[a] = rows'[a].port
      <4>1. ~(Unrouted(reqs[r])' /\ reqs'[r].app = reqs[r].app)
        BY <2>2, <3>4
      <4>2. CASE WriteConf(r)
        BY <2>2, <3>1, <3>2, <4>2 DEF WriteConf, SetConf, Fault, TypeOK, Fresh, table
      <4>3. CASE ~WriteConf(r)
        <5>1. ~Unrouted(reqs[r])
          BY <2>2, <3>1, <3>4, <4>1, <4>3, RouteStep DEF NoRow
        <5>2. \A q \in Requests : reqs[q].app = a => ~Unrouted(reqs[q])
          BY <3>3, <5>1 DEF Unrouted
        <5>3. UNCHANGED confs
          BY <2>2, <3>1, <4>1, <5>1, ConfStep DEF Unrouted
        <5>4. CASE UNCHANGED rows
          BY <2>0, <3>4, <5>2, <5>3, <5>4 DEF Routed
        <5>5. CASE rows'[a] = NoRow
          BY <3>4, <5>5 DEF NoRow
        <5>6. CASE /\ rows'[a] = reqs[r].mem
                   /\ reqs[r].pc \in {"commit_prepared", "commit_null", "commit_port",
                                      "commit_running", "handler", "p_commit"}
                   /\ reqs[r].pc = "commit_running" =>
                        reqs'[r].pc = "write_conf" /\ reqs'[r].app = reqs[r].app
          <6>1. reqs[r].pc # "p_commit"
            BY <3>2 DEF Operates
          <6>2. reqs[r].pc = "commit_running"
            BY <3>2, <3>4, <5>6, <6>1 DEF Deploying, PreparedPcs, BuiltPcs
          <6> QED BY <4>1, <5>6, <6>2 DEF Unrouted
        <5> QED BY <2>2, <3>1, <5>4, <5>5, <5>6, RowStep
      <4> QED BY <4>2, <4>3
    <3> QED BY <3>4 DEF Routed
  <2>3. ASSUME NEW r \in Requests, \A q \in Requests \ {r} : reqs'[q] = reqs[q], reqs[r] = Idle,
               UNCHANGED confs,
               \/ UNCHANGED rows
               \/ \E b \in AppIds : /\ rows'[b].status = "created"
                                    /\ \A c \in AppIds \ {b} : rows'[c] = rows[c]
        PROVE  Routed(a)'
    BY <2>0, <2>3 DEF Routed, Unrouted, Idle
  <2>4. ASSUME UNCHANGED reqs,
               UNCHANGED confs,
               \/ UNCHANGED rows
               \/ \E b \in AppIds : /\ rows'[b].status = "created"
                                    /\ \A c \in AppIds \ {b} : rows'[c] = rows[c]
        PROVE  Routed(a)'
    BY <2>0, <2>4 DEF Routed
  <2> QED BY <2>1, <2>2, <2>3, <2>4, QuietSteps
<1>3. AllRouted => RunningIsRouted
  BY DEF Routed, RunningIsRouted, Busy
<1> QED BY <1>1, <1>2, <1>3, TypeCorrect, InvHolds, PTL DEF Spec

(***************************************************************************)
(* No step leaves anything of an app without a row.                        *)
(***************************************************************************)
LEMMA NothingLeftStep ==
  ASSUME TypeOK, Inv, DeletedLeavesNothing, [Next]_vars
  PROVE  DeletedLeavesNothing'
<1> DEFINE Clean(a) == ~Exists(a) =>
                         /\ ~containers[a].up
                         /\ images[a] = NoBranch
                         /\ trees[a] = "absent"
                         /\ "conf" \notin FaultKinds => confs[a] = NoPort
<1> SUFFICES ASSUME NEW a \in AppIds
             PROVE  Clean(a)'
  BY DEF DeletedLeavesNothing
<1>0. Clean(a)
  BY DEF DeletedLeavesNothing
<1>1. ASSUME NEW r \in Requests, Step(r), reqs[r].app # a
      PROVE  Clean(a)'
  BY <1>0, <1>1, ReachOfStep DEF Reach, Exists
<1>2. ASSUME NEW r \in Requests, Step(r), reqs[r].app = a
      PROVE  Clean(a)'
  <2>1. Mine(reqs[r]) /\ reqs[r].pc # "idle"
    BY <1>2, ReachOfStep DEF Inv
  <2>2. Fresh(reqs[r]) /\ Deleting(reqs[r])
    BY <2>1 DEF Mine
  <2>3. CASE UNCHANGED rows \/ rows'[a] = reqs[r].mem
    BY <1>2, <2>2, <2>3 DEF Fresh, Exists
  <2>4. CASE reqs[r].pc = "d_row" /\ UNCHANGED <<containers, images, trees, confs>>
    BY <1>2, <2>2, <2>4 DEF Deleting
  <2> QED BY <1>2, <2>1, <2>3, <2>4, RowStep
<1>3. ASSUME UNCHANGED <<containers, images, confs>>, Exists(a) => Exists(a)',
             trees'[a] = trees[a] \/ Exists(a)
      PROVE  Clean(a)'
  BY <1>0, <1>3
<1> QED BY <1>1, <1>2, <1>3, QuietSteps DEF Exists

(***************************************************************************)
(* An app without a row has left nothing behind, wherever deployments and  *)
(* deletions have failed or crashed.                                       *)
(***************************************************************************)
THEOREM NothingLeft ==
  ASSUME OnePerApp
  PROVE  Spec => []DeletedLeavesNothing
<1>1. Init => DeletedLeavesNothing
  BY DEF Init, DockerInit, NoContainer, DeletedLeavesNothing
<1> QED BY <1>1, NothingLeftStep, TypeCorrect, InvHolds, PTL DEF Spec

--------------------------------------------------------------------------------
(* Failures are recorded *)

\* no commit of a request can fail, and neither can the removal of a tree
CommitsSucceed ==
  /\ OnePerApp
  /\ {"db", "fs", "crash"} \cap FaultKinds = {}
  /\ UniquePort => MaxId = 1

Goes(s) == s.pc \notin {"dead", "idle"}

Alive == \A r \in Requests : Goes(reqs[r]) \/ reqs[r] = Idle

LEMMA NotRejected ==
  ASSUME CommitsSucceed, TypeOK, NEW r \in Requests, Fresh(reqs[r])
  PROVE  ~Rejected(reqs[r].app, reqs[r].base, reqs[r].mem)
<1>1. Exists(reqs[r].app) /\ reqs[r].app \in AppIds
  BY DEF Fresh
<1>2. MaxId = 1 => AppIds \ {reqs[r].app} = {}
  BY <1>1 DEF AppIds
<1> QED BY <1>1, <1>2 DEF Rejected, CommitsSucceed

(***************************************************************************)
(* A deployment ends in two ways: with its conf or with its error.         *)
(***************************************************************************)
LEMMA StepEnds ==
  ASSUME CommitsSucceed, TypeOK, Inv, Alive, NEW r \in Requests, Step(r)
  PROVE  \/ Goes(reqs'[r])
         \/ /\ reqs'[r] = Idle
            /\ reqs[r].op = "deploy" => reqs[r].pc = "write_conf" \/ RecordError(r)
<1> DEFINE Ends == /\ reqs'[r] = Idle
                   /\ reqs[r].op = "deploy" => reqs[r].pc = "write_conf" \/ RecordError(r)
<1>1. /\ reqs[r].pc # "idle" /\ reqs[r].pc # "dead"
      /\ Fresh(reqs[r]) /\ Operates(reqs[r])
  BY ReachOfStep DEF Inv, Mine, Alive, Idle, Goes
<1>2. ~CommitFails(r) /\ ~RollbackPending(r) /\ ~RecordErrorFails(r) /\ ~ForceRebuildFails(r)
  BY <1>1, NotRejected
  DEF CommitFails, RollbackPending, RecordErrorFails, ForceRebuildFails, Fault, CommitsSucceed
<1>3. ASSUME NEW pc, pc \notin {"dead", "idle"}, Goto(r, pc)
      PROVE  Goes(reqs'[r])
  BY <1>3, GotoFields DEF Goes
<1>4. Done(r) => reqs'[r] = Idle
  BY DEF Done, TypeOK
<1>5. ASSUME NEW here, NEW next, <<here, next>> \in CommitSteps, Commit(r, here, next)
      PROVE  Goes(reqs'[r])
  BY <1>5 DEF Commit, CommitSteps, TypeOK, Session, Goes
<1>6. ASSUME NEW here, NEW found, NEW missing, <<here, found, missing>> \in FindSteps,
             FindContainer(r, here, found, missing)
      PROVE  Goes(reqs'[r])
  <2>1. found \notin {"dead", "idle"} /\ missing \notin {"dead", "idle"}
    BY <1>6 DEF FindSteps
  <2> QED BY <1>3, <1>6, <2>1 DEF FindContainer, TypeOK, Session, Goes
<1>7. ASSUME NEW here, NEW next, <<here, next>> \in RmSteps, NEW port,
             RmContainer(r, here, next, port)
      PROVE  Goes(reqs'[r])
  <2>1. next \notin {"dead", "idle"}
    BY <1>7 DEF RmSteps
  <2> QED BY <1>7, <2>1 DEF RmContainer, TypeOK, Session, Goes
<1>8. ASSUME Fetch(r) \/ Snapshot(r) \/ StartContainer(r)
      PROVE  Goes(reqs'[r])
  <2>1. CASE Fetch(r) \/ Snapshot(r)
    BY <2>1 DEF Fetch, Snapshot, TypeOK, Session, Goes
  <2>2. CASE StartContainer(r)
    <3>1. PICK started \in BOOLEAN :
            reqs' = [reqs EXCEPT ![r].pc = IF started THEN "commit_running" ELSE "handler",
                                 ![r].mem.status = IF started THEN "running" ELSE "error"]
      BY <2>2 DEF StartContainer
    <3> QED BY <3>1 DEF TypeOK, Session, Goes
  <2> QED BY <1>8, <2>1, <2>2
<1>9. ASSUME Probe(r)
      PROVE  Goes(reqs'[r])
  <2>1. PICK p \in reqs[r].cand :
          reqs' = IF ProbeSeesHost /\ p \in BoundPorts
                  THEN [reqs EXCEPT ![r].cand = @ \ {p}]
                  ELSE TakePort(r, p)
    BY <1>9 DEF Probe
  <2> QED BY <1>1, <2>1 DEF TakePort, TypeOK, Session, Goes
<1>10. ASSUME StepRaises(r)
       PROVE  Goes(reqs'[r])
  <2>1. reqs' = [reqs EXCEPT ![r].pc = "handler", ![r].mem.status = "error",
                             ![r].cand = {}, ![r].cid = NoCid]
    BY <1>10 DEF StepRaises
  <2> QED BY <2>1 DEF TypeOK, Session, Goes
<1>11. ASSUME ForceRebuild(r) \/ Checkout(r) \/ Build(r) \/ FindImage(r)
       PROVE  Goes(reqs'[r])
  BY <1>3, <1>11 DEF ForceRebuild, Checkout, Build, FindImage
<1>12. ASSUME WriteConf(r) \/ RecordError(r)
       PROVE  Ends
  BY <1>4, <1>12 DEF WriteConf, RecordError
<1>13. CASE Deploy(r)
  BY <1>2, <1>5, <1>6, <1>7, <1>8, <1>9, <1>10, <1>11, <1>12, <1>13
  DEF Deploy, CommitSteps, FindSteps, RmSteps
<1>14. CASE Delete(r)
  <2>1. ASSUME RemoveAppImage(r) \/ RemoveTree(r) \/ RemoveConf(r)
        PROVE  Goes(reqs'[r])
    BY <1>3, <2>1 DEF RemoveAppImage, RemoveTree, RemoveConf
  <2>2. ASSUME RemoveRow(r) \/ DeleteRaises(r)
        PROVE  Ends
    <3>1. reqs[r].op # "deploy"
      BY <1>1, <2>2 DEF RemoveRow, DeleteRaises, Operates, DeletePcs, DeleteOps
    <3> QED BY <1>4, <2>2, <3>1 DEF RemoveRow, DeleteRaises
  <2> QED BY <1>6, <1>7, <1>14, <2>1, <2>2 DEF Delete, FindSteps, RmSteps
<1>15. CASE Patch(r)
  BY <1>1, <1>4, <1>15 DEF Patch, CommitPatch, PatchFails, Operates
<1> QED BY <1>13, <1>14, <1>15 DEF Step

LEMMA AliveStep ==
  ASSUME CommitsSucceed, TypeOK, Inv, Alive, [Next]_vars
  PROVE  Alive'
<1>1. ASSUME NEW r \in Requests, Step(r)
      PROVE  Alive'
  BY <1>1, StepEnds, ReachOfStep DEF Alive, Reach, Goes
<1>2. ASSUME \/ UNCHANGED reqs
             \/ \E r \in Requests :
                  /\ \A q \in Requests \ {r} : reqs'[q] = reqs[q]
                  /\ reqs'[r].pc \in {"rmtree", "fetch", "d_find", "p_commit"}
      PROVE  Alive'
  BY <1>2 DEF Alive, Goes
<1> QED BY <1>1, <1>2, QuietSteps DEF CommitsSucceed

(***************************************************************************)
(* A deployment that does not succeed leaves "error" in the row, if no     *)
(* commit and no removal of a tree fails: the step that failed has set the *)
(* status in memory, and the handler's commit writes it.                   *)
(***************************************************************************)
THEOREM FailuresRecorded ==
  ASSUME CommitsSucceed
  PROVE  Spec => ErrorRecorded
<1> DEFINE Recorded ==
      \A r \in Requests :
        reqs[r].op = "deploy" /\ reqs[r].pc # "write_conf" /\ reqs'[r].pc = "idle"
          => rows'[reqs[r].app].status = "error"
<1>1. Init => Alive
  BY DEF Init, Idle, Alive
<1>2. TypeOK /\ Inv /\ Alive /\ [Next]_vars => Alive'
  BY AliveStep
<1>3. TypeOK /\ Inv /\ Alive /\ [Next]_vars => [Recorded]_vars
  <2> SUFFICES ASSUME TypeOK, Inv, Alive, [Next]_vars, NEW r \in Requests,
                      reqs[r].op = "deploy", reqs[r].pc # "write_conf", reqs'[r].pc = "idle"
               PROVE  rows'[reqs[r].app].status = "error"
    OBVIOUS
  <2>1. reqs[r].pc # "idle" /\ reqs[r] # Idle /\ reqs'[r] # reqs[r]
    BY DEF Alive, Goes, Idle
  <2>2. ASSUME Step(r)
        PROVE  rows'[reqs[r].app].status = "error"
    <3>1. RecordError(r)
      BY <2>2, StepEnds DEF Goes
    <3>2. Fresh(reqs[r]) /\ reqs[r].mem.status = "error"
      BY <2>1, <3>1 DEF Inv, Mine, Deploying, RecordError
    <3> QED BY <2>1, <3>1, <3>2, FlushWrites DEF RecordError
  <2>3. ASSUME NEW q \in Requests \ {r}, Step(q)
        PROVE  reqs'[r] = reqs[r]
    BY <2>3, ReachOfStep DEF Reach
  <2> QED BY <2>1, <2>2, <2>3, QuietSteps DEF CommitsSucceed
<1> QED BY <1>1, <1>2, <1>3, TypeCorrect, InvHolds, PTL DEF Spec, ErrorRecorded, CommitsSucceed

--------------------------------------------------------------------------------
(* Creations, deployments and deletions implement AppContract, for any     *)
(* apps, ports, requests and failures: what the contract's variables map   *)
(* to                                                                      *)

UpPort(a) == IF containers[a].up THEN containers[a].port ELSE NoPort
State(a)  == IF rows[a].status = "running" /\ ~containers[a].up THEN "down" ELSE rows[a].status

\* what a running container binds is a port of the range
Bound == \A a \in AppIds : containers[a].up => containers[a].port \in Ports

ContractInv == TypeOK /\ Inv /\ Blank /\ Bound

LEMMA BlankStep ==
  ASSUME TypeOK, Inv, Blank, [Next]_vars
  PROVE  Blank'
<1> SUFFICES ASSUME NEW a \in AppIds, ~Exists(a)'
             PROVE  rows'[a].port = NoPort
  BY DEF Blank
<1>1. ASSUME NEW r \in Requests, Step(r)
      PROVE  rows'[a].port = NoPort
  <2>1. Mine(reqs[r]) /\ Fresh(reqs[r]) /\ Reach(r)
    BY <1>1, ReachOfStep DEF Inv, Mine
  <2>2. CASE reqs[r].app # a
    BY <2>1, <2>2 DEF Reach, Blank, Exists
  <2>3. CASE reqs[r].app = a
    BY <1>1, <2>1, <2>3, RowStep DEF Fresh, Blank, Exists, NoRow
  <2> QED BY <2>2, <2>3
<1>2. ASSUME \/ UNCHANGED rows
             \/ \E b \in AppIds : /\ rows'[b].port = NoPort
                                  /\ \A c \in AppIds \ {b} : rows'[c] = rows[c]
      PROVE  rows'[a].port = NoPort
  BY <1>2 DEF Blank, Exists
<1> QED BY <1>1, <1>2, QuietSteps

LEMMA BoundStep ==
  ASSUME TypeOK, Inv, Bound, [Next]_vars
  PROVE  Bound'
<1> SUFFICES ASSUME NEW a \in AppIds, containers'[a].up
             PROVE  containers'[a].port \in Ports
  BY DEF Bound
<1>1. ASSUME NEW r \in Requests, Step(r)
      PROVE  containers'[a].port \in Ports
  <2>1. Mine(reqs[r]) /\ Deploying(reqs[r]) /\ Reach(r)
    BY <1>1, ReachOfStep DEF Inv, Mine
  <2>2. CASE reqs[r].app # a
    BY <2>1, <2>2 DEF Reach, Bound
  <2>3. CASE reqs[r].app = a
    BY <1>1, <2>1, <2>3, ContainerStep DEF Bound, NoContainer, Deploying, LeasedPcs
  <2> QED BY <2>2, <2>3
<1>2. ASSUME UNCHANGED containers
      PROVE  containers'[a].port \in Ports
  BY <1>2 DEF Bound
<1> QED BY <1>1, <1>2, QuietSteps

(***************************************************************************)
(* What a step on app a does to the contract's variables.                  *)
(***************************************************************************)
LEMMA MapsTo ==
  ASSUME NEW a \in AppIds,
         \A b \in AppIds \ {a} : rows'[b] = rows[b] /\ containers'[b] = containers[b]
  PROVE  /\ [b \in AppIds |-> State(b)']
              = [[b \in AppIds |-> State(b)] EXCEPT ![a] = State(a)']
         /\ [b \in AppIds |-> rows'[b].port]
              = [[b \in AppIds |-> rows[b].port] EXCEPT ![a] = rows'[a].port]
         /\ [b \in AppIds |-> UpPort(b)']
              = [[b \in AppIds |-> UpPort(b)] EXCEPT ![a] = UpPort(a)']
  BY DEF UpPort, State

\* what the contract lets happen to an app
Keeps(a) == rows'[a].port = rows[a].port /\ UpPort(a)' = UpPort(a)

StatusMoves(a) ==
  /\ Keeps(a)
  /\ \/ State(a)' = State(a)
     \/ State(a) = "absent" /\ State(a)' = "created"
     \/ State(a) # "absent" /\ State(a)' \in {"prepared", "error"}
     \/ /\ State(a) = "prepared" /\ State(a)' = "running"
        /\ rows[a].port # NoPort /\ UpPort(a) = rows[a].port

LeaseMoves(a) ==
  /\ State(a) = "prepared" /\ State(a)' = "prepared"
  /\ UpPort(a)' = UpPort(a)
  /\ \/ rows'[a].port = NoPort
     \/ /\ rows'[a].port \in Ports
        /\ \A b \in AppIds \ {a} : rows[b].port # rows'[a].port

UpMoves(a) ==
  /\ rows'[a].port = rows[a].port
  /\ \/ /\ State(a) # "absent"
        /\ State(a)' = IF State(a) = "running" THEN "down" ELSE State(a)
        /\ UpPort(a)' = NoPort
     \/ /\ State(a) = "prepared" /\ State(a)' = "prepared"
        /\ UpPort(a) = NoPort /\ rows[a].port # NoPort
        /\ \A b \in AppIds : UpPort(b) # rows[a].port
        /\ UpPort(a)' = rows[a].port

GoneMoves(a) ==
  /\ UpPort(a) = NoPort /\ UpPort(a)' = NoPort
  /\ State(a)' = "absent" /\ rows'[a].port = NoPort

Moves(a) == StatusMoves(a) \/ LeaseMoves(a) \/ UpMoves(a) \/ GoneMoves(a)

LEMMA ContractMove ==
  ASSUME NEW a \in AppIds,
         \A b \in AppIds \ {a} : rows'[b] = rows[b] /\ containers'[b] = containers[b],
         Moves(a)
  PROVE  Contract!ContractNext \/ UNCHANGED Contract!cvars
<1> DEFINE st == [b \in AppIds |-> State(b)]
           le == [b \in AppIds |-> rows[b].port]
           up == [b \in AppIds |-> UpPort(b)]
<1>1. /\ st' = [st EXCEPT ![a] = State(a)']
      /\ le' = [le EXCEPT ![a] = rows'[a].port]
      /\ up' = [up EXCEPT ![a] = UpPort(a)']
  BY MapsTo
<1>2. /\ State(a)' = State(a) => st' = st
      /\ rows'[a].port = rows[a].port => le' = le
      /\ UpPort(a)' = UpPort(a) => up' = up
  BY <1>1
<1>3. \A b \in AppIds : st[b] = State(b) /\ le[b] = rows[b].port /\ up[b] = UpPort(b)
  OBVIOUS
<1>4. /\ st = [b \in AppIds |-> IF rows[b].status = "running" /\ ~containers[b].up
                                THEN "down" ELSE rows[b].status]
      /\ up = [b \in AppIds |-> IF containers[b].up THEN containers[b].port ELSE NoPort]
  BY DEF UpPort, State
<1>5. ASSUME st' = st, le' = le, up' = up
      PROVE  UNCHANGED Contract!cvars
  BY <1>5, <1>4 DEF Contract!cvars, UpPort, State
<1>6. /\ \A b \in AppIds : \/ Contract!Create(b) \/ Contract!Prepare(b) \/ Contract!Stop(b)
                           \/ Contract!Release(b) \/ Contract!Start(b) \/ Contract!Succeed(b)
                           \/ Contract!Fail(b)
                           => Contract!ContractNext
      /\ \A b \in AppIds, p \in Ports : Contract!Lease(b, p) => Contract!ContractNext
      /\ \A D \in SUBSET AppIds : Contract!Delete(D) => Contract!ContractNext
  BY DEF Contract!ContractNext
<1>7. ASSUME st[a] = "absent", st' = [st EXCEPT ![a] = "created"], le' = le, up' = up
      PROVE  Contract!Create(a)
  BY <1>7 DEF Contract!Create, UpPort, State
<1>8. ASSUME st[a] # "absent", st' = [st EXCEPT ![a] = "prepared"], le' = le, up' = up
      PROVE  Contract!Prepare(a)
  BY <1>8 DEF Contract!Prepare, UpPort, State
<1>9. ASSUME st[a] # "absent", st' = [st EXCEPT ![a] = "error"], le' = le, up' = up
      PROVE  Contract!Fail(a)
  BY <1>9 DEF Contract!Fail, UpPort, State
<1>10. ASSUME st[a] = "prepared", le[a] # NoPort, up[a] = le[a],
              st' = [st EXCEPT ![a] = "running"], le' = le, up' = up
       PROVE  Contract!Succeed(a)
  BY <1>10 DEF Contract!Succeed, UpPort, State
<1>11. ASSUME st[a] = "prepared", le' = [le EXCEPT ![a] = NoPort], st' = st, up' = up
       PROVE  Contract!Release(a)
  BY <1>11 DEF Contract!Release, UpPort, State
<1>12. ASSUME st[a] # "absent", le' = le, up' = [up EXCEPT ![a] = NoPort],
              st' = [st EXCEPT ![a] = IF @ = "running" THEN "down" ELSE @]
       PROVE  Contract!Stop(a)
  BY <1>12, Zenon DEF Contract!Stop, UpPort, State
<1>13. ASSUME st[a] = "prepared", up[a] = NoPort, le[a] # NoPort,
              \A b \in AppIds : up[b] # le[a],
              up' = [up EXCEPT ![a] = le[a]], st' = st, le' = le
       PROVE  Contract!Start(a)
  BY <1>13 DEF Contract!Start, UpPort, State
<1>14. ASSUME NEW p \in Ports, st[a] = "prepared", \A b \in AppIds \ {a} : le[b] # p,
              le' = [le EXCEPT ![a] = p], st' = st, up' = up
       PROVE  Contract!Lease(a, p)
  BY <1>14 DEF Contract!Lease, UpPort, State
<1>15. ASSUME up[a] = NoPort, up' = up,
             st' = [b \in AppIds |-> IF b \in {a} THEN "absent" ELSE st[b]],
             le' = [b \in AppIds |-> IF b \in {a} THEN NoPort ELSE le[b]]
      PROVE  Contract!Delete({a})
  BY <1>15 DEF Contract!Delete, UpPort, State
<1>16. CASE GoneMoves(a)
  <2>1. /\ st' = [b \in AppIds |-> IF b \in {a} THEN "absent" ELSE st[b]]
        /\ le' = [b \in AppIds |-> IF b \in {a} THEN NoPort ELSE le[b]]
    BY <1>1, <1>16 DEF GoneMoves
  <2>2. up[a] = NoPort /\ up' = up
    BY <1>2, <1>3, <1>16 DEF GoneMoves
  <2> QED BY <1>6, <1>15, <2>1, <2>2
<1> HIDE DEF st, le, up
<1>17. CASE StatusMoves(a)
  BY <1>1, <1>2, <1>3, <1>5, <1>6, <1>7, <1>8, <1>9, <1>10, <1>17 DEF StatusMoves, Keeps
<1>18. CASE LeaseMoves(a)
  <2>1. st[a] = "prepared" /\ st' = st /\ up' = up
    BY <1>2, <1>3, <1>18 DEF LeaseMoves
  <2>2. CASE rows'[a].port = NoPort
    BY <1>1, <1>6, <1>11, <2>1, <2>2
  <2>3. CASE rows'[a].port \in Ports /\ \A b \in AppIds \ {a} : rows[b].port # rows'[a].port
    <3>1. \A b \in AppIds \ {a} : le[b] # rows'[a].port
      BY <1>3, <2>3
    <3>2. PICK p \in Ports : p = rows'[a].port
      BY <2>3
    <3>3. le' = [le EXCEPT ![a] = p]
      BY <1>1, <3>2
    <3>4. Contract!Lease(a, p)
      BY <1>14, <2>1, <3>1, <3>2, <3>3
    <3> QED BY <1>6, <3>4
  <2> QED BY <1>18, <2>2, <2>3 DEF LeaseMoves
<1>19. CASE UpMoves(a)
  BY <1>1, <1>2, <1>3, <1>6, <1>12, <1>13, <1>19 DEF UpMoves
<1> QED BY <1>16, <1>17, <1>18, <1>19 DEF Moves

(***************************************************************************)
(* A step of a deployment or of a deletion moves its app as the contract   *)
(* says.                                                                   *)
(***************************************************************************)
LEMMA StepMoves ==
  ASSUME OnePerApp, UniquePort, "patch" \notin Ops,
         ContractInv, NEW r \in Requests, Step(r), NEW a, a = reqs[r].app
  PROVE  Moves(a)
<1>1. /\ TypeOK /\ Mine(reqs[r]) /\ reqs[r].pc # "idle" /\ Reach(r)
      /\ Fresh(reqs[r]) /\ Deploying(reqs[r]) /\ Deleting(reqs[r])
      /\ Deploy(r) \/ Delete(r)
  <2>1. ~Patch(r)
    BY DEF ContractInv, Inv, Mine, Operates, Patch, CommitPatch, PatchFails
  <2> QED BY <2>1, ReachOfStep DEF ContractInv, Inv, Mine, Step
<1>2. /\ a \in AppIds /\ Exists(a) /\ rows[a] = reqs[r].base
      /\ reqs[r].mem \in Row /\ reqs[r].mem.status # "absent"
  BY <1>1, SessionTyped DEF Fresh
<1>3. ASSUME UNCHANGED <<rows, containers>>
      PROVE  Moves(a)
  BY <1>3 DEF Moves, StatusMoves, Keeps, UpPort, State
<1>4. ASSUME UNCHANGED containers, rows'[a] = reqs[r].mem,
             reqs[r].pc \in {"commit_null", "commit_port"},
             ~Rejected(a, reqs[r].base, reqs[r].mem)
      PROVE  Moves(a)
  <2>1. State(a) = "prepared" /\ State(a)' = "prepared"
    BY <1>1, <1>2, <1>4 DEF Deploying, PreparedPcs, BuiltPcs, State
  <2>2. UpPort(a)' = UpPort(a)
    BY <1>4 DEF UpPort
  <2>3. reqs[r].mem.port \in Ports \cup {NoPort}
    BY <1>2 DEF Row
  <2>4. CASE reqs[r].mem.port = rows[a].port
    BY <1>4, <2>1, <2>2, <2>4 DEF Moves, StatusMoves, Keeps
  <2>5. CASE reqs[r].mem.port # rows[a].port
    BY <1>2, <1>4, <2>1, <2>2, <2>3, <2>5 DEF Moves, LeaseMoves, Rejected
  <2> QED BY <2>4, <2>5
<1>5. ASSUME UNCHANGED containers, rows'[a] = reqs[r].mem,
             reqs[r].pc \in {"commit_prepared", "commit_running", "handler"}
      PROVE  Moves(a)
  <2>1. Keeps(a)
    BY <1>1, <1>2, <1>5 DEF Fresh, Keeps, UpPort
  <2>2. CASE reqs[r].pc \in {"commit_prepared", "handler"}
    <3>1. State(a)' \in {"prepared", "error"} /\ State(a) # "absent"
      BY <1>1, <1>2, <1>5, <2>2 DEF Deploying, State, Exists
    <3> QED BY <2>1, <3>1 DEF Moves, StatusMoves
  <2>3. CASE reqs[r].pc = "commit_running"
    <3>1. /\ rows[a].status = "prepared"
          /\ containers[a].up /\ containers[a].port = reqs[r].mem.port
          /\ rows[a].port = reqs[r].mem.port
      BY <1>1, <1>2, <2>3 DEF Deploying, Fresh
    <3>2. rows[a].port # NoPort /\ UpPort(a) = rows[a].port
      BY <1>2, <3>1, TableAssumption DEF ContractInv, Bound, UpPort
    <3>3. State(a) = "prepared" /\ State(a)' = "running"
      BY <1>1, <1>5, <2>3, <3>1 DEF Deploying, State
    <3> QED BY <2>1, <3>2, <3>3 DEF Moves, StatusMoves
  <2> QED BY <1>5, <2>2, <2>3
<1>6. CASE StartContainer(r)
  <2>1. /\ reqs[r].pc = "start" /\ UNCHANGED rows
        /\ rows[a].status = "prepared" /\ rows[a].port = reqs[r].mem.port
        /\ rows[a].port \in Ports
    BY <1>1, <1>2, <1>6 DEF StartContainer, Deploying, Fresh, PreparedPcs, BuiltPcs, LeasedPcs, table
  <2>2. PICK c \in Cids, started \in BOOLEAN : CreateContainer(a, rows[a].port, c, started)
    BY <1>6, <2>1 DEF StartContainer
  <2>3. UpPort(a) = NoPort /\ UpPort(a)' = IF started THEN rows[a].port ELSE NoPort
    BY <1>1, <1>2, <2>2
    DEF CreateContainer, CanCreate, NoContainer, UpPort, TypeOK, DockerTypeOK
  <2>4. started => \A b \in AppIds : UpPort(b) # rows[a].port
    BY <2>1, <2>2, TableAssumption DEF CreateContainer, BoundPorts, UpPort
  <2>5. State(a) = "prepared" /\ State(a)' = "prepared"
    BY <2>1 DEF State
  <2> QED BY <1>2, <2>1, <2>3, <2>4, <2>5, TableAssumption DEF Moves, UpMoves
<1>7. ASSUME NEW here, NEW next, NEW port, RmContainer(r, here, next, port)
      PROVE  Moves(a)
  <2>1. UNCHANGED rows
    BY <1>7 DEF RmContainer, table
  <2>2. UNCHANGED containers \/ containers'[a] = NoContainer
    BY <1>1, <1>2, <1>7 DEF RmContainer, RemoveContainer, docker, TypeOK, DockerTypeOK
  <2>3. CASE UNCHANGED containers
    BY <1>3, <2>1, <2>3
  <2>4. CASE containers'[a] = NoContainer
    <3>1. UpPort(a)' = NoPort /\ State(a) # "absent"
      BY <1>2, <2>4 DEF UpPort, NoContainer, State, Exists
    <3>2. State(a)' = IF State(a) = "running" THEN "down" ELSE State(a)
      BY <2>1, <2>4 DEF State, NoContainer
    <3> QED BY <2>1, <3>1, <3>2 DEF Moves, UpMoves
  <2> QED BY <2>2, <2>3, <2>4
<1>8. ASSUME NEW here, NEW next, <<here, next>> \in CommitSteps, Commit(r, here, next)
      PROVE  Moves(a)
  <2>1. /\ rows'[a] = reqs[r].mem /\ UNCHANGED containers /\ reqs[r].pc = here
        /\ ~Rejected(a, reqs[r].base, reqs[r].mem)
    BY <1>1, <1>8, FlushWrites DEF Commit, Flush, docker
  <2> QED BY <1>4, <1>5, <1>8, <2>1 DEF CommitSteps
<1>9. CASE RecordError(r)
  <2>1. rows'[a] = reqs[r].mem /\ UNCHANGED containers /\ reqs[r].pc = "handler"
    BY <1>1, <1>9, FlushWrites DEF RecordError, docker
  <2> QED BY <1>5, <2>1
<1>10. ASSUME NEW here, NEW found, NEW missing, FindContainer(r, here, found, missing)
       PROVE  Moves(a)
  BY <1>3, <1>10 DEF FindContainer, table, docker
<1>11. CASE \/ ForceRebuild(r) \/ ForceRebuildFails(r) \/ Fetch(r) \/ Checkout(r) \/ Build(r)
            \/ Snapshot(r) \/ Probe(r) \/ FindImage(r) \/ WriteConf(r) \/ CommitFails(r)
            \/ StepRaises(r) \/ RecordErrorFails(r) \/ RollbackPending(r)
  BY <1>3, <1>11
  DEF ForceRebuild, ForceRebuildFails, Fetch, Checkout, Build, BuildImage, Snapshot, Probe,
      FindImage, WriteConf, CommitFails, StepRaises, RecordErrorFails, RollbackPending, table,
      docker
<1>12. CASE \/ RemoveAppImage(r) \/ RemoveTree(r) \/ RemoveConf(r) \/ DeleteRaises(r)
  BY <1>3, <1>12
  DEF RemoveAppImage, RemoveImage, RemoveTree, RemoveConf, DeleteRaises, table, docker
<1>13. CASE RemoveRow(r)
  <2>1. ~containers[a].up /\ UNCHANGED containers
    BY <1>1, <1>13 DEF RemoveRow, Deleting, docker
  <2>2. rows'[a] = NoRow
    BY <1>1, <1>2, <1>13 DEF RemoveRow, DeleteRow, TypeOK, TableTypeOK
  <2> QED BY <2>1, <2>2 DEF Moves, GoneMoves, UpPort, State, NoRow
<1>14. CASE Deploy(r)
  BY <1>6, <1>7, <1>8, <1>9, <1>10, <1>11, <1>14 DEF Deploy, CommitSteps
<1>15. CASE Delete(r)
  BY <1>7, <1>10, <1>12, <1>13, <1>15 DEF Delete
<1> QED BY <1>1, <1>14, <1>15

LEMMA ContractStarts == Init => ContractInv /\ Contract!ContractInit
<1> SUFFICES ASSUME Init
             PROVE  ContractInv /\ Contract!ContractInit
  OBVIOUS
<1>1. ContractInv
  BY TypeInit
  DEF Init, TableInit, DockerInit, NoRow, NoContainer, Idle, ContractInv, Inv, Blank, Bound,
      IdsOK, Exists, Alone, Imaged, Unnamed, Mine
<1>2. Contract!ContractInit
  BY DEF Init, TableInit, DockerInit, NoRow, NoContainer, Contract!ContractInit
<1> QED BY <1>1, <1>2

LEMMA ContractKept ==
  ASSUME OnePerApp, ContractInv, [Next]_vars
  PROVE  ContractInv'
BY TypeStep, InvStep, BlankStep, BoundStep DEF ContractInv

LEMMA ContractStep ==
  ASSUME OnePerApp, UniquePort, "patch" \notin Ops, ContractInv, [Next]_vars
  PROVE  Contract!ContractNext \/ UNCHANGED Contract!cvars
<1>1. ASSUME NEW r \in Requests, Step(r)
      PROVE  Contract!ContractNext \/ UNCHANGED Contract!cvars
  <2>1. PICK a : a = reqs[r].app
    OBVIOUS
  <2>2. Moves(a)
    BY <1>1, <2>1, StepMoves
  <2>3. a \in AppIds /\ \A b \in AppIds \ {a} : rows'[b] = rows[b] /\ containers'[b] = containers[b]
    BY <1>1, <2>1, ReachOfStep DEF ContractInv, Inv, Mine, Fresh, Reach
  <2> QED BY <2>2, <2>3, ContractMove
<1>2. ASSUME NEW a \in AppIds, ~Exists(a), rows'[a].status = "created", rows'[a].port = NoPort,
             \A b \in AppIds \ {a} : rows'[b] = rows[b], UNCHANGED containers
      PROVE  Contract!ContractNext \/ UNCHANGED Contract!cvars
  <2>1. StatusMoves(a)
    BY <1>2 DEF ContractInv, Blank, StatusMoves, Keeps, UpPort, State, Exists
  <2> QED BY <1>2, <2>1, ContractMove DEF Moves
<1>3. CASE UNCHANGED rows /\ UNCHANGED containers
  BY <1>3 DEF Contract!cvars
<1> QED BY <1>1, <1>2, <1>3, QuietSteps DEF ContractInv

(***************************************************************************)
(* create_app, deploy_app and the two deletions, with whatever fails and   *)
(* crashes in them, implement the contract: each of their steps, and each  *)
(* step of their environment, is a step of AppContract or leaves its       *)
(* variables alone.                                                        *)
(***************************************************************************)
THEOREM DeploysKeepContract ==
  ASSUME OnePerApp, UniquePort, "patch" \notin Ops
  PROVE  Spec => ImplementsContract
<1>1. Init => ContractInv /\ Contract!ContractInit
  BY ContractStarts
<1>2. ContractInv /\ [Next]_vars => ContractInv'
  BY ContractKept
<1>3. ContractInv /\ [Next]_vars => [Contract!ContractNext]_(Contract!cvars)
  BY ContractStep
<1> QED BY <1>1, <1>2, <1>3, PTL DEF Spec, ImplementsContract, Contract!ContractSpec

--------------------------------------------------------------------------------
(* What the contract promises holds of what implements it                  *)

Promised == INSTANCE AppContract_proofs WITH
  Apps  <- AppIds,
  state <- [a \in AppIds |-> IF rows[a].status = "running" /\ ~containers[a].up
                             THEN "down" ELSE rows[a].status],
  lease <- [a \in AppIds |-> rows[a].port],
  up    <- [a \in AppIds |-> IF containers[a].up THEN containers[a].port ELSE NoPort]

LEMMA PromiseOfContract == ImplementsContract => []Contract!Promise
<1>1. Contract!ContractInit => Promised!ContractInit
  BY DEF Contract!ContractInit, Promised!ContractInit
<1>2. ASSUME NEW a \in AppIds
      PROVE  /\ Contract!Create(a) => Promised!Create(a)
             /\ Contract!Prepare(a) => Promised!Prepare(a)
             /\ Contract!Stop(a) => Promised!Stop(a)
             /\ Contract!Release(a) => Promised!Release(a)
             /\ Contract!Start(a) => Promised!Start(a)
             /\ Contract!Succeed(a) => Promised!Succeed(a)
             /\ Contract!Fail(a) => Promised!Fail(a)
             /\ \A p \in Ports : Contract!Lease(a, p) => Promised!Lease(a, p)
  <2>1. Contract!Create(a) => Promised!Create(a)
    BY DEF Contract!Create, Promised!Create
  <2>2. Contract!Prepare(a) => Promised!Prepare(a)
    BY DEF Contract!Prepare, Promised!Prepare
  <2>3. Contract!Stop(a) => Promised!Stop(a)
    BY DEF Contract!Stop, Promised!Stop
  <2>4. Contract!Release(a) => Promised!Release(a)
    BY DEF Contract!Release, Promised!Release
  <2>5. Contract!Start(a) => Promised!Start(a)
    BY DEF Contract!Start, Promised!Start
  <2>6. Contract!Succeed(a) => Promised!Succeed(a)
    BY DEF Contract!Succeed, Promised!Succeed
  <2>7. Contract!Fail(a) => Promised!Fail(a)
    BY DEF Contract!Fail, Promised!Fail
  <2>8. \A p \in Ports : Contract!Lease(a, p) => Promised!Lease(a, p)
    BY DEF Contract!Lease, Promised!Lease
  <2> QED BY <2>1, <2>2, <2>3, <2>4, <2>5, <2>6, <2>7, <2>8
<1>3. \A D \in SUBSET AppIds : Contract!Delete(D) => Promised!Delete(D)
  BY DEF Contract!Delete, Promised!Delete
<1>4. UNCHANGED Contract!cvars => UNCHANGED Promised!cvars
  BY DEF Contract!cvars, Promised!cvars
<1>5. [Contract!ContractNext]_(Contract!cvars) => [Promised!ContractNext]_(Promised!cvars)
  BY <1>2, <1>3, <1>4 DEF Contract!ContractNext, Promised!ContractNext
<1>6. Promised!Promise => Contract!Promise
  BY DEF Promised!Promise, Contract!Promise
<1>7. ImplementsContract => Promised!ContractSpec
  BY <1>1, <1>5, PTL DEF ImplementsContract, Contract!ContractSpec, Promised!ContractSpec
<1>8. Promised!ContractSpec => []Promised!Promise
  BY Promised!ContractPromise
<1> QED BY <1>6, <1>7, <1>8, PTL

(***************************************************************************)
(* Whatever fails or crashes in creations, deployments and deletions: an   *)
(* app that says it is running is up on the port of its row, or down after *)
(* a deletion that has failed; no two apps share a port, and an app that   *)
(* is gone holds none.                                                     *)
(***************************************************************************)
THEOREM PromiseKept ==
  ASSUME OnePerApp, UniquePort, "patch" \notin Ops
  PROVE  Spec => []Contract!Promise
BY DeploysKeepContract, PromiseOfContract, PTL
================================================================================
