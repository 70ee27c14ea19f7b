------------------------------ MODULE AppLifecycle ------------------------------
(***************************************************************************)
(* The requests that change an app: create, deploy and delete              *)
(* (api/v1/apps.py), the administrator's patch and delete                  *)
(* (api/v1/admin.py).  The handlers are coroutines of one event loop; each *)
(* await hands the loop over, so every awaited call (a commit, a query, a  *)
(* subprocess in a thread) is a step of its own and requests interleave    *)
(* between any two of them.  Nothing in the code serialises two requests   *)
(* for the same app: OnePerApp states that their callers do.               *)
(*                                                                         *)
(* A step that calls out may fail.  The kinds of failure a run considers   *)
(* are in FaultKinds, their number is bounded by MaxFaults:                *)
(*   "ext"   the call raises (docker or git exits non-zero or is missing)  *)
(*   "ps"    docker ps fails: docker_container_exists returns ""           *)
(*   "rm"    docker rm fails: docker_remove_container only logs it         *)
(*   "conf"  writing or removing the Nginx conf fails: only logged         *)
(*   "fs"    shutil.rmtree raises, possibly half-way                       *)
(*   "db"    the commit raises                                             *)
(*   "crash" the API process dies and starts again                         *)
(***************************************************************************)
EXTENDS DockerEngine

CONSTANTS
  Requests,        \* slots for requests in flight
  DefaultBranch,   \* what git clone checks out
  Ops,             \* the operations clients use, a subset of AllOps
  OnePerApp,       \* TRUE: no two requests for one app at a time
  ProbeSeesHost,   \* TRUE: the API shares the network namespace of the host;
                   \* FALSE: docker-compose.yml, where it has its own
  NginxEnabled,    \* Config.NGINX_ENABLED
  FaultKinds,      \* the failures considered
  MaxFaults        \* bound: how many of them

AllOps   == {"create", "deploy", "delete", "admin_delete", "patch"}
AllFaults == {"ext", "ps", "rm", "conf", "fs", "db", "crash"}

ASSUME LifecycleAssumption ==
  /\ DefaultBranch \in Branches
  /\ Ops \subseteq AllOps
  /\ {OnePerApp, ProbeSeesHost, NginxEnabled} \subseteq BOOLEAN
  /\ FaultKinds \subseteq AllFaults
  /\ MaxFaults \in Nat

VARIABLES
  trees,   \* trees[a]: BASE_APPS_DIR/app-{a}: absent, empty, broken (half removed)
           \* or the branch checked out in the clone
  confs,   \* confs[a]: the port app-{a}.conf proxies to, NoPort if no such file
  reqs,    \* reqs[r]: the handler's progress and its session's copy of the row
  faults   \* how many failures there have been

table == <<rows, lastId>>
docker == <<containers, images>>
vars  == <<rows, lastId, containers, images, trees, confs, reqs, faults>>

TryPcs    == {"fetch", "commit_prepared", "checkout", "build", "find_old", "rm_old",
              "commit_null", "snapshot", "probe", "commit_port", "find_image",
              "find_again", "rm_again", "start", "commit_running", "write_conf"}
DeletePcs == {"d_find", "d_rm", "d_image", "d_tree", "d_conf", "d_row"}
Pcs       == TryPcs \cup DeletePcs
               \cup {"idle", "rmtree", "handler", "dead", "p_commit"}
Trees     == {"absent", "empty", "broken"} \cup Branches

Idle    == [op |-> "none", pc |-> "idle", app |-> 0, base |-> NoRow, mem |-> NoRow,
            cand |-> {}, cid |-> NoCid]
Session == [op   : AllOps \cup {"none"},
            pc   : Pcs,
            app  : 0..MaxId,
            base : Row,            \* the row as the session last loaded or wrote it
            mem  : Row,            \* the row as it is in the handler's memory
            cand : SUBSET Ports,   \* ports allocate_free_port has still to look at
            cid  : Cids \cup {NoCid}]

TypeOK ==
  /\ TableTypeOK
  /\ DockerTypeOK
  /\ trees \in [AppIds -> Trees]
  /\ confs \in [AppIds -> Ports \cup {NoPort}]
  /\ reqs \in [Requests -> Session]
  /\ faults \in 0..MaxFaults
  /\ \A a \in AppIds : Exists(a) => rows[a].branch \in Branches
  /\ \A r \in Requests : reqs[r].pc # "idle" =>
       reqs[r].app \in AppIds /\ reqs[r].mem.branch \in Branches

Init ==
  /\ TableInit
  /\ DockerInit
  /\ trees = [a \in AppIds |-> "absent"]
  /\ confs = [a \in AppIds |-> NoPort]
  /\ reqs = [r \in Requests |-> Idle]
  /\ faults = 0

--------------------------------------------------------------------------------
(* Vocabulary of the steps *)

NoFault     == UNCHANGED faults
Fault(kind) == kind \in FaultKinds /\ faults < MaxFaults /\ faults' = faults + 1

Goto(r, pc) == reqs' = [reqs EXCEPT ![r].pc = pc]
Done(r)     == reqs' = [reqs EXCEPT ![r] = Idle]

Busy(a)  == \E r \in Requests : reqs[r].app = a
Admit(a) == Exists(a) /\ (OnePerApp => ~Busy(a))

HasClone(a) == trees[a] \in Branches
HeldCids    == {containers[a].id : a \in AppIds} \cup {reqs[r].cid : r \in Requests}

\* the port the scan looks at next
Lowest(r, p) == p \in reqs[r].cand /\ \A q \in reqs[r].cand : p <= q

\* the session of a request that has just loaded the row of app a
Loaded(op, pc, a, mem) ==
  [op |-> op, pc |-> pc, app |-> a, base |-> rows[a], mem |-> mem, cand |-> {}, cid |-> NoCid]

--------------------------------------------------------------------------------
(* create_app: one transaction inserts the row and sets its subdomain *)

CreateApp(r, a, b) ==
  /\ "create" \in Ops
  /\ reqs[r] = Idle
  /\ Insert(a, b)
  /\ UNCHANGED <<docker, trees, confs, reqs, faults>>

--------------------------------------------------------------------------------
(* deploy_app *)

StartDeploy(r, a, b, force) ==
  /\ "deploy" \in Ops
  /\ reqs[r] = Idle
  /\ Admit(a)
  /\ LET rebuild == force /\ trees[a] # "absent"
         mem     == [rows[a] EXCEPT !.branch = b]
     IN /\ reqs' = [reqs EXCEPT ![r] =
                      Loaded("deploy", IF rebuild THEN "rmtree" ELSE "fetch", a, mem)]
        /\ trees' = IF trees[a] = "absent" THEN [trees EXCEPT ![a] = "empty"] ELSE trees
  /\ UNCHANGED <<table, docker, confs, faults>>

ForceRebuild(r) ==
  /\ reqs[r].pc = "rmtree"
  /\ trees' = [trees EXCEPT ![reqs[r].app] = "empty"]
  /\ Goto(r, "fetch")
  /\ NoFault
  /\ UNCHANGED <<table, docker, confs>>

\* outside the try block: the request ends with nothing recorded
ForceRebuildFails(r) ==
  /\ reqs[r].pc = "rmtree"
  /\ Fault("fs")
  /\ \E t \in {trees[reqs[r].app], "broken"} : trees' = [trees EXCEPT ![reqs[r].app] = t]
  /\ Done(r)
  /\ UNCHANGED <<table, docker, confs>>

\* mutant: PREPARED is not set
FetchKeepsStatus(r) ==
  LET a == reqs[r].app IN
  /\ reqs[r].pc = "fetch"
  /\ trees[a] = "empty" \/ HasClone(a)
  /\ trees' = IF HasClone(a) THEN trees ELSE [trees EXCEPT ![a] = DefaultBranch]
  /\ Goto(r, "commit_prepared")
  /\ UNCHANGED <<table, docker, confs, faults>>

\* clone_or_pull_repo, then status = PREPARED in memory
Fetch(r) ==
  LET a == reqs[r].app IN
  /\ reqs[r].pc = "fetch"
  /\ trees[a] = "empty" \/ HasClone(a)
  /\ trees' = IF HasClone(a) THEN trees ELSE [trees EXCEPT ![a] = DefaultBranch]
  /\ reqs' = [reqs EXCEPT ![r].pc = "commit_prepared", ![r].mem.status = "prepared"]
  /\ UNCHANGED <<table, docker, confs, faults>>

Commit(r, here, next) ==
  /\ reqs[r].pc = here
  /\ Flush(reqs[r].app, reqs[r].base, reqs[r].mem)
  /\ reqs' = [reqs EXCEPT ![r].pc = next, ![r].base = reqs[r].mem]
  /\ UNCHANGED <<docker, trees, confs, faults>>

\* The session is then unusable until rolled back, which no handler does.
CommitFails(r) ==
  /\ reqs[r].pc \in {"commit_prepared", "commit_null", "commit_port", "commit_running"}
  /\ \/ Rejected(reqs[r].app, reqs[r].base, reqs[r].mem) /\ NoFault
     \/ Fault("db")
  /\ Goto(r, "dead")
  /\ UNCHANGED <<table, docker, trees, confs>>

\* docker_build: git checkout in the app's only working tree ...
Checkout(r) ==
  LET a == reqs[r].app IN
  /\ reqs[r].pc = "checkout"
  /\ HasClone(a)
  /\ trees' = [trees EXCEPT ![a] = reqs[r].mem.branch]
  /\ Goto(r, "build")
  /\ UNCHANGED <<table, docker, confs, faults>>

\* ... then docker build of whatever the tree holds by then
Build(r) ==
  LET a == reqs[r].app IN
  /\ reqs[r].pc = "build"
  /\ HasClone(a)
  /\ BuildImage(a, trees[a])
  /\ Goto(r, "find_old")
  /\ UNCHANGED <<table, trees, confs, faults>>

\* docker_container_exists: "" also when docker ps fails
FindContainer(r, here, found, missing) ==
  LET c == containers[reqs[r].app] IN
  /\ reqs[r].pc = here
  /\ \/ /\ c # NoContainer
        /\ NoFault
        /\ reqs' = [reqs EXCEPT ![r].pc = found, ![r].cid = c.id]
     \/ /\ (c = NoContainer /\ NoFault) \/ Fault("ps")
        /\ Goto(r, missing)
  /\ UNCHANGED <<table, docker, trees, confs>>

\* mutant: the old container is left for docker_run to remove
KeepContainer(r, here, next, port) ==
  /\ reqs[r].pc = here
  /\ reqs' = [reqs EXCEPT ![r].pc = next, ![r].cid = NoCid, ![r].mem.port = port]
  /\ UNCHANGED <<table, docker, trees, confs, faults>>

\* docker_remove_container: a failure is only logged; port is the handler's
\* internal_port when it goes on
RmContainer(r, here, next, port) ==
  /\ reqs[r].pc = here
  /\ \/ RemoveContainer(reqs[r].app, reqs[r].cid) /\ NoFault
     \/ UNCHANGED docker /\ Fault("rm")
  /\ reqs' = [reqs EXCEPT ![r].pc = next, ![r].cid = NoCid, ![r].mem.port = port]
  /\ UNCHANGED <<table, trees, confs>>

\* mutant: the range starts one too low
SnapshotFromBelow(r) ==
  /\ reqs[r].pc = "snapshot"
  /\ reqs' = [reqs EXCEPT ![r].pc = "probe", ![r].cand = {p - 1 : p \in Ports} \ LeasedPorts]
  /\ UNCHANGED <<table, docker, trees, confs, faults>>

\* allocate_free_port: the query ...
Snapshot(r) ==
  /\ reqs[r].pc = "snapshot"
  /\ reqs' = [reqs EXCEPT ![r].pc = "probe", ![r].cand = Ports \ LeasedPorts]
  /\ UNCHANGED <<table, docker, trees, confs, faults>>

TakePort(r, p) ==
  [reqs EXCEPT ![r].pc = "commit_port", ![r].cand = {}, ![r].mem.port = p]

\* mutant: no socket probe
ProbeTableOnly(r) ==
  /\ reqs[r].pc = "probe"
  /\ \E p \in reqs[r].cand : Lowest(r, p) /\ reqs' = TakePort(r, p)
  /\ UNCHANGED <<table, docker, trees, confs, faults>>

\* mutant: a busy port is tried again
ProbeSamePort(r) ==
  /\ reqs[r].pc = "probe"
  /\ \E p \in reqs[r].cand :
       Lowest(r, p) /\ p \notin BoundPorts /\ reqs' = TakePort(r, p)
  /\ UNCHANGED <<table, docker, trees, confs, faults>>

\* ... and the scan, one socket probe (_is_port_free) per await
Probe(r) ==
  /\ reqs[r].pc = "probe"
  /\ \E p \in reqs[r].cand :
       /\ Lowest(r, p)
       /\ reqs' = IF ProbeSeesHost /\ p \in BoundPorts
                  THEN [reqs EXCEPT ![r].cand = @ \ {p}]
                  ELSE TakePort(r, p)
  /\ UNCHANGED <<table, docker, trees, confs, faults>>

\* docker_run: docker_image_exists
FindImage(r) ==
  /\ reqs[r].pc = "find_image"
  /\ images[reqs[r].app] # NoBranch
  /\ Goto(r, "find_again")
  /\ UNCHANGED <<table, docker, trees, confs, faults>>

FreshCid(c) == c \notin HeldCids /\ \A d \in Cids : d < c => d \in HeldCids

\* docker_run: docker run; it raises when the port is taken, and the handler
\* sets status = ERROR in memory
StartContainer(r) ==
  LET a == reqs[r].app IN
  /\ reqs[r].pc = "start"
  /\ \E c \in Cids, started \in BOOLEAN :
       /\ FreshCid(c)
       /\ CreateContainer(a, reqs[r].mem.port, c, started)
       /\ reqs' = [reqs EXCEPT
                     ![r].pc = IF started THEN "commit_running" ELSE "handler",
                     ![r].mem.status = IF started THEN "running" ELSE "error"]
  /\ UNCHANGED <<table, trees, confs, faults>>

\* write_app_conf and remove_app_conf never raise: a failure is only logged
SetConf(a, port) ==
  \/ NoFault /\ confs' = IF NginxEnabled THEN [confs EXCEPT ![a] = port] ELSE confs
  \/ Fault("conf") /\ NginxEnabled /\ UNCHANGED confs

\* mutant: a conf that is there is not overwritten
WriteConfOnce(r) ==
  LET a == reqs[r].app IN
  /\ reqs[r].pc = "write_conf"
  /\ confs' = IF confs[a] = NoPort THEN [confs EXCEPT ![a] = reqs[r].mem.port] ELSE confs
  /\ Done(r)
  /\ UNCHANGED <<table, docker, trees, faults>>

WriteConf(r) ==
  /\ reqs[r].pc = "write_conf"
  /\ SetConf(reqs[r].app, reqs[r].mem.port)
  /\ Done(r)
  /\ UNCHANGED <<table, docker, trees>>

\* the conditions under which the step at hand cannot succeed
CannotProceed(r) ==
  LET a == reqs[r].app
      pc == reqs[r].pc
  IN \/ pc = "fetch" /\ trees[a] \in {"absent", "broken"}
     \/ pc \in {"checkout", "build"} /\ ~HasClone(a)
     \/ pc = "probe" /\ reqs[r].cand = {}            \* NoAvailablePortError
     \/ pc = "find_image" /\ images[a] = NoBranch    \* DockerImageNotFoundError
     \/ pc = "start" /\ ~CanCreate(a)

\* except Exception: status = ERROR in memory
StepRaises(r) ==
  /\ \/ CannotProceed(r) /\ NoFault
     \/ /\ reqs[r].pc \in {"fetch", "checkout", "build", "find_old", "rm_old",
                           "find_image", "find_again", "rm_again", "start"}
        /\ Fault("ext")
  /\ reqs' = [reqs EXCEPT ![r].pc = "handler", ![r].mem.status = "error",
                          ![r].cand = {}, ![r].cid = NoCid]
  /\ UNCHANGED <<table, docker, trees, confs>>

\* mutant: the error status is not committed
ForgetError(r) ==
  /\ reqs[r].pc = "handler"
  /\ Done(r)
  /\ UNCHANGED <<table, docker, trees, confs, faults>>

RecordError(r) ==
  /\ reqs[r].pc = "handler"
  /\ Flush(reqs[r].app, reqs[r].base, reqs[r].mem)
  /\ Done(r)
  /\ UNCHANGED <<docker, trees, confs, faults>>

RecordErrorFails(r) ==
  /\ reqs[r].pc = "handler"
  /\ \/ Rejected(reqs[r].app, reqs[r].base, reqs[r].mem) /\ NoFault
     \/ Fault("db")
  /\ Done(r)
  /\ UNCHANGED <<table, docker, trees, confs>>

\* the handler's commit on a session whose flush failed: PendingRollbackError
RollbackPending(r) ==
  /\ reqs[r].pc = "dead"
  /\ Done(r)
  /\ UNCHANGED <<table, docker, trees, confs, faults>>

Deploy(r) ==
  \/ ForceRebuild(r) \/ ForceRebuildFails(r)
  \/ Fetch(r)
  \/ Commit(r, "commit_prepared", "checkout")
  \/ Checkout(r) \/ Build(r)
  \/ FindContainer(r, "find_old", "rm_old", "snapshot")
  \/ RmContainer(r, "rm_old", "commit_null", NoPort)
  \/ Commit(r, "commit_null", "snapshot")
  \/ Snapshot(r) \/ Probe(r)
  \/ Commit(r, "commit_port", "find_image")
  \/ FindImage(r)
  \/ FindContainer(r, "find_again", "rm_again", "start")
  \/ RmContainer(r, "rm_again", "start", reqs[r].mem.port)
  \/ StartContainer(r)
  \/ Commit(r, "commit_running", "write_conf")
  \/ WriteConf(r)
  \/ CommitFails(r) \/ StepRaises(r)
  \/ RecordError(r) \/ RecordErrorFails(r) \/ RollbackPending(r)

--------------------------------------------------------------------------------
(* delete_app and admin_delete_app, which differ in the order of two steps *)

StartDelete(r, a, op) ==
  /\ op \in Ops \cap {"delete", "admin_delete"}
  /\ reqs[r] = Idle
  /\ Admit(a)
  /\ reqs' = [reqs EXCEPT ![r] = Loaded(op, "d_find", a, rows[a])]
  /\ UNCHANGED <<table, docker, trees, confs, faults>>

\* mutant: a refused removal is only logged
RemoveAppImageLogged(r) ==
  /\ reqs[r].pc = "d_image"
  /\ RemoveImage(reqs[r].app) \/ (ImageInUse(reqs[r].app) /\ UNCHANGED docker)
  /\ Goto(r, IF reqs[r].op = "delete" THEN "d_tree" ELSE "d_conf")
  /\ UNCHANGED <<table, trees, confs, faults>>

\* docker_remove_image
RemoveAppImage(r) ==
  /\ reqs[r].pc = "d_image"
  /\ RemoveImage(reqs[r].app)
  /\ Goto(r, IF reqs[r].op = "delete" THEN "d_tree" ELSE "d_conf")
  /\ UNCHANGED <<table, trees, confs, faults>>

RemoveTree(r) ==
  /\ reqs[r].pc = "d_tree"
  /\ trees' = [trees EXCEPT ![reqs[r].app] = "absent"]
  /\ Goto(r, IF reqs[r].op = "delete" THEN "d_conf" ELSE "d_row")
  /\ NoFault
  /\ UNCHANGED <<table, docker, confs>>

RemoveConf(r) ==
  /\ reqs[r].pc = "d_conf"
  /\ SetConf(reqs[r].app, NoPort)
  /\ Goto(r, IF reqs[r].op = "delete" THEN "d_row" ELSE "d_tree")
  /\ UNCHANGED <<table, docker, trees>>

\* a DELETE of a row that is gone raises nothing
RemoveRow(r) ==
  /\ reqs[r].pc = "d_row"
  /\ DeleteRow(reqs[r].app)
  /\ Done(r)
  /\ UNCHANGED <<docker, trees, confs, faults>>

\* no handler: what has been removed stays removed, the row stays
DeleteRaises(r) ==
  LET a == reqs[r].app IN
  /\ \/ reqs[r].pc = "d_image" /\ ImageInUse(a) /\ NoFault /\ UNCHANGED trees
     \/ reqs[r].pc \in {"d_find", "d_rm", "d_image"} /\ Fault("ext") /\ UNCHANGED trees
     \/ reqs[r].pc = "d_row" /\ Fault("db") /\ UNCHANGED trees
     \/ /\ reqs[r].pc = "d_tree" /\ trees[a] # "absent" /\ Fault("fs")
        /\ \E t \in {trees[a], "broken"} : trees' = [trees EXCEPT ![a] = t]
  /\ Done(r)
  /\ UNCHANGED <<table, docker, confs>>

\* mutant: the row goes right after the image
DeleteRowFirst(r) ==
  \/ FindContainer(r, "d_find", "d_rm", "d_image")
  \/ RmContainer(r, "d_rm", "d_image", reqs[r].mem.port)
  \/ RemoveAppImage(r) \/ DeleteRaises(r)
  \/ reqs[r].pc = "d_tree" /\ DeleteRow(reqs[r].app) /\ Done(r)
       /\ UNCHANGED <<docker, trees, confs, faults>>

Delete(r) ==
  \/ FindContainer(r, "d_find", "d_rm", "d_image")
  \/ RmContainer(r, "d_rm", "d_image", reqs[r].mem.port)
  \/ RemoveAppImage(r) \/ RemoveTree(r) \/ RemoveConf(r) \/ RemoveRow(r)
  \/ DeleteRaises(r)

--------------------------------------------------------------------------------
(* admin_update_app: any status, any branch *)

StartPatch(r, a, s, b) ==
  /\ "patch" \in Ops
  /\ reqs[r] = Idle
  /\ Admit(a)
  /\ reqs' = [reqs EXCEPT ![r] =
                Loaded("patch", "p_commit", a, [rows[a] EXCEPT !.status = s, !.branch = b])]
  /\ UNCHANGED <<table, docker, trees, confs, faults>>

CommitPatch(r) ==
  /\ reqs[r].pc = "p_commit"
  /\ Flush(reqs[r].app, reqs[r].base, reqs[r].mem)
  /\ Done(r)
  /\ UNCHANGED <<docker, trees, confs, faults>>

PatchFails(r) ==
  /\ reqs[r].pc = "p_commit"
  /\ \/ Rejected(reqs[r].app, reqs[r].base, reqs[r].mem) /\ NoFault
     \/ Fault("db")
  /\ Done(r)
  /\ UNCHANGED <<table, docker, trees, confs>>

Patch(r) == CommitPatch(r) \/ PatchFails(r)

--------------------------------------------------------------------------------
(* lifespan: a restart repairs nothing *)

Crash ==
  /\ Fault("crash")
  /\ \E r \in Requests : reqs[r] # Idle
  /\ reqs' = [r \in Requests |-> Idle]
  /\ UNCHANGED <<table, docker, trees, confs>>

Step(r) == Deploy(r) \/ Delete(r) \/ Patch(r)

Request(r) ==
  \E a \in AppIds, b \in Branches :
    \/ CreateApp(r, a, b)
    \/ \E force \in BOOLEAN : StartDeploy(r, a, b, force)
    \/ \E op \in {"delete", "admin_delete"} : StartDelete(r, a, op)
    \/ \E s \in Statuses : StartPatch(r, a, s, b)

Next == (\E r \in Requests : Request(r) \/ Step(r)) \/ Crash

Spec == Init /\ [][Next]_vars

\* The event loop runs every coroutine whose await is over, and every await ends:
\* a handler under way goes on.
FairSpec == Spec /\ \A r \in Requests : WF_vars(Step(r))
================================================================================
