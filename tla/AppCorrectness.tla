----------------------------- MODULE AppCorrectness -----------------------------
(***************************************************************************)
(* What makes AppLifecycle correct.  Each property says under which of its *)
(* constants the code keeps it; the runs give those values.                *)
(***************************************************************************)
EXTENDS AppLifecycle

(***************************************************************************)
(* A row says "running" only while the app's container is up, listens on   *)
(* the port in the row and runs the branch in the row: deploy_app sets     *)
(* PREPARED before it touches the old container and RUNNING only after the *)
(* new one is up, whatever fails or crashes in between.  (Needs OnePerApp, *)
(* and neither deletions nor patches.)                                     *)
(***************************************************************************)
RunningIsDeployed ==
  \A a \in AppIds : rows[a].status = "running" =>
    /\ containers[a].up
    /\ containers[a].port = rows[a].port
    /\ containers[a].branch = rows[a].branch

(***************************************************************************)
(* Nginx routes a running app to the port in its row once its deployment   *)
(* has returned: write_app_conf comes last and overwrites the conf of the  *)
(* previous deployment.                                                    *)
(***************************************************************************)
RunningIsRouted ==
  \A a \in AppIds :
    rows[a].status = "running" /\ ~Busy(a) => confs[a] = rows[a].port

(***************************************************************************)
(* An app without a row has left nothing behind: no running container, no  *)
(* image, no directory, no conf.  delete_app removes the row last and lets *)
(* a failed image removal abort, so a deletion that fails or crashes can   *)
(* be repeated.  (A conf may remain when removing it failed: only logged.) *)
(***************************************************************************)
DeletedLeavesNothing ==
  \A a \in AppIds : ~Exists(a) =>
    /\ ~containers[a].up
    /\ images[a] = NoBranch
    /\ trees[a] = "absent"
    /\ "conf" \notin FaultKinds => confs[a] = NoPort

(***************************************************************************)
(* A container binds a port only while its app's row holds that port:      *)
(* deploy_app commits the port before docker run, and gives it up only     *)
(* after docker rm.  (Needs docker ps and docker rm not to fail silently.) *)
(***************************************************************************)
LeaseCoversContainer ==
  \A a \in AppIds : containers[a].up => containers[a].port = rows[a].port

(***************************************************************************)
(* No two rows hold the same port, whatever requests interleave.           *)
(***************************************************************************)
NoSharedLease ==
  \A a, b \in AppIds :
    a # b /\ rows[a].port # NoPort => rows[a].port # rows[b].port

(***************************************************************************)
(* From the commit of its port until docker run, nobody else binds the     *)
(* port of a deployment: the socket probe, the query of the table and the  *)
(* UNIQUE constraint together close the window between probe and commit.   *)
(***************************************************************************)
AllocatedPortStaysFree ==
  \A r \in Requests :
    reqs[r].pc \in {"find_image", "find_again", "start"} =>
      /\ reqs[r].mem.port \notin HostPorts
      /\ \A a \in AppIds \ {reqs[r].app} :
           containers[a].up => containers[a].port # reqs[r].mem.port

(***************************************************************************)
(* docs/WORKING.md:9 and docs/SRS.md:220: a deployment that fails leaves   *)
(* status "error" in the committed row.                                    *)
(***************************************************************************)
ErrorRecorded ==
  [][\A r \in Requests :
       reqs[r].op = "deploy" /\ reqs[r].pc # "write_conf" /\ reqs'[r].pc = "idle"
         => rows'[reqs[r].app].status = "error"]_vars

(***************************************************************************)
(* A row that is gone comes back only as a new app: an UPDATE by a request *)
(* that loaded it before it was deleted does not re-create it.             *)
(***************************************************************************)
NoResurrection ==
  [][\A a \in AppIds : ~Exists(a) /\ Exists(a)' =>
       rows'[a].status = "created" /\ rows'[a].port = NoPort]_vars

(***************************************************************************)
(* Concurrent requests for one app lose no write of another column: a      *)
(* commit changes a column only to a value its own request gave it, never  *)
(* back to the value the request happened to load.                         *)
(***************************************************************************)
NoLostUpdate ==
  [][\A a \in AppIds : Exists(a) /\ Exists(a)' =>
       \A col \in {"status", "port", "branch"} :
         rows'[a][col] # rows[a][col] =>
           \E r \in Requests :
             /\ reqs[r].app = a
             /\ reqs[r].mem[col] = rows'[a][col]
             /\ reqs[r].base[col] # reqs[r].mem[col]]_vars

(***************************************************************************)
(* Every request returns: no handler waits for another one.                *)
(***************************************************************************)
RequestsReturn ==
  \A r \in Requests : (reqs[r].pc # "idle") ~> (reqs[r].pc = "idle")

(***************************************************************************)
(* Creations, deployments and deletions implement AppContract: every step  *)
(* of a handler, of a failure and of a crash is a step of the promise or   *)
(* invisible in it.  A row that says "running" when no container is up is  *)
(* "down", and so must have been running.  (Needs OnePerApp and            *)
(* UniquePort, and no patches, which set any status.)                      *)
(***************************************************************************)
Contract == INSTANCE AppContract WITH
  Apps  <- AppIds,
  state <- [a \in AppIds |-> IF rows[a].status = "running" /\ ~containers[a].up
                             THEN "down" ELSE rows[a].status],
  lease <- [a \in AppIds |-> rows[a].port],
  up    <- [a \in AppIds |-> IF containers[a].up THEN containers[a].port ELSE NoPort]

ImplementsContract == Contract!ContractSpec

================================================================================
