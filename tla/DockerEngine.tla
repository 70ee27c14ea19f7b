------------------------------ MODULE DockerEngine ------------------------------
(***************************************************************************)
(* The Docker daemon as app/services/docker.py uses it: per app one image  *)
(* name (app_{id}_image) and one container name (app_{id}_container).      *)
(* External: what each command does is what the code relies on.            *)
(*   - docker rm works on a container id, not on the name;                 *)
(*   - docker rmi -f refuses an image a running container uses;            *)
(*   - docker run refuses a name in use; when the host port is bound it    *)
(*     leaves the container created but not started.                       *)
(***************************************************************************)
EXTENDS AppsTable

CONSTANTS
  Cids,       \* bound: container ids (an id nobody holds any more may return)
  HostPorts   \* ports bound by processes gitDeploy does not manage

NoCid == 0

ASSUME DockerAssumption ==
  /\ Cids \subseteq Nat \ {NoCid}
  /\ HostPorts \subseteq Nat

VARIABLES
  containers,  \* containers[a]: what has the name app_{a}_container
  images       \* images[a]: the branch app_{a}_image:latest was built from

NoContainer == [id |-> NoCid, port |-> NoPort, up |-> FALSE, branch |-> NoBranch]
Container   == [id : Cids \cup {NoCid}, port : Ports \cup {NoPort},
                up : BOOLEAN, branch : Branches \cup {NoBranch}]

DockerTypeOK ==
  /\ containers \in [AppIds -> Container]
  /\ images \in [AppIds -> Branches \cup {NoBranch}]

DockerInit ==
  /\ containers = [a \in AppIds |-> NoContainer]
  /\ images = [a \in AppIds |-> NoBranch]

BoundPorts == HostPorts \cup {containers[a].port : a \in {b \in AppIds : containers[b].up}}

\* docker build: tags what the working tree holds
BuildImage(a, b) ==
  /\ images' = [images EXCEPT ![a] = b]
  /\ UNCHANGED containers

\* docker rm -f cid: no effect when the container of that id is gone
RemoveContainer(a, cid) ==
  /\ containers' = IF containers[a].id = cid
                   THEN [containers EXCEPT ![a] = NoContainer]
                   ELSE containers
  /\ UNCHANGED images

\* docker rmi -f
ImageInUse(a) == images[a] # NoBranch /\ containers[a].up

RemoveImage(a) ==
  /\ ~ImageInUse(a)
  /\ images' = [images EXCEPT ![a] = NoBranch]
  /\ UNCHANGED containers

\* docker run -d --name ... -p p:...: the name is free and the image is there
CanCreate(a) == containers[a] = NoContainer /\ images[a] # NoBranch

CreateContainer(a, p, cid, started) ==
  /\ CanCreate(a)
  /\ started <=> p \notin BoundPorts
  /\ containers' = [containers EXCEPT ![a] =
                      [id |-> cid, port |-> p, up |-> started, branch |-> images[a]]]
  /\ UNCHANGED images
================================================================================
