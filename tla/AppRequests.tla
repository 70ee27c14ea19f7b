------------------------------- MODULE AppRequests -------------------------------
(***************************************************************************)
(* What create_app and deploy_app (api/v1/apps.py) make of the values in a *)
(* request: schemas, the check of the repository, the row, the image and   *)
(* the container, and the status of the reply (app/Errors).  One app and   *)
(* one request at a time, each a step: interleavings are in AppLifecycle.  *)
(* What a request meets (GitHub, the repository, docker, ports) is a world *)
(* chosen with it.  A repository name is a sequence of pieces, so that the *)
(* places of ".git" in it can be told; other strings are model values.     *)
(***************************************************************************)
EXTENDS Naturals, Sequences, SequencesExt

CONSTANTS
  CreateRequests,  \* [name, url, container_port, branch, source_dir, dockerfile_path, env]
  DeployRequests,  \* AppDeployRequestModel, None where a field is not given
  Worlds,          \* [github, clones, default, branches, paths, files, builds, port,
                   \*  removes, run]: see BuildChecks, TreeAfter, Deploy
  Names, Branches, Paths, \* what the validators of the schemas let pass
  Envs

None   == "none"
NoEnv  == "{}"   \* an empty or missing dict

ASSUME AppRequestsAssumption ==
  /\ \A w \in Worlds :
       /\ w.github \in {"down", "404", "private", "limited", "public"}
       /\ {w.clones, w.builds, w.port} \subseteq BOOLEAN
       /\ w.removes \subseteq {"deploy_app", "docker_run"}
       /\ w.run \in {"up", "created", "refused"}
  /\ \A r \in CreateRequests :
       /\ r.container_port \in Nat /\ r.url.github \in BOOLEAN
       /\ r.url.path \in Seq(Seq(STRING) \ {<<>>})
  /\ None \notin Branches \cup Paths \cup Envs
  /\ NoEnv \in Envs

VARIABLES
  row,        \* the committed row, or None
  dir,        \* the app's directory: what was cloned, its branch, its .env
  image,      \* what app_<id>_image:latest was built from
  container,  \* the container with the name app_<id>_container
  reply,      \* the last reply: its status, and the create request it answers, if any
  checked     \* observation: the repository names asked for and cloned

rvars == <<row, dir, image, container, reply, checked>>

NoDir       == [repo |-> <<>>, branch |-> None, env |-> NoEnv]
NoImage     == [branch |-> None, dockerfile_path |-> None, source_dir |-> None]
NoContainer == [up |-> FALSE, image |-> NoImage, container_port |-> 0, env |-> NoEnv]
NoRow       == [status |-> None]

\* AppBaseError's subclasses that the code raises; IntegrityError has no handler
StatusCode ==
  [InvalidRepoURL |-> 400, MalformedRepoURL |-> 400, UnexpectedRepoURLFormat |-> 400,
   GitHubAPIConnection |-> 502, RepoNotFoundOrPrivate |-> 404, GitHubAPI |-> 502,
   PrivateRepoNotSupported |-> 403, GitClone |-> 500, GitBranchNotFound |-> 404,
   DockerfileNotFound |-> 400, DockerBuild |-> 500, DockerRun |-> 500,
   NoAvailablePort |-> 503, AppNotFound |-> 404, Validation |-> 422, Integrity |-> 500,
   GitPull |-> 500, DockerImageNotFound |-> 500, DockerContainerRemoval |-> 500,
   DockerImageRemoval |-> 500, none |-> 201]

\* app_error_handler; the framework itself for the others
Reply(error, to) == reply' = [status |-> StatusCode[error], to |-> to]

\* a check is <<what must hold, the error if it does not>>; the first that fails counts
Passes(checks) == \A i \in DOMAIN checks : checks[i][1]

FirstError(checks) ==
  IF Passes(checks) THEN None
  ELSE LET first == CHOOSE i \in DOMAIN checks :
                      ~checks[i][1] /\ \A j \in 1..(i - 1) : checks[j][1]
       IN  checks[first][2]

--------------------------------------------------------------------------------
(* app_create_request_schema.py, app_deploy_request_schema.py *)

\* mutant: the upper bound of the port forgotten
CreateSchemaOpen(r) ==
  /\ r.name \in Names
  /\ r.container_port > 0
  /\ r.branch \in Branches
  /\ {r.source_dir, r.dockerfile_path} \subseteq Paths
  /\ r.env \in Envs

CreateSchema(r) ==
  /\ r.name \in Names
  /\ r.container_port > 0 /\ r.container_port < 65536
  /\ r.branch \in Branches
  /\ {r.source_dir, r.dockerfile_path} \subseteq Paths
  /\ r.env \in Envs

DeploySchema(r) ==
  /\ r.branch \in Branches \cup {None}
  /\ {r.source_dir, r.dockerfile_path} \subseteq Paths \cup {None}
  /\ r.env \in Envs \cup {None}

\* valid_port_range of the table
PortConstraint(r) == r.container_port >= 1024 /\ r.container_port <= 65535

--------------------------------------------------------------------------------
(* validate_github_repo; git clone *)

\* mutant: the name is taken as it stands in the URL
RawName(segment) == segment

\* .replace(".git", "")
CheckedName(segment) ==
  LET kept[i \in 0..Len(segment)] ==
        IF i = 0 THEN <<>>
        ELSE IF segment[i] = ".git" THEN kept[i - 1] ELSE Append(kept[i - 1], segment[i])
  IN  kept[Len(segment)]

\* GitHub serves owner/repo under owner/repo.git too
ClonedName(segment) == IF Last(segment) = ".git" THEN Front(segment) ELSE segment

RepoChecks(url, w) ==
  <<<<url.github, "InvalidRepoURL">>,
    <<Len(url.path) >= 2, "MalformedRepoURL">>,
    <<Len(url.path) <= 2, "UnexpectedRepoURLFormat">>,
    <<w.github # "down", "GitHubAPIConnection">>,
    <<w.github # "404", "RepoNotFoundOrPrivate">>,
    <<w.github # "limited", "GitHubAPI">>,
    <<w.github # "private", "PrivateRepoNotSupported">>>>

--------------------------------------------------------------------------------

TypeOK ==
  /\ row = NoRow \/ (/\ row.status \in {"created", "running", "error"}
                     /\ row.branch \in Branches
                     /\ {row.source_dir, row.dockerfile_path} \subseteq Paths
                     /\ row.env \in Envs)
  /\ reply.status \in 200..599
  /\ dir.env \in Envs
  /\ container.env \in Envs
  /\ container # NoContainer => container.image # NoImage

Init ==
  /\ row = NoRow
  /\ dir = NoDir
  /\ image = NoImage
  /\ container = NoContainer
  /\ reply = [status |-> 200, to |-> <<>>]
  /\ checked = <<<<>>, <<>>>>

\* create_app, and the reply app_error_handler or the framework gives
CreateChecks(r, w) ==
  <<<<CreateSchema(r), "Validation">>>> \o RepoChecks(r.url, w)
    \o <<<<PortConstraint(r), "Integrity">>>>

Create(r, w) ==
  /\ row = NoRow
  /\ Reply(FirstError(CreateChecks(r, w)), <<r>>)
  /\ IF Passes(CreateChecks(r, w))
     THEN /\ row' = [status |-> "created", url |-> r.url, container_port |-> r.container_port,
                     branch |-> r.branch, source_dir |-> r.source_dir,
                     dockerfile_path |-> r.dockerfile_path, env |-> r.env]
          /\ checked' = <<CheckedName(r.url.path[2]), ClonedName(r.url.path[2])>>
     ELSE UNCHANGED <<row, checked>>
  /\ UNCHANGED <<dir, image, container>>

\* mutant: a field that is not given is overwritten too
GivenOrNot(new, old) == new

Given(new, old) == IF new = None THEN old ELSE new

Overridden(r) ==
  [row EXCEPT !.branch = Given(r.branch, @), !.dockerfile_path = Given(r.dockerfile_path, @),
              !.source_dir = Given(r.source_dir, @), !.env = Given(r.env, @)]

\* deploy_app after the row is found, up to the image
BuildChecks(new, w) ==
  RepoChecks(new.url, w) \o
  <<<<w.clones, "GitClone">>,                        \* or GitPull, if there is a clone
    <<new.branch \in w.branches \cup w.paths, "GitBranchNotFound">>,
    <<new.dockerfile_path \in w.files, "DockerfileNotFound">>,
    <<w.builds, "DockerBuild">>>>

\* docker run refuses a name in use: both deploy_app and docker_run query the
\* container and remove it, and go on when docker ps or docker rm fails
NameFree(w) == container = NoContainer \/ w.removes # {}

\* mutant: the exit code of docker run is not looked at
RunUnchecked(new, w) == BuildChecks(new, w) \o <<<<w.port, "NoAvailablePort">>>>

DeployChecks(new, w) ==
  BuildChecks(new, w) \o
  <<<<w.port, "NoAvailablePort">>,
    <<NameFree(w) /\ w.run = "up", "DockerRun">>>>   \* or DockerImageNotFound

\* mutant: a tree that is there is pulled and not switched
TreePulled(r, new, w) ==
  IF dir # NoDir /\ ~r.force_rebuild THEN dir
  ELSE [repo |-> ClonedName(new.url.path[2]), branch |-> new.branch, env |-> NoEnv]

\* the tree that force_rebuild, clone or pull, and git checkout leave; checkout of
\* the name of a path and of no branch succeeds and stays on the branch; .env is
\* written if the request gives variables
TreeAfter(r, new, w) ==
  LET old     == IF r.force_rebuild THEN NoDir ELSE dir
      fetched == Passes(RepoChecks(new.url, w)) /\ w.clones
  IN  IF ~fetched THEN old
      ELSE [repo   |-> IF old = NoDir THEN ClonedName(new.url.path[2]) ELSE old.repo,
            branch |-> IF new.branch \in w.branches THEN new.branch
                       ELSE IF old = NoDir THEN w.default ELSE old.branch,
            env    |-> IF r.env \in {None, NoEnv} THEN old.env ELSE r.env]

\* after deploy_app's removal, which comes once the image is built, and docker_run's,
\* once there is a port too; an old container stays if they fail
ContainerBeforeRun(built, w) ==
  IF built /\ ("deploy_app" \in w.removes \/ (w.port /\ "docker_run" \in w.removes))
  THEN NoContainer ELSE container

Deploy(r, w) ==
  LET new   == Overridden(r)
      built == Passes(BuildChecks(new, w))
      runs  == Passes(DeployChecks(new, w))
      built_from == [branch |-> TreeAfter(r, new, w).branch,
                     dockerfile_path |-> new.dockerfile_path, source_dir |-> new.source_dir]
  IN  /\ row # NoRow
      /\ DeploySchema(r)
      /\ Reply(FirstError(DeployChecks(new, w)), <<>>)
      /\ row' = [new EXCEPT !.status = IF runs THEN "running" ELSE "error"]
      /\ dir' = TreeAfter(r, new, w)
      /\ image' = IF built THEN built_from ELSE image
      /\ container' =
           IF built /\ w.port /\ NameFree(w) /\ w.run # "refused"
           THEN [up |-> w.run = "up", image |-> built_from,
                 container_port |-> new.container_port,
                 env |-> IF r.env = None THEN NoEnv ELSE r.env]
           ELSE ContainerBeforeRun(built, w)
      /\ UNCHANGED checked

Refuse(r) ==
  /\ row = NoRow \/ ~DeploySchema(r)
  /\ Reply(IF DeploySchema(r) THEN "AppNotFound" ELSE "Validation", <<>>)
  /\ UNCHANGED <<row, dir, image, container, checked>>

Next ==
  \/ \E r \in CreateRequests, w \in Worlds : Create(r, w)
  \/ \E r \in DeployRequests, w \in Worlds : Deploy(r, w)
  \/ \E r \in DeployRequests : Refuse(r)

Spec == Init /\ [][Next]_rvars

--------------------------------------------------------------------------------

(***************************************************************************)
(* While the app says running, its container is up, made from the last     *)
(* image and exposing the port of the row; the image was built with the    *)
(* Dockerfile and the directory the row names, from the branch it names,   *)
(* after any overrides, failed deployments and removals of containers.     *)
(* Only a branch that has the name of a path of the repository and of no   *)
(* branch is not what was built: git checkout takes it and switches to     *)
(* nothing.                                                                *)
(***************************************************************************)
PathNames == UNION {w.paths : w \in Worlds}

RunsAsStored ==
  row # NoRow /\ row.status = "running" =>
    /\ container.up /\ container.image = image
    /\ image.branch = dir.branch /\ (dir.branch = row.branch \/ row.branch \in PathNames)
    /\ image.dockerfile_path = row.dockerfile_path
    /\ image.source_dir = row.source_dir
    /\ container.container_port = row.container_port

(***************************************************************************)
(* ... and it has the environment variables of its row.                    *)
(***************************************************************************)
RunsWithStoredEnv ==
  row # NoRow /\ row.status = "running" => container.env = row.env

(***************************************************************************)
(* A 5xx reply to a request to create an app is the client's fault for the *)
(* container ports 1 to 1023 and for nothing else: the schema accepts      *)
(* these ports and the table rejects them.  Every other request that was   *)
(* answered so is accepted when GitHub answers as it should.               *)
(***************************************************************************)
ServerErrorsPass ==
  reply.status >= 500 /\ reply.to # <<>> =>
    ((\E w \in Worlds : Passes(CreateChecks(reply.to[1], w)))
       <=> reply.to[1].container_port \notin 1..1023)

(***************************************************************************)
(* The repository that was found public on GitHub is the one that will be  *)
(* cloned, except where ".git" stands inside its name: then another one    *)
(* was asked about, for replace(".git", "") takes it out anywhere.         *)
(***************************************************************************)
GitInside(name) == \E i \in 1..(Len(name) - 1) : name[i] = ".git"

ChecksTheRepoItClones ==
  row # NoRow => (checked[1] = checked[2] <=> ~GitInside(row.url.path[2]))

(***************************************************************************)
(* A container of an older image than the last one stays only while the    *)
(* app says error.  It does stay: when docker ps or docker rm fails after  *)
(* the build, docker run finds its name taken.                             *)
(***************************************************************************)
NoOutdatedContainer ==
  container = NoContainer \/ container.image = image \/ row.status = "error"
================================================================================
