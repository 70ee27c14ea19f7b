# TLA+ models of gitDeploy

gitDeploy clones a GitHub repository, builds a Docker image from it, runs it on
a free host port and routes a subdomain to that port. This directory holds
TLA+ models of the parts of it where requests, failures and restarts meet, the
TLC configurations that check them on small instances, and proofs checked by
TLAPS. Paths such as `api/v1/apps.py:210` are relative to the repository root.

    tlc -config AppDeploys.cfg MCAppLifecycle
    tlc -config AccountsSerial.cfg MCAccounts
    tlapm AppDeployment_proofs.tla

## Inventory

| Component | State | Operations | What is hard | What makes it correct |
|---|---|---|---|---|
| App API `api/v1/apps.py` | `apps` rows, per-request session | create, deploy, delete, list | a deployment takes minutes, with an await at every step; nothing serialises two requests for one app; a failure at any step; restarts | "running" is true; errors are recorded; a deleted app leaves nothing; what runs is what the row says |
| Admin API `api/v1/admin.py` | the same rows, users | patch and delete an app, delete a user | patches meet deployments; the deletion of a user commits once, after all resources are gone | no lost update; no app without its user |
| Apps table `app/models/app_model.py`, `app/database.py`, `migrations/` | rows, UNIQUE (internal_port) or not, id sequence | UPDATE of dirty columns, INSERT, DELETE | stale sessions, unusable sessions after a failed flush, two schemas | ports exclusive, no lost update |
| Docker service `app/services/docker.py` | containers, images, bound ports | exists, build, run, rm, rmi | `docker ps` failures look like "no container"; `rm` failures are only logged | a bound port is covered by a row |
| Docker command builder `app/services/docker_command_builder.py` | lists of arguments | fluent setters, compile | calls in any order, repeated; docker reads the result by position | the command says what the calls asked for |
| Git service `app/services/deploy.py` | one working tree per app, its `.env` | URL check, clone or pull, checkout | half-removed trees, two deployments sharing a tree, a repository checked under one name and cloned under another | what is built is the branch in the row |
| Port manager `app/services/port_manager.py` | none of its own | query, then probe port after port | the window between query, probe and commit | an allocated port stays free |
| Nginx manager `app/services/nginx_manager.py` | one conf per app | write, remove | failures are only logged; a crash before the write | the route follows the running app |
| Secret sidecar `sidecar/` | encrypted records, key in memory, key in the environment | store, get, delete, rotate-key, list | rotation overlaps everything; key and records change separately | records stay under one key and the key in memory with them; no secret lost or mixed up |
| OTP and Redis `app/services/otp_manager.py`, `redis_service.py` | codes and cooldowns with TTL | send, resend, verify | check-then-set on the cooldown; every Redis failure is silent; Redis absent | who must wait has a code that works |
| Accounts `api/v1/auth.py` | users, reset tokens, JWTs | register, verify, login, refresh, logout, change and reset of the password | overlapping registrations and resets, tokens that outlive accounts | an address has one account; only verified accounts sign in; a link works once |
| Request schemas, errors `app/schemas/`, `app/Errors/` | none | validation, reply | schema and table disagree about limits | which 5xx is the client's fault is known |
| Mail, metrics, config, scripts | none or external | | I/O | |

How they interact: the API handlers are coroutines of one event loop; each
await (commit, query, Redis call, subprocess in a thread) lets others run. They
share the tables (a session each), Redis, the Docker daemon, the directories
under `BASE_APPS_DIR`, the confs and the host's ports. The sidecar is a second
process with its own event loop and SQLite file.

## Modules

| Module | Models | State |
|---|---|---|
| `AppsTable` | table and SQLAlchemy session (`expire_on_commit=False`, `autoflush=False`): a flush writes only dirty columns, is rejected if the row is gone or the port belongs to another row | `rows`, `lastId` |
| `DockerEngine` | the daemon as the code uses it: one image and one container name per app, ids, bound ports | `containers`, `images` |
| `AppLifecycle` | create, deploy, delete (user and admin), admin patch, failures, restarts; EXTENDS the two above | `trees`, `confs`, `reqs`, `faults` |
| `AppContract` | abstract: the state diagram of `docs/UML.md:217-281`, deletion included, with the lease and the container behind it; "down" is what the diagram lacks, an app that says running after a deletion has failed half-way | `state`, `lease`, `up` |
| `AppCorrectness` | properties of `AppLifecycle`; the refinement mapping to `AppContract` | |
| `UserDeletion` | `admin_delete_user` beside every request of `AppLifecycle`, which it composes with | `users`, `owner`, `purge` |
| `AppRequests` | the values of the requests to create and deploy: schemas, repository check, overrides, `.env`, what the container runs with, status of the reply | `row`, `dir`, `image`, `container`, `reply`, `checked` |
| `DockerCommand` | the two command builders, and how docker reads a command | `kind`, `parts`, `calls` |
| `SecretStore` | the sidecar: four handlers, operator, restarts | `store`, `key`, `envKey`, `reqs`, `faults`, `latest`, `tableKey` |
| `SecretCorrectness` | its properties | |
| `RedisService` | get, set with TTL, delete; no call raises | `redis`, `connected` |
| `Accounts` | the handlers of `auth.py` and the OTP manager, on top of `RedisService` | `users`, `inbox`, `links`, `unsent`, `cookies`, `access`, `reqs`, `used` |
| `AccountCorrectness` | its properties | |
| `MCAppLifecycle`, `MCUserDeletion`, `MCAppRequests`, `MCSecretStore`, `MCAccounts` | symmetry, small values | |
| `AppLifecycle_proofs`, `AppContract_proofs`, `AppDeployment_proofs`, `UserDeletion_proofs`, `SecretStore_proofs`, `Accounts_proofs`, `AppRequests_proofs`, `DockerCommand_proofs` | theorems | |

### Correspondence

**Apps.** `reqs[r]` is a handler in flight: `pc` is the await it is at, `base`
the row as its session last loaded or wrote it, `mem` the row in its memory
(assignments to the ORM object change `mem`; `commit()` is `Flush`).
`deploy_app` is, in order: `StartDeploy` (row, overrides, mkdir) —
`ForceRebuild` — `Fetch` — `Commit` PREPARED — `Checkout` — `Build` —
`FindContainer` / `RmContainer` / `Commit` of NULL — `Snapshot` / `Probe` /
`Commit` of the port — `FindImage` — `FindContainer` / `RmContainer` —
`StartContainer` — `Commit` RUNNING — `WriteConf`. `StepRaises` is the `except`
branch, `RecordError` its commit, `CommitFails` followed by `RollbackPending` a
failed commit (the handler's own commit then raises). The two deletions share
their steps and differ in the order of the last ones. A failure that leaves no
choice to the environment (row gone, port taken, no image, tree without clone)
is a guard; one that comes from outside is a `Fault` of a kind named in
`FaultKinds`.

**Users.** `purge` is the one `admin_delete_user` in flight: `StartPurge` reads
the user's apps, `PurgeFind` … `PurgeTree` remove what each has outside the
database, `PurgeUser` and `PurgeCommit` are the query of the user and the one
commit of all deletions. `owner[a]` is the `user_id` of the last row with id
`a`, kept after the row for the property about what is left.

**Values.** `AppRequests` takes each request in one step, in the order of the
checks of the handler (`CreateChecks`, `BuildChecks`, `DeployChecks`: the first
check that fails gives the reply). What the request meets outside is a *world*
chosen with it: GitHub's answer, the branches, paths and files of the
repository, a free port, which of the two removals of the old container
(`deploy_app`'s, `docker_run`'s) gets through — `docker ps` and `docker rm`
failing are not errors in the code, docker run on a name in use is one — and
what docker run leaves (`up`, `created`, `refused`). It says nothing about
interleavings, `AppLifecycle` nothing about values; both follow the same lines
of `apps.py`. A repository name is a sequence of pieces, so that
`.replace(".git", "")` can be told from dropping a suffix.

**Docker commands.** An argument is a sequence of words. `Call` is one setter,
`Compile` the concatenation in the builder's order; `Read` is docker's side:
flags up to the first argument that is none, one at a time (`Take`), then image
or context, then the command.

**Secrets.** A ciphertext is the pair of key and plaintext, which is what
Fernet's authentication amounts to. `Select` is the query of a handler, the
following action its commit. An UPDATE and a DELETE go by primary key, an
INSERT takes the largest primary key plus one, as SQLite does without
AUTOINCREMENT. Keys are non-empty and different from each other (`_get_fernet`
pads or cuts other strings to a key). The operator may put any key into the
environment at any time, and the process may die and start again at any time,
between the commit of a rotation and the update of the environment too: the
guard `OneAtATime` is about requests alone. `latest` and `tableKey` are not in
the code: they record what the last successful store or delete left, and under
which key a store or a rotation has last put all records (`NoKey` once a store
with another key in memory has mixed them).

**Accounts.** As for apps, `reqs[r].pc` is the await the handler is at: `r_*`
register, `o_*` `send_otp`, `e_*` the resend endpoint, `v_*` `verify_otp` and
the commit after it, `u_*` change of the password, `f_*` and `x_*` forgotten
and reset password. `redis` maps the keys `otp:`, `otp_cooldown:` and
`pwd_reset:` to their values; `connected` is `_client is not None`. A Redis
call that fails does nothing and answers `Nil`, as `redis_service.py` does with
every exception. The mail goes out inside a step because `smtplib` blocks the
event loop. A bcrypt hash is its password; a JWT is the user id in it, in
`access` or `cookies` until it expires. `used` and `unsent` are not in the
code: they count, up to two, how often a token has changed a password, and
record whether the last mail of a code was refused.

## Runs

Every bound is a constant: `MaxId` (apps), `Ports`, `Cids`, `Requests`,
`MaxFaults`, `MaxPk` (with `Room`: a store starts only when a primary key is
left for it), `MaxUser` (registrations), `MaxCalls`. Two requests are enough for
every pairwise race, two ports for two apps and three with a foreign process;
container ids of containers that
are gone and that no request remembers are used again. Deadlock is checked in
every run but `DockerCommands`, where a builder that has made its calls is
done. Requests are symmetric (no symmetry in `AppUnserialised` and
`AccountsSerial`, which check liveness).

| Run | Question | States |
|---|---|---|
| `AppDeploys` | types; is "running" true of the container; does the deployment implement the contract — two apps deployed at once, from two branches, one failure or restart of any kind? | 1,400,000 |
| `AppFailures` | one app, up to three docker or git failures: is a failed deployment recorded, does the conf follow the port, can a deletion that failed half-way be repeated until nothing is left, and is all of it as the contract says? | 5,600 |
| `AppPorts` | two apps beside a foreign process on a port of the range, one failure or restart, and their user deleted: is a bound port covered by its row, does an allocated port stay free, are leases exclusive, does a deletion leave nothing, has every app a user, is all gone that a deleted user had, and is all of it as the contract says? | 740,000 |
| `AppUnserialised` | deployments, deletions and patches of one app at the same time: does every request return, is no update lost, does no deleted row come back, also when its id is used again? | 320,000 |
| `AppRequestValues` | every field of a request good, bad or left out, in worlds where one thing goes wrong, or the old container cannot be removed: does what runs agree with the row, which 5xx are due to the request, when is the repository checked the one cloned, when does a container of an older image stay? | 32,000 |
| `DockerCommands` | any three calls of a builder, with two values: does docker read the command as what was asked for? | 22,000 |
| `SecretsSerial` | one request at a time, three keys, up to three failed commits and restarts at any moment, any key in the environment: are all records under the key of the last rotation, when does the key in memory leave them, is what was stored kept, does a read return it or say 500, are the secrets of apps kept apart? | 150,000 |
| `SecretsConcurrent` | everything overlaps, a failing commit or a restart: types, never two records of one app | 2,300,000 |
| `AccountsConcurrent` | registrations, verifications, logins, password changes and removals overlap, with a Redis call that fails or a restart with Redis or without: one account each, none verified without a mail, no token of an unverified account, none back from the dead? | 580,000 |
| `AccountsSerial` | one request at a time; two among expired codes and links, failed commits and refused mails: has who must wait a working code unless its mail was refused, does a reset link work once, is who keeps trying verified? | 370,000 |

Why the bounds are enough. A rotation chain needs three keys to tell "the old
key" from "an older one"; three failures are a failed commit, a restart and one
of them again; a half-failed deletion is repeated within three failures. Two
addresses and one name give the collisions that overlapping registrations meet
at the UNIQUE constraints, on the name alone and on both; two codes and two
tokens tell the one stored from the one mailed before, and two failures let a
mail be refused after a code has expired or a commit has failed. In
`AppRequestValues` ports are 0, 1, 1023, 1024, 65535 and 65536, the limits of
schema and table from both sides, and names have ".git" at the end, inside and
in both places; the deployment requests differ in one field or in a pair that
matters together, and the directory, the image and the container that earlier
requests have left behind vary freely. Three calls repeat a flag around another
one, which is all `Override` and the order of the lists depend on.
`AppUnserialised` and `AccountsSerial`, which check liveness, take two to three
minutes, every other run two or less.

`OnePerApp` (no two requests for one app at once), `OneAtATime` (sidecar
requests one after the other) and `OnePerAddress` (a client sends one request
for a mail address at a time) are assumptions on the callers that the code does
not enforce. `AppDeploys`, `AppFailures` and `AppPorts` make the first,
`SecretsSerial` the second, `AccountsSerial` the third; the others make none.
`AppFailures` leaves out the failures after which its properties do not hold
(`fs`, `db`, `conf`, `crash`), `AppPorts` the silent ones (`ps`, `rm`),
`AccountsSerial` `redis` and `crash`; what happens then is below. `SecretsSerial`
leaves out no failure.

Several properties say where the code stops keeping a promise instead of
leaving the case out, and the run contains it:

- `AllUnderTheKey`, `KeyFollowsRecords`, `ReadsLatest`: the documents say that
  the key is switched after success (`docs/CHANGES.md:51`,
  `docs/WORKING.md:343-344`); it is switched before the commit
  (`sidecar/main.py:164-167`). If the commit fails, the records are still under
  the old key and every read answers 500 until a restart with that key in the
  environment. A restart after the commit and before the operator's update
  (`docs/ADMIN_GUIDE.md:402-407`) comes back with the old key
  (`sidecar/main.py:41-54`), and every read answers 500 until one with the new
  key. In both cases the records are whole and under one key, unless a store or
  a rotation is served in between.
- `NoOutdatedContainer`: when `docker ps` or `docker rm` fails in both places,
  docker run finds the name taken and the old container goes on running
  beside the new image, behind status "error".
- `ServerErrorsPass`: ports 1 to 1023 pass the schema and break the CHECK of the
  table: a 500. `docs/FRONTEND_SPEC.md:695` allows 1–65535.
- `ChecksTheRepoItClones`: `.replace(".git", "")` takes the piece out everywhere
  (`app/services/deploy.py:42`), so for a name with ".git" inside another
  repository is asked about (`docs/SRS.md:181`) than the one cloned.
- `RunsAsStored`: `git checkout` of a name that is a path and no branch succeeds
  and switches to nothing, and the row then names what was not built.
- `WaitingHasCode`: the cooldown is set before the mail goes out, so whoever's
  mail was refused has to wait without the code that is stored.

### Where documents and code disagree

Two runs end with a counterexample.

| Run | The document | What the code does |
|---|---|---|
| `AppErrorRace` | failures at any stage set `status=error` (`docs/WORKING.md:9`, `docs/SRS.md:220`) | a port collision breaks the session; the handler's commit (`api/v1/apps.py:225`) raises and "prepared" stays |
| `AppRequestEnv` | a deployment may *override* the variables (`docs/FRONTEND_SPEC.md:373`, `docs/SRS.md:207`) | the container gets those of the request alone (`api/v1/apps.py:214`); the stored ones never reach it |

The properties of the other runs hold under the constants in their
configurations. A changed constant makes TLC show what the code does without
the assumption:

| Change | Fails | The document | What the code does |
|---|---|---|---|
| `AppPorts`: `UniquePort = FALSE` | `AllocatedPortStaysFree`, `NoSharedLease` | collision-free allocation (`docs/CHANGES.md:126`) | migration 0001 (line 47) has no UNIQUE on the port, so two deployments allocate the same one |
| `AppPorts`: `ProbeSeesHost = FALSE` | `AllocatedPortStaysFree` | | in a container with a network of its own (`docker-compose.yml`) the probe does not see the host's ports |
| `AppPorts`: `ForeignKeys = FALSE` | `AppsHaveOwners` | | SQLite does not enforce `user_id`: an app created during the deletion of its user stays without one |
| `AppFailures`: `OnePerApp = FALSE` | `DeletedLeavesNothing` | deletion removes everything (`docs/UML.md:275-278`) | a deployment under way puts things back before the row goes |
| `AppFailures`: `FaultKinds` with "crash" | `RunningIsRouted`, and `ErrorRecorded`, which no code can keep then | every successful deployment writes its conf (`nginx_manager.py:4-5`) | RUNNING is committed first (`apps.py:220`); a crash in between loses the conf |
| `AppFailures`: `FaultKinds = {"fs"}` | `ErrorRecorded` | as for `AppErrorRace` | the `rmtree` of force_rebuild stands before the `try` (`apps.py:185-187`) |
| `SecretsSerial`: `OneAtATime = FALSE` | `AllUnderTheKey`, `KeyFollowsRecords`, `LatestIsStored`, `ReadsLatest` | other requests are not affected by a rotation (`docs/SRS.md:327`) | a store encrypts before its query (`sidecar/main.py:88`) and stays under the old key, or is overwritten by what the rotation had read |
| `SecretsConcurrent`: `INVARIANT OwnSecret` added | `OwnSecret` | per-app secrets (`docs/CHANGES.md:45`) | a store updates by the primary key it has read (`sidecar/main.py:94`), which a delete and another store may have given to another app meanwhile; without deletions it holds (`SecretsApart`) |
| `AccountsSerial`: `OnePerAddress = FALSE` and two requests, or "redis", or "crash" | `ResetOnce`, `WaitingHasCode` | single-use reset links (`README.md:24`), resend once in 60 s (`README.md:196`) | get, commit and delete of the token are three steps (`auth.py:210-221`), as are the check and the set of the cooldown |
| `AccountsConcurrent`: `ReuseIds = TRUE` | `SignedInVerified`, `VerifiedByMail`, and `NoAccountComesBack`, which is stated by id | | SQLite hands the id of a removed account out again, and a token, or a verification under way, names the new one |
| `DockerCommands`: `Words` with "-d" | `CompiledAsAsked` | | the builder passes words on as they are; an image or an argument that is a flag of docker is read as one |

Met while modelling, without a property: with Redis off no account is ever
verified, though `redis_service.py:2` calls Redis optional (`README.md:137` says
it is required).
`register` answers 500 when address and name match two different accounts
(`auth.py:43`, `scalar_one_or_none`). `register` stores addresses in lower
case; login and the other handlers compare them as typed. `admin_delete_user`
does not remove log directories.

### Fairness

`AppLifecycle.FairSpec` has weak fairness of `Step(r)` for every request: the
event loop resumes every coroutine whose await is over, and every await ends
(git, docker and database calls are bounded by their own processes; a command
that hangs forever is outside the model). Nothing is assumed about clients or
about which failures happen. `RequestsReturn` is checked under it.

`Accounts.FairSpec` has the same for its handlers and weak fairness of
`CooldownExpires`: Redis enforces every TTL. `GetsVerified` is about a user who
keeps trying, so it adds strong fairness of `StartResend` and of `StartVerify`
with the code last mailed: whoever may ask again and again does, and enters
what came. That is an assumption on the user, not on the code; failures are
bounded by `MaxFaults`, because nobody is verified whose every commit fails.

## Proofs

For any values of the constants that satisfy the named assumptions of the
modules and the condition given:

| Module | Theorem | Establishes | Condition |
|---|---|---|---|
| `AppLifecycle_proofs` | `TypeCorrect` | `TypeOK` | |
| | `LeasesExclusive` | `NoSharedLease` | `UniquePort` |
| | `DeletedStaysDeleted`, `UpdatesKept` | `NoResurrection`, `NoLostUpdate` | |
| `AppContract_proofs` | `ContractTypes`, `ContractPromise` | the contract's types; a running app is up on its own lease, leases and ports are exclusive | |
| `AppDeployment_proofs` | `RunningDeployed` | `RunningIsDeployed` | `OnePerApp`, creations and deployments |
| | `LeaseCovers` | `LeaseCoversContainer` | `OnePerApp`, no "ps", no "rm" |
| | `AllocatedPortFree` | `AllocatedPortStaysFree` | the same, `UniquePort`, `ProbeSeesHost` |
| | `RunningRouted` | `RunningIsRouted` | `OnePerApp`, `NginxEnabled`, no patches, no "conf", no "crash"; no "fs" and "db" unless nothing is deleted |
| | `NothingLeft` | `DeletedLeavesNothing` | `OnePerApp` |
| | `FailuresRecorded` | `ErrorRecorded` | `OnePerApp`, no "db", "fs", "crash"; one app if `UniquePort` |
| | `DeploysKeepContract` | `ImplementsContract` | `OnePerApp`, `UniquePort`, no patches |
| | `PromiseKept` | `Promise` of `AppContract`, read in rows and containers | the same |
| `UserDeletion_proofs` | `OwnersStay` | `AppsHaveOwners` | `ForeignKeys` |
| | `PurgeLeavesNothing` | `DeletedLeavesNothing` of `USpec` | `OnePerApp` |
| | `UserGone` | `UserGoneAppsGone` | `OnePerApp`, `ForeignKeys` |
| | `PurgeLeasesExclusive` | `NoSharedLease` of `USpec` | `OnePerApp`, `UniquePort` |
| | `PurgeLeaseCovers` | `LeaseCoversContainer` of `USpec` | `OnePerApp`, no "ps", no "rm" |
| | `PurgeAllocatedPortFree` | `AllocatedPortStaysFree` of `USpec` | the same, `UniquePort`, `ProbeSeesHost` |
| | `PurgeKeepsContract` | `ImplementsContract` of `USpec` | `OnePerApp`, `UniquePort`, no patches |
| | `PurgeKeepsPromise` | `Promise` of `AppContract`, of `USpec` | the same |
| `SecretStore_proofs` | `TypeCorrect`, `OneRecord` | `TypeOK`, `OneRecordEach` | |
| | `LatestKept` | `LatestIsStored` | `OneAtATime`, or neither deletions nor rotations |
| | `RecordsUnderTheKey`, `KeyStaysWithRecords` | `AllUnderTheKey`, `KeyFollowsRecords` | `OneAtATime` |
| | `ReadsReturnLatest` | `ReadsLatest` | `OneAtATime` |
| | `SecretsApart` | `OwnSecret` | `OneAtATime`, or no deletions |
| `Accounts_proofs` | `TypeCorrect`, `OneAccount` | `TypeOK`, `OneAccountEach` | |
| | `GoneStaysGone`, `SignedIn`, `MailVerifies` | `NoAccountComesBack`, `SignedInVerified`, `VerifiedByMail` | ids not reused |
| | `LinkWorksOnce` | `ResetOnce` | `OnePerAddress`, no "redis", no "crash" |
| | `CodeArrives` | `WaitingHasCode` | the same |
| `AppRequests_proofs` | `TypeCorrect`, `RunningAsStored`, `ContainerIsCurrent` | `TypeOK`, `RunsAsStored`, `NoOutdatedContainer` | |
| | `ServerErrorsAreTheServers` | `ServerErrorsPass` | GitHub can answer "public" |
| | `ClonesWhatItChecked` | `ChecksTheRepoItClones` | |
| `DockerCommand_proofs` | `TypeCorrect`, `CommandsAsAsked` | `TypeOK`, `CompiledAsAsked` | no word a client gives is a flag of docker |

No proof bounds the number of failures, of apps or of requests. The arguments:

- **Types of `AppLifecycle`.** `TypeOK` is inductive because it also says that
  a request under way has an app and a branch to check out; without that,
  `Checkout` could put a missing branch into the tree. The proof has a lemma
  per handler, and one per field of a session the handlers assign.
- **The table.** All a step ever does to it is insert a row, flush a session
  or delete a row (`TableStep`), so its three theorems are proved for three
  operations instead of thirty actions. `NoLostUpdate` also needs that no row
  has an id above `lastId`: an INSERT must not hit a row that exists.
- **Deployments.** `RunningIsDeployed` and its relatives are not inductive:
  what a row says and what docker has are brought together step by step. Under
  `OnePerApp` at most one request works on an app, and an app that nobody works
  on is settled. The invariant says, for each place a handler can be at, what it
  may rely on — that its `base` is the row (nobody else writes it), that the
  tree has its branch once it is checked out, that the image is of that branch
  once it is built, that no container is up before `docker run` — and a proof
  step shows that other requests leave that alone.
- **Refinement.** `DeploysKeepContract` uses the same invariant, with what it
  takes that a container that is up binds a port of the range and that no row
  means no port. A step that works on app `a` changes the contract's variables
  at `a` alone (`MapsTo`), so each step is one of four moves of `a` (`Moves`): of
  its status, its lease, its container, or of all three when its row goes. The
  interesting ones are the commits, where row and contract change together.
  Removing the container of a row that says "running" is a step to "down"; a row
  goes only when `docker rmi -f` has been accepted, and that refuses the image of
  a container that is up, so the contract's deletion is allowed. `PromiseKept`
  instantiates `AppContract_proofs` with the mapping and takes `ContractPromise`
  from it: a running app that no deletion has stopped is up on the port of its
  row, which no other app holds.
- **Deletion of a user.** The handler's apps divide into those done, which are
  clean and stay so because no other request may touch them, and those left.
  With foreign keys the commit removes user and apps together or not at all.
  For ports and for the contract its steps do no more than remove
  (`PurgeOnlyRemoves`): a container while the row stays, or, in the commit, the
  rows of apps that are clean. That commit is one `Delete` of several apps in
  `AppContract`. An app whose row another request has removed meanwhile has no
  container, by `DeletedLeavesNothing`, so removing it changes nothing.
- **Secrets.** `OneRecordEach` holds because `app_id` is UNIQUE
  (`sidecar/models.py:10`). For `AllUnderTheKey` the invariant follows a rotation:
  what it has read is what is stored while nobody else is under way, its
  rewritten rows are all under the new key, and its commit takes all of them
  or none. `KeyFollowsRecords` adds that only a rotation at its commit has a key
  in memory that the records do not have yet. `ReadsLatest` adds what a read
  holds between its query and the decryption. `SecretsApart`
  needs no order of the requests: where nothing is deleted a primary key once
  given to an app stays with it, so a store that updates by the key it read before
  an await still meets its own record. Without deletions and rotations
  `LatestIsStored` holds for the same reason.
- **Accounts.** `SignedInVerified` needs that an id above `lastUser` is in
  nobody's hands, tokens and handlers included. For `MailVerifies` the
  invariant follows the code a handler presents back to the mail: what Redis
  answers is either `Nil`, which no code matches, or was mailed. For
  `ResetOnce` a token is unused, or used and gone from Redis, or in the hands
  of the one handler between commit and delete; with one request per address
  no other handler can have read it meanwhile. For `WaitingHasCode` the handler
  between code, cooldown and mail and a refused mail are the exceptions to
  "stored is mailed".
- **Values.** `RunsAsStored` is inductive with the image and the directory:
  a deployment that fails before the image leaves them of an older request, and
  the row then says "error", as it does when docker run found an old container
  that could not be removed. A reply is that of the first check that fails, which
  exists as the least of a nonempty set of numbers; `ServerErrorsAreTheServers`
  looks at which check can answer 5xx. For `ClonesWhatItChecked` induction over
  the pieces of a name (as a set of numbers closed under successor) shows that
  the two ways of dropping ".git" agree where it is the last piece or none, and
  that the one leaves no ".git" and the other every one inside.
- **Docker commands.** `CompiledAsAsked` is an induction over the calls (each
  setter adds its flag to the one list it owns) and over what docker reads. The
  second is about data: reading is stated as a relation between a command and
  what was read, which composes over concatenation, so that the command is read
  list by list in the order of `compile`; inside a list it is read argument by
  argument, by induction on its length.

Left to TLC: the liveness properties `RequestsReturn` and `GetsVerified`
(fairness is outside what TLAPS proves here), and the properties under the
conditions the table excludes where an instance still satisfies them.

## Not modelled

- Read-only endpoints (lists, health, metrics, the error log), start-up and
  configuration: no state. Nothing in the code writes to the error log table.
- `CommunicationBuilder`, templates and SMTP: a mail is delivered or an error.
- `admin_update_user` and the secondary columns of users: nothing modelled
  depends on them. Ownership checks and the API key check reject a request
  before it changes anything. The schemas of the auth requests check the form
  of strings that are model values here.
- The expiry of JWTs is an action; their encoding is not modelled.
- The text of confs and the nginx reload: `confs` holds the port alone.
- `scripts/generate_nginx_conf.py` and the Cloudflare scripts: run by hand,
  outside the service. The first reads the rows and writes confs; it never
  removes one.
- Git and docker calls are one step each; their retries inside the daemon are
  not seen. `docker_run` binding a port and a foreign process taking the same
  port at that moment are not separated: `HostPorts` is fixed in a run.
- Containers that exit on their own: one that is up stays up until docker is
  told to remove it. `mkdir` failing before the `try` (`apps.py:187`).
- `git checkout` of `-`, and of a local branch left behind by its remote: `git
  pull` updates only the branch that is checked out (`deploy.py:86-117`). In
  `AppLifecycle` and `AppRequests` checking a branch out gives its current tree.
- Two `admin_delete_user` at a time; patches beside a deletion of a user.

## Plan

Done in the order of importance: the life of an app, the sidecar, users,
accounts, values, commands, and their proofs. Left:

1. `ConfSync`: `generate_nginx_conf.py` over the rows, to show which lost confs
   it repairs and which stale ones it keeps.
2. Liveness with failures that cease: a repeated deployment reaches "running",
   a repeated deletion removes the app.
3. Patches in `AppContract`: an administrator may set any status, so the
   contract needs to say what a status set by hand promises.
