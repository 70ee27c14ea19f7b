-------------------------- MODULE UserDeletion_proofs ---------------------------
(***************************************************************************)
(* Theorems about UserDeletion, for any users, apps, requests and          *)
(* failures.  Its steps are those of AppLifecycle, whose lemmas they use,  *)
(* and the steps of admin_delete_user.                                     *)
(***************************************************************************)
EXTENDS UserDeletion, AppDeployment_proofs

--------------------------------------------------------------------------------
(* Type correctness *)

UTypeOK == TypeOK /\ PurgeTypeOK

PurgePcs == {"idle", "find", "rm", "image", "conf", "tree", "commit"}

(***************************************************************************)
(* The state of the handler after a step that only moves it on.            *)
(***************************************************************************)
LEMMA MoveFields ==
  ASSUME PurgeTypeOK, NEW pc \in PurgePcs, Move(pc)
  PROVE  /\ purge'.pc = pc /\ purge'.user = purge.user /\ purge'.app = purge.app
         /\ purge'.apps = purge.apps /\ purge'.left = purge.left
  BY DEF PurgeTypeOK, PurgePcs, Move

LEMMA MoveType ==
  ASSUME PurgeTypeOK, NEW pc \in PurgePcs, Move(pc), UNCHANGED <<users, owner>>
  PROVE  PurgeTypeOK'
  BY DEF PurgeTypeOK, PurgePcs, Move

LEMMA NoPurgeType ==
  ASSUME PurgeTypeOK, purge' = NoPurge, users' \subseteq users, UNCHANGED owner
  PROVE  PurgeTypeOK'
  BY TableAssumption DEF PurgeTypeOK, NoPurge

(***************************************************************************)
(* The steps of UserDeletion that are steps of AppLifecycle.               *)
(***************************************************************************)
AppStep ==
  \/ \E r \in Requests :
       \/ \E u \in Users : CreateFor(r, u)
       \/ Other(r)
       \/ Step(r) /\ UNCHANGED <<users, owner, purge>>
  \/ \E u \in Users : StartPurge(u)
  \/ PurgeUser
  \/ UNCHANGED uvars

LEMMA AppSteps ==
  ASSUME AppStep
  PROVE  [Next]_vars
<1>1. ASSUME NEW r \in Requests, NEW u \in Users, CreateFor(r, u)
      PROVE  Request(r)
  BY <1>1 DEF CreateFor, Request
<1> QED BY <1>1 DEF AppStep, Other, StartPurge, PurgeUser, uvars, Next

LEMMA USteps ==
  ASSUME [UNext]_uvars
  PROVE  \/ AppStep
         \/ PurgeFind \/ PurgeRm \/ PurgeImage \/ PurgeConf \/ PurgeTree
         \/ PurgeCommit \/ PurgeFails \/ UCrash
  BY DEF UNext, Purge, AppStep

LEMMA UTypeInit == UInit => UTypeOK
<1>1. UInit => PurgeTypeOK
  BY TableAssumption DEF UInit, PurgeTypeOK, NoPurge
<1> QED BY <1>1, TypeInit DEF UInit, UTypeOK

LEMMA PurgeTypeStep ==
  ASSUME UTypeOK, [UNext]_uvars
  PROVE  PurgeTypeOK'
<1> USE DEF UTypeOK
<1>1. CASE AppStep
  <2>1. ASSUME NEW r \in Requests, NEW u \in Users, CreateFor(r, u)
        PROVE  PurgeTypeOK'
    BY <2>1 DEF CreateFor, PurgeTypeOK
  <2>2. ASSUME NEW u \in Users, StartPurge(u)
        PROVE  PurgeTypeOK'
    BY <2>2, TableAssumption DEF StartPurge, AppsOf, NoPurge, PurgeTypeOK
  <2>3. CASE PurgeUser
    BY <2>3, MoveType, NoPurgeType DEF PurgeUser, PurgePcs
  <2>4. ASSUME UNCHANGED <<users, owner, purge>>
        PROVE  PurgeTypeOK'
    BY <2>4 DEF PurgeTypeOK
  <2> QED BY <1>1, <2>1, <2>2, <2>3, <2>4 DEF AppStep, Other, uvars
<1>2. CASE PurgeFind
  <2>1. PICK a \in purge.left :
          \/ purge' = [purge EXCEPT !.pc = "rm", !.app = a, !.cid = containers[a].id]
          \/ purge' = [purge EXCEPT !.pc = "image", !.app = a]
    BY <1>2 DEF PurgeFind
  <2>2. a \in AppIds /\ a \in 0..MaxId
    BY TableAssumption DEF PurgeTypeOK, AppIds
  <2>3. containers[a].id \in Cids \cup {NoCid}
    BY <2>2 DEF TypeOK, DockerTypeOK, Container
  <2> QED BY <1>2, <2>1, <2>2, <2>3 DEF PurgeFind, PurgeTypeOK
<1>3. CASE PurgeRm \/ PurgeImage \/ PurgeConf
  BY <1>3, MoveType DEF PurgeRm, PurgeImage, PurgeConf, PurgePcs
<1>4. CASE PurgeTree
  <2>1. purge' = [purge EXCEPT !.pc = "find", !.left = @ \ {purge.app}, !.app = 0, !.cid = NoCid]
    BY <1>4 DEF PurgeTree
  <2>2. purge.left \ {purge.app} \subseteq AppIds /\ 0 \in 0..MaxId
    BY TableAssumption DEF PurgeTypeOK
  <2> QED BY <1>4, <2>1, <2>2 DEF PurgeTree, PurgeTypeOK
<1>5. CASE PurgeCommit \/ PurgeFails \/ UCrash
  BY <1>5, NoPurgeType DEF PurgeCommit, PurgeFails, UCrash
<1> QED BY <1>1, <1>2, <1>3, <1>4, <1>5, USteps

LEMMA AppTypeStep ==
  ASSUME UTypeOK, [UNext]_uvars
  PROVE  TypeOK'
<1> USE DEF UTypeOK
<1>0. purge.apps \subseteq AppIds /\ purge.left \subseteq AppIds
  BY DEF PurgeTypeOK
<1>1. CASE AppStep
  BY <1>1, AppSteps, TypeStep
<1>2. CASE PurgeFind
  BY <1>2, FaultType
  DEF PurgeFind, TypeOK, TableTypeOK, DockerTypeOK, Exists, table, docker
<1>3. CASE PurgeRm
  <2>1. faults' \in 0..MaxFaults
    BY <1>3, FaultType DEF PurgeRm
  <2>2. NoContainer \in Container
    BY TableAssumption DEF NoContainer, Container
  <2>3. DockerTypeOK'
    BY <1>3, <2>2 DEF PurgeRm, RemoveContainer, TypeOK, DockerTypeOK, docker
  <2> QED BY <1>3, <2>1, <2>3 DEF PurgeRm, TypeOK, TableTypeOK, Exists, table
<1>4. CASE PurgeImage
  BY <1>4
  DEF PurgeImage, RemoveImage, TypeOK, TableTypeOK, DockerTypeOK, Exists, table
<1>5. CASE PurgeConf
  BY <1>5, FaultType
  DEF PurgeConf, SetConf, TypeOK, TableTypeOK, DockerTypeOK, Exists, table, docker
<1>6. CASE PurgeTree
  BY <1>6 DEF PurgeTree, TypeOK, TableTypeOK, DockerTypeOK, Exists, Trees, table, docker
<1>7. CASE PurgeCommit
  BY <1>7 DEF PurgeCommit, TypeOK, TableTypeOK, DockerTypeOK, Exists, NoRow, Row, docker
<1>8. CASE PurgeFails
  <2>1. faults' \in 0..MaxFaults
    BY <1>8, FaultType DEF PurgeFails
  <2>2. trees' \in [AppIds -> Trees]
    BY <1>8 DEF PurgeFails, TypeOK, Trees
  <2> QED BY <1>8, <2>1, <2>2 DEF PurgeFails, TypeOK, TableTypeOK, DockerTypeOK, Exists, table, docker
<1>9. CASE UCrash
  BY <1>9, IdleType, FaultType
  DEF UCrash, Idle, TypeOK, TableTypeOK, DockerTypeOK, Exists, table, docker
<1> QED BY <1>1, <1>2, <1>3, <1>4, <1>5, <1>6, <1>7, <1>8, <1>9, USteps

(***************************************************************************)
(* The variables of UserDeletion have their types.                         *)
(***************************************************************************)
LEMMA UTypeHolds == USpec => []UTypeOK
<1>1. UTypeOK /\ [UNext]_uvars => UTypeOK'
  BY PurgeTypeStep, AppTypeStep DEF UTypeOK
<1> QED BY <1>1, UTypeInit, PTL DEF USpec

--------------------------------------------------------------------------------
(* Apps have owners *)

(***************************************************************************)
(* A step of a request creates no row.                                     *)
(***************************************************************************)
LEMMA StepCreatesNone ==
  ASSUME TypeOK, NEW r \in Requests, Step(r), NEW a \in AppIds, Exists(a)'
  PROVE  Exists(a)
<1>1. CASE UNCHANGED table
  BY <1>1 DEF table, Exists
<1>2. CASE Flushes(r)
  BY <1>2, SessionTyped DEF Flushes, Flush, Rejected, Updated, Exists, TypeOK, TableTypeOK
<1>3. CASE Deletes(r)
  BY <1>3, SessionTyped DEF Deletes, DeleteRow, NoRow, Exists, TypeOK, TableTypeOK
<1> QED BY <1>1, <1>2, <1>3, StepTable

(***************************************************************************)
(* The database's foreign keys keep every app with a user, however the     *)
(* deletion of a user overlaps with the creation of apps: the user's own   *)
(* app that came after the handler's query makes its commit fail.          *)
(***************************************************************************)
THEOREM OwnersStay ==
  ASSUME ForeignKeys
  PROVE  USpec => []AppsHaveOwners
<1>1. UInit => AppsHaveOwners
  BY DEF UInit, Init, TableInit, NoRow, Exists, AppsHaveOwners
<1>2. UTypeOK /\ AppsHaveOwners /\ [UNext]_uvars => AppsHaveOwners'
  <2> SUFFICES ASSUME UTypeOK, AppsHaveOwners, [UNext]_uvars
               PROVE  AppsHaveOwners'
    OBVIOUS
  <2>1. ASSUME UNCHANGED <<rows, users, owner>>
        PROVE  AppsHaveOwners'
    BY <2>1 DEF AppsHaveOwners, Exists
  <2>2. ASSUME NEW r \in Requests, NEW u \in Users, CreateFor(r, u)
        PROVE  AppsHaveOwners'
    BY <2>2 DEF CreateFor, CreateApp, Insert, AppsHaveOwners, Exists, UTypeOK, PurgeTypeOK,
                TypeOK, TableTypeOK
  <2>3. ASSUME NEW r \in Requests, Step(r), UNCHANGED <<users, owner>>
        PROVE  AppsHaveOwners'
    BY <2>3, StepCreatesNone DEF UTypeOK, AppsHaveOwners
  <2>4. CASE PurgeCommit
    <3>1. AppsOf(purge.user) \subseteq purge.apps
      BY <2>4 DEF PurgeCommit, Orphans
    <3>2. \A a \in AppIds : Exists(a)' => Exists(a) /\ a \notin purge.apps
      BY <2>4 DEF PurgeCommit, Exists, NoRow
    <3> QED BY <2>4, <3>1, <3>2 DEF PurgeCommit, AppsOf, AppsHaveOwners
  <2>5. CASE \/ PurgeFind \/ PurgeRm \/ PurgeImage \/ PurgeConf \/ PurgeTree \/ PurgeFails
             \/ UCrash
    BY <2>1, <2>5
    DEF PurgeFind, PurgeRm, PurgeImage, PurgeConf, PurgeTree, PurgeFails, UCrash, table
  <2>6. CASE AppStep
    BY <2>1, <2>2, <2>3, <2>6 DEF AppStep, Other, StartPurge, PurgeUser, uvars, vars
  <2> QED BY <2>4, <2>5, <2>6, USteps
<1> QED BY <1>1, <1>2, UTypeHolds, PTL DEF USpec

--------------------------------------------------------------------------------
(* What the deletion of a user knows *)

\* nothing of app a is left but its row
Tidy(a) ==
  /\ ~containers[a].up
  /\ images[a] = NoBranch
  /\ trees[a] = "absent"
  /\ "conf" \notin FaultKinds => confs[a] = NoPort

\* it has the user's apps to itself, and those it has done with stay tidy
PurgeInv ==
  /\ purge.left \subseteq purge.apps
  /\ \A r \in Requests : reqs[r].pc # "idle" => reqs[r].app \notin purge.apps
  /\ \A a \in purge.apps \ purge.left : Tidy(a)
  /\ purge.pc \in {"rm", "image", "conf", "tree"} => purge.app \in purge.left
  /\ purge.pc \in {"conf", "tree"} => images[purge.app] = NoBranch /\ ~containers[purge.app].up
  /\ purge.pc = "tree" /\ "conf" \notin FaultKinds => confs[purge.app] = NoPort
  /\ purge.pc = "commit" => purge.left = {}

UInv == Inv /\ DeletedLeavesNothing /\ PurgeInv

(***************************************************************************)
(* A step of the deletion on the outside of the app at hand: the requests  *)
(* in flight work on other apps.                                           *)
(***************************************************************************)
PurgeReach ==
  /\ purge.app \in AppIds
  /\ UNCHANGED <<table, reqs>>
  /\ \A a \in AppIds \ {purge.app} :
       /\ containers'[a] = containers[a]
       /\ images'[a] = images[a]
       /\ trees'[a] = trees[a]
       /\ confs'[a] = confs[a]

LEMMA ReachInv ==
  ASSUME UTypeOK, UInv, purge.app \in purge.left, PurgeReach, Imaged', Unnamed',
         NEW a, a = purge.app, Tidy(a) => Tidy(a)'
  PROVE  Inv' /\ DeletedLeavesNothing'
<1>1. IdsOK' /\ Alone'
  BY DEF UInv, Inv, PurgeReach, IdsOK, Exists, Alone, table
<1>2. ASSUME NEW r \in Requests
      PROVE  Mine(reqs[r])'
  <2>1. Mine(reqs[r]) /\ reqs'[r] = reqs[r]
    BY DEF UInv, Inv, PurgeReach
  <2>2. reqs[r].pc # "idle" => reqs[r].app \in AppIds \ {purge.app}
    BY <2>1 DEF UInv, PurgeInv, Mine, Fresh
  <2> QED
    BY <2>1, <2>2
    DEF PurgeReach, table, Mine, Fresh, Exists, Operates, Deploying, Removed, Deleting
<1>3. ASSUME NEW b \in AppIds, ~Exists(b)'
      PROVE  Tidy(b)'
  <2>1. Tidy(b)
    BY <1>3 DEF UInv, DeletedLeavesNothing, Tidy, PurgeReach, Exists, table
  <2> QED BY <2>1 DEF PurgeReach, Tidy
<1> QED BY <1>1, <1>2, <1>3 DEF Inv, DeletedLeavesNothing, Tidy

(***************************************************************************)
(* What the deletion knows after it has worked on the app at hand.         *)
(***************************************************************************)
LEMMA ReachPurge ==
  ASSUME UTypeOK, UInv, purge.app \in purge.left, PurgeReach,
         purge'.apps = purge.apps, purge'.left = purge.left
  PROVE  /\ purge'.left \subseteq purge'.apps
         /\ \A r \in Requests : reqs'[r].pc # "idle" => reqs'[r].app \notin purge'.apps
         /\ \A a \in purge'.apps \ purge'.left : Tidy(a)'
  BY DEF UTypeOK, PurgeTypeOK, UInv, PurgeInv, PurgeReach, Tidy

LEMMA IdlePurge ==
  ASSUME purge' = NoPurge
  PROVE  PurgeInv'
  BY DEF PurgeInv, NoPurge

--------------------------------------------------------------------------------
(* The steps of the deletion *)

LEMMA FindKeeps ==
  ASSUME UTypeOK, UInv, PurgeFind
  PROVE  UInv'
<1>1. PICK a \in purge.left :
        \/ purge' = [purge EXCEPT !.pc = "rm", !.app = a, !.cid = containers[a].id]
        \/ purge' = [purge EXCEPT !.pc = "image", !.app = a]
  BY DEF PurgeFind
<1>2. /\ purge'.apps = purge.apps /\ purge'.left = purge.left
      /\ purge'.pc \in {"rm", "image"} /\ purge'.app = a
  BY <1>1 DEF UTypeOK, PurgeTypeOK
<1>3. UNCHANGED <<rows, lastId, containers, images, trees, confs, reqs>>
  BY DEF PurgeFind, table, docker
<1>4. PurgeInv'
  BY <1>2, <1>3 DEF UInv, PurgeInv, Tidy
<1>5. Inv' /\ DeletedLeavesNothing'
  BY <1>3
  DEF UInv, Inv, DeletedLeavesNothing, IdsOK, Exists, Alone, Imaged, Unnamed, Mine, Fresh,
      Operates, Deploying, Removed, Deleting
<1> QED BY <1>4, <1>5 DEF UInv

LEMMA RmKeeps ==
  ASSUME UTypeOK, UInv, PurgeRm
  PROVE  UInv'
<1>0. PICK a : a = purge.app
  OBVIOUS
<1>1. a \in purge.left /\ a \in AppIds
  BY <1>0 DEF PurgeRm, At, UInv, PurgeInv, UTypeOK, PurgeTypeOK
<1>2. /\ \/ UNCHANGED containers
         \/ containers' = [containers EXCEPT ![a] = NoContainer]
      /\ UNCHANGED <<rows, lastId, images, trees, confs, reqs>>
  BY <1>0 DEF PurgeRm, RemoveContainer, table, docker
<1>3. PurgeReach
  BY <1>0, <1>1, <1>2 DEF PurgeReach, table, UTypeOK, TypeOK, DockerTypeOK
<1>4. Imaged' /\ Unnamed' /\ (Tidy(a) => Tidy(a)')
  BY <1>0, <1>1, <1>2 DEF UInv, Inv, Imaged, Unnamed, Tidy, UTypeOK, TypeOK, DockerTypeOK, NoContainer
<1>5. /\ purge'.apps = purge.apps /\ purge'.left = purge.left
      /\ purge'.pc = "image" /\ purge'.app = a
  BY <1>0, MoveFields DEF PurgeRm, PurgePcs, UTypeOK
<1>6. PurgeInv'
  BY <1>0, <1>1, <1>3, <1>5, ReachPurge DEF PurgeInv
<1> QED BY <1>0, <1>1, <1>3, <1>4, <1>6, ReachInv DEF UInv

LEMMA ImageKeeps ==
  ASSUME UTypeOK, UInv, PurgeImage
  PROVE  UInv'
<1>0. PICK a : a = purge.app
  OBVIOUS
<1>1. a \in purge.left /\ a \in AppIds
  BY <1>0 DEF PurgeImage, At, UInv, PurgeInv, UTypeOK, PurgeTypeOK
<1>2. /\ images' = [images EXCEPT ![a] = NoBranch]
      /\ UNCHANGED <<rows, lastId, containers, trees, confs, reqs>>
  BY <1>0 DEF PurgeImage, RemoveImage, table
<1>3. images'[a] = NoBranch /\ ~containers'[a].up
  BY <1>0, <1>1, <1>2
  DEF PurgeImage, RemoveImage, ImageInUse, UInv, Inv, Imaged, UTypeOK, TypeOK, DockerTypeOK
<1>4. PurgeReach
  BY <1>0, <1>1, <1>2 DEF PurgeReach, table, UTypeOK, TypeOK, DockerTypeOK
<1>5. Imaged' /\ Unnamed' /\ (Tidy(a) => Tidy(a)')
  BY <1>0, <1>1, <1>2, <1>3, <1>4 DEF UInv, Inv, Imaged, Unnamed, Tidy, PurgeReach
<1>6. /\ purge'.apps = purge.apps /\ purge'.left = purge.left
      /\ purge'.pc = "conf" /\ purge'.app = a
  BY <1>0, MoveFields DEF PurgeImage, PurgePcs, UTypeOK
<1>7. PurgeInv'
  BY <1>0, <1>1, <1>3, <1>4, <1>6, ReachPurge DEF PurgeInv
<1> QED BY <1>0, <1>1, <1>4, <1>5, <1>7, ReachInv DEF UInv

LEMMA ConfKeeps ==
  ASSUME UTypeOK, UInv, PurgeConf
  PROVE  UInv'
<1>0. PICK a : a = purge.app
  OBVIOUS
<1>1. /\ a \in purge.left /\ a \in AppIds
      /\ images[a] = NoBranch /\ ~containers[a].up
  BY <1>0 DEF PurgeConf, At, UInv, PurgeInv, UTypeOK, PurgeTypeOK
<1>2. UNCHANGED <<rows, lastId, containers, images, trees, reqs>>
  BY <1>0 DEF PurgeConf, table, docker
<1>3. /\ \/ UNCHANGED confs
         \/ NginxEnabled /\ confs' = [confs EXCEPT ![a] = NoPort]
      /\ "conf" \notin FaultKinds => confs'[a] = NoPort
  BY <1>0, <1>1 DEF PurgeConf, SetConf, Fault, UInv, Inv, Unnamed, UTypeOK, TypeOK
<1>4. PurgeReach
  BY <1>0, <1>1, <1>2, <1>3 DEF PurgeReach, table, UTypeOK, TypeOK
<1>5. Imaged' /\ Unnamed' /\ (Tidy(a) => Tidy(a)')
  BY <1>0, <1>1, <1>2, <1>3 DEF UInv, Inv, Imaged, Unnamed, Tidy
<1>6. /\ purge'.apps = purge.apps /\ purge'.left = purge.left
      /\ purge'.pc = "tree" /\ purge'.app = a
  BY <1>0, MoveFields DEF PurgeConf, PurgePcs, UTypeOK
<1>7. PurgeInv'
  BY <1>0, <1>1, <1>2, <1>3, <1>4, <1>6, ReachPurge DEF PurgeInv
<1> QED BY <1>0, <1>1, <1>4, <1>5, <1>7, ReachInv DEF UInv

LEMMA TreeKeeps ==
  ASSUME UTypeOK, UInv, PurgeTree
  PROVE  UInv'
<1>0. PICK a : a = purge.app
  OBVIOUS
<1>1. /\ a \in purge.left /\ a \in AppIds
      /\ images[a] = NoBranch /\ ~containers[a].up
      /\ "conf" \notin FaultKinds => confs[a] = NoPort
  BY <1>0 DEF PurgeTree, At, UInv, PurgeInv, UTypeOK, PurgeTypeOK
<1>2. /\ trees' = [trees EXCEPT ![a] = "absent"]
      /\ UNCHANGED <<rows, lastId, containers, images, confs, reqs>>
  BY <1>0 DEF PurgeTree, table, docker
<1>3. PurgeReach
  BY <1>0, <1>1, <1>2 DEF PurgeReach, table, UTypeOK, TypeOK
<1>4. Tidy(a)'
  BY <1>0, <1>1, <1>2 DEF Tidy, UTypeOK, TypeOK
<1>5. Imaged' /\ Unnamed'
  BY <1>2 DEF UInv, Inv, Imaged, Unnamed
<1>6. purge'.apps = purge.apps /\ purge'.left = purge.left \ {a} /\ purge'.pc = "find"
  BY <1>0 DEF PurgeTree, UTypeOK, PurgeTypeOK
<1>7. PurgeInv'
  <2>1. \A b \in purge'.apps \ purge'.left : Tidy(b)'
    <3> SUFFICES ASSUME NEW b \in purge'.apps \ purge'.left, b # a
                 PROVE  Tidy(b)'
      BY <1>4
    <3>1. b \in AppIds \ {a} /\ Tidy(b)
      BY <1>6 DEF UInv, PurgeInv, UTypeOK, PurgeTypeOK
    <3> QED BY <1>0, <1>3, <3>1 DEF PurgeReach, Tidy
  <2> QED BY <1>2, <1>6, <2>1 DEF UInv, PurgeInv
<1> QED BY <1>0, <1>1, <1>3, <1>4, <1>5, <1>7, ReachInv DEF UInv

LEMMA CommitKeeps ==
  ASSUME UTypeOK, UInv, PurgeCommit
  PROVE  UInv'
<1>1. /\ \A a \in AppIds : rows'[a] = IF a \in purge.apps THEN NoRow ELSE rows[a]
      /\ UNCHANGED <<lastId, containers, images, trees, confs, reqs>>
  BY DEF PurgeCommit, docker
<1>2. PurgeInv'
  BY IdlePurge DEF PurgeCommit
<1>3. \A a \in purge.apps : Tidy(a)
  BY DEF PurgeCommit, At, UInv, PurgeInv
<1>4. DeletedLeavesNothing'
  BY <1>1, <1>3 DEF UInv, DeletedLeavesNothing, Exists, Tidy
<1>5. IdsOK'
  BY <1>1 DEF UInv, Inv, IdsOK, Exists, NoRow
<1>6. Alone' /\ Imaged' /\ Unnamed'
  BY <1>1 DEF UInv, Inv, Alone, Imaged, Unnamed
<1>7. ASSUME NEW r \in Requests
      PROVE  Mine(reqs[r])'
  <2>1. Mine(reqs[r])
    BY DEF UInv, Inv
  <2>2. reqs[r].pc # "idle" => rows'[reqs[r].app] = rows[reqs[r].app]
    BY <1>1, <2>1 DEF UInv, PurgeInv, Mine, Fresh
  <2> QED
    BY <1>1, <2>1, <2>2 DEF Mine, Fresh, Exists, Operates, Deploying, Removed, Deleting
<1> QED BY <1>2, <1>4, <1>5, <1>6, <1>7 DEF UInv, Inv

LEMMA FailKeeps ==
  ASSUME UTypeOK, UInv, PurgeFails
  PROVE  UInv'
<1>0. PICK a : a = purge.app
  OBVIOUS
<1>1. UNCHANGED <<rows, lastId, containers, images, confs, reqs>>
  BY DEF PurgeFails, table, docker
<1>2. PurgeInv'
  BY IdlePurge DEF PurgeFails
<1>3. Imaged' /\ Unnamed'
  BY <1>1 DEF UInv, Inv, Imaged, Unnamed
<1>4. CASE UNCHANGED trees
  BY <1>1, <1>2, <1>4
  DEF UInv, Inv, DeletedLeavesNothing, IdsOK, Exists, Alone, Imaged, Unnamed, Mine, Fresh,
      Operates, Deploying, Removed, Deleting
<1>5. CASE At("tree") /\ trees[a] # "absent" /\ \E t : trees' = [trees EXCEPT ![a] = t]
  <2>1. a \in purge.left /\ a \in AppIds
    BY <1>0, <1>5 DEF At, UInv, PurgeInv, UTypeOK, PurgeTypeOK
  <2>2. PurgeReach
    BY <1>0, <1>1, <1>5, <2>1 DEF PurgeReach, table, UTypeOK, TypeOK
  <2>3. ~Tidy(a)
    BY <1>0, <1>5 DEF Tidy
  <2> QED BY <1>0, <1>2, <1>3, <2>1, <2>2, <2>3, ReachInv DEF UInv
<1> QED BY <1>0, <1>4, <1>5 DEF PurgeFails

LEMMA CrashKeeps ==
  ASSUME UTypeOK, UInv, UCrash
  PROVE  UInv'
<1>1. /\ UNCHANGED <<rows, lastId, containers, images, trees, confs>>
      /\ \A r \in Requests : reqs'[r].pc = "idle"
  BY DEF UCrash, table, docker, Idle
<1>2. PurgeInv'
  BY IdlePurge DEF UCrash
<1> QED
  BY <1>1, <1>2
  DEF UInv, Inv, DeletedLeavesNothing, IdsOK, Exists, Alone, Imaged, Unnamed, Mine

--------------------------------------------------------------------------------
(* The steps of the requests *)

(***************************************************************************)
(* A tidy app stays tidy while only others are worked on.                  *)
(***************************************************************************)
LEMMA TidyStays ==
  ASSUME TypeOK, Inv, NEW a \in AppIds, Tidy(a),
         \/ \E r \in Requests : Step(r) /\ reqs[r].app # a
         \/ /\ UNCHANGED <<containers, images, confs>>
            /\ trees'[a] = trees[a]
  PROVE  Tidy(a)'
  BY ReachOfStep DEF Reach, Tidy

LEMMA RequestKeeps ==
  ASSUME OnePerApp, UTypeOK, UInv, NEW r \in Requests, Request(r), UNCHANGED purge,
         \A a \in purge.apps : ~(Busy(a)') \/ UNCHANGED <<reqs, trees>>
  PROVE  PurgeInv'
<1>1. UNCHANGED <<containers, images, confs>>
  BY DEF Request, CreateApp, StartDeploy, StartDelete, StartPatch, docker
<1>2. \A q \in Requests : reqs'[q].pc # "idle" => reqs'[q].app \notin purge.apps
  BY DEF UInv, PurgeInv, Busy
<1>3. ASSUME NEW a \in purge.apps
      PROVE  trees'[a] = trees[a]
  <2>1. a \in AppIds
    BY DEF UTypeOK, PurgeTypeOK
  <2>2. ASSUME NEW b \in AppIds, NEW c \in Branches, NEW force \in BOOLEAN,
               StartDeploy(r, b, c, force), b = a
        PROVE  FALSE
    <3>1. reqs'[r].app = a
      BY <2>2 DEF StartDeploy, Loaded, UTypeOK, TypeOK
    <3> QED BY <2>2, <3>1 DEF Busy, StartDeploy, Loaded, Idle, UTypeOK, TypeOK
  <2> QED
    BY <2>1, <2>2
    DEF Request, CreateApp, StartDeploy, StartDelete, StartPatch, UTypeOK, TypeOK
<1> QED BY <1>1, <1>2, <1>3 DEF UInv, PurgeInv, Tidy

LEMMA StepKeeps ==
  ASSUME OnePerApp, UTypeOK, UInv, NEW r \in Requests, Step(r), UNCHANGED purge
  PROVE  PurgeInv'
<1> USE DEF UTypeOK
<1>1. TypeOK /\ Inv /\ reqs[r].pc # "idle" /\ Reach(r)
  BY ReachOfStep DEF UInv
<1>2. purge.apps \subseteq AppIds \ {reqs[r].app} /\ purge.left \subseteq purge.apps
  BY <1>1 DEF UInv, PurgeInv, PurgeTypeOK
<1>3. \A q \in Requests : reqs'[q].pc # "idle" => reqs'[q].app \notin purge.apps
  BY <1>1, SameApp DEF UInv, PurgeInv, Reach
<1>4. \A a \in purge.apps \ purge.left : Tidy(a)'
  BY <1>1, <1>2, TidyStays DEF UInv, PurgeInv
<1>5. purge.app \in purge.left =>
        /\ images'[purge.app] = images[purge.app]
        /\ containers'[purge.app] = containers[purge.app]
        /\ confs'[purge.app] = confs[purge.app]
  BY <1>1, <1>2 DEF Reach
<1> QED BY <1>2, <1>3, <1>4, <1>5 DEF UInv, PurgeInv

LEMMA AppStepKeeps ==
  ASSUME OnePerApp, UTypeOK, UInv, AppStep
  PROVE  UInv'
<1>1. Inv' /\ DeletedLeavesNothing'
  BY AppSteps, InvStep, NothingLeftStep DEF UTypeOK, UInv
<1>2. ASSUME NEW r \in Requests, NEW u \in Users, CreateFor(r, u)
      PROVE  PurgeInv'
  BY <1>2, RequestKeeps DEF CreateFor, CreateApp, Request
<1>3. ASSUME NEW r \in Requests, Other(r)
      PROVE  PurgeInv'
  BY <1>3, RequestKeeps DEF Other
<1>4. ASSUME NEW r \in Requests, Step(r), UNCHANGED purge
      PROVE  PurgeInv'
  BY <1>4, StepKeeps
<1>5. ASSUME NEW u \in Users, StartPurge(u)
      PROVE  PurgeInv'
  <2>1. /\ purge'.apps = AppsOf(u) /\ purge'.left = AppsOf(u)
        /\ purge'.pc = "find"
        /\ UNCHANGED reqs
    BY <1>5 DEF StartPurge, NoPurge, vars
  <2>2. \A r \in Requests : reqs[r].app \notin AppsOf(u)
    BY <1>5 DEF StartPurge, Busy
  <2> QED BY <2>1, <2>2 DEF PurgeInv
<1>6. ASSUME PurgeUser
      PROVE  PurgeInv'
  <2>1. UNCHANGED <<containers, images, trees, confs, reqs>> /\ purge.left = {}
    BY <1>6 DEF PurgeUser, vars
  <2>2. CASE Move("commit")
    BY <2>1, <2>2, MoveFields DEF PurgePcs, UTypeOK, UInv, PurgeInv, Tidy
  <2>3. CASE purge' = NoPurge
    BY <2>3, IdlePurge
  <2> QED BY <1>6, <2>2, <2>3 DEF PurgeUser
<1>7. ASSUME UNCHANGED uvars
      PROVE  PurgeInv'
  BY <1>7 DEF uvars, vars, UInv, PurgeInv, Tidy
<1> QED BY <1>1, <1>2, <1>3, <1>4, <1>5, <1>6, <1>7 DEF AppStep, UInv

--------------------------------------------------------------------------------
(* When a user goes *)

LEMMA UInvHolds ==
  ASSUME OnePerApp
  PROVE  USpec => []UInv
<1>1. UInit => UInv
  BY DEF UInit, NoPurge, Init, TableInit, DockerInit, NoRow, NoContainer, Idle, UInv, Inv,
         DeletedLeavesNothing, PurgeInv, IdsOK, Exists, Alone, Imaged, Unnamed, Mine
<1>2. UTypeOK /\ UInv /\ [UNext]_uvars => UInv'
  BY USteps, AppStepKeeps, FindKeeps, RmKeeps, ImageKeeps, ConfKeeps, TreeKeeps, CommitKeeps,
     FailKeeps, CrashKeeps
<1> QED BY <1>1, <1>2, UTypeHolds, PTL DEF USpec

(***************************************************************************)
(* An app without a row has left nothing behind, deletions of users        *)
(* included: they remove the rows last.                                    *)
(***************************************************************************)
THEOREM PurgeLeavesNothing ==
  ASSUME OnePerApp
  PROVE  USpec => []DeletedLeavesNothing
  BY UInvHolds, PTL DEF UInv

(***************************************************************************)
(* The commit that removes a user finds every app of that user cleaned up: *)
(* those the handler's query saw it has cleaned up itself, and the foreign *)
(* key refuses the commit while there are others.                          *)
(***************************************************************************)
THEOREM UserGone ==
  ASSUME OnePerApp, ForeignKeys
  PROVE  USpec => UserGoneAppsGone
<1> DEFINE Gone == \A u \in users \ users' : \A a \in AppIds : owner[a] = u =>
                     /\ ~Exists(a)'
                     /\ ~containers'[a].up
                     /\ images'[a] = NoBranch
                     /\ trees'[a] = "absent"
<1>1. UTypeOK /\ UInv /\ [UNext]_uvars => [Gone]_uvars
  <2> SUFFICES ASSUME UTypeOK, UInv, [UNext]_uvars
               PROVE  Gone
    OBVIOUS
  <2>1. CASE users' = users
    BY <2>1
  <2>2. CASE PurgeCommit
    <3> SUFFICES ASSUME NEW a \in AppIds, owner[a] = purge.user
                 PROVE  /\ ~Exists(a)' /\ ~containers'[a].up
                        /\ images'[a] = NoBranch /\ trees'[a] = "absent"
      BY <2>2 DEF PurgeCommit
    <3>1. UNCHANGED <<containers, images, trees>>
      BY <2>2 DEF PurgeCommit, docker
    <3>2. CASE a \in purge.apps
      <4>1. Tidy(a)
        BY <2>2, <3>2 DEF PurgeCommit, At, UInv, PurgeInv
      <4> QED BY <2>2, <3>1, <3>2, <4>1 DEF PurgeCommit, Exists, NoRow, Tidy
    <3>3. CASE a \notin purge.apps
      <4>1. ~Exists(a)
        BY <2>2, <3>3 DEF PurgeCommit, Orphans, AppsOf
      <4> QED BY <2>2, <3>1, <3>3, <4>1 DEF PurgeCommit, Exists, UInv, DeletedLeavesNothing
    <3> QED BY <3>2, <3>3
  <2> QED
    BY <2>1, <2>2, USteps
    DEF AppStep, CreateFor, Other, StartPurge, PurgeUser, uvars, PurgeFind, PurgeRm, PurgeImage,
        PurgeConf, PurgeTree, PurgeFails, UCrash
<1> QED BY <1>1, UTypeHolds, UInvHolds, PTL DEF USpec, UserGoneAppsGone

--------------------------------------------------------------------------------
(* Ports beside the deletion of a user *)

(***************************************************************************)
(* What the steps of the deletion do to rows and containers: they remove.  *)
(***************************************************************************)
LEMMA PurgeOnlyRemoves ==
  ASSUME UTypeOK, UInv, [UNext]_uvars
  PROVE  \/ [Next]_vars
         \/ /\ \A a \in AppIds : rows'[a] = rows[a]
            /\ \A a \in AppIds : containers'[a] = containers[a] \/ containers'[a] = NoContainer
         \/ /\ \A a \in AppIds : rows'[a] = rows[a] \/ (rows'[a] = NoRow /\ Tidy(a))
            /\ \A a \in AppIds : containers'[a] = containers[a]
<1>1. CASE AppStep
  BY <1>1, AppSteps
<1>2. CASE PurgeFind \/ PurgeImage \/ PurgeConf \/ PurgeTree \/ PurgeFails \/ UCrash
  BY <1>2 DEF PurgeFind, PurgeImage, RemoveImage, PurgeConf, PurgeTree, PurgeFails, UCrash,
              table, docker
<1>3. CASE PurgeRm
  BY <1>3 DEF PurgeRm, RemoveContainer, table, docker, UTypeOK, TypeOK, DockerTypeOK
<1>4. CASE PurgeCommit
  <2>1. \A a \in purge.apps : Tidy(a)
    BY <1>4 DEF PurgeCommit, At, UInv, PurgeInv
  <2> QED BY <1>4, <2>1 DEF PurgeCommit, docker
<1> QED BY <1>1, <1>2, <1>3, <1>4, USteps

(***************************************************************************)
(* The UNIQUE constraint keeps leases apart while users are deleted too.   *)
(***************************************************************************)
THEOREM PurgeLeasesExclusive ==
  ASSUME OnePerApp, UniquePort
  PROVE  USpec => []NoSharedLease
<1>1. UInit => NoSharedLease
  BY DEF UInit, Init, TableInit, NoRow, NoSharedLease
<1>2. UTypeOK /\ UInv /\ NoSharedLease /\ [UNext]_uvars => NoSharedLease'
  <2> SUFFICES ASSUME UTypeOK, UInv, NoSharedLease, [UNext]_uvars
               PROVE  NoSharedLease'
    OBVIOUS
  <2>1. CASE [Next]_vars
    BY <2>1, ExclusiveStep DEF UTypeOK
  <2>2. CASE \A a \in AppIds : rows'[a] = rows[a] \/ rows'[a] = NoRow
    BY <2>2 DEF NoSharedLease, NoRow
  <2> QED BY <2>1, <2>2, PurgeOnlyRemoves
<1> QED BY <1>1, <1>2, UTypeHolds, UInvHolds, PTL DEF USpec

(***************************************************************************)
(* A container binds the port in its row, and no other, while users are    *)
(* deleted too: their rows go after their containers.                      *)
(***************************************************************************)
THEOREM PurgeLeaseCovers ==
  ASSUME OnePerApp, {"ps", "rm"} \cap FaultKinds = {}
  PROVE  USpec => []LeaseCoversContainer
<1>1. UInit => LeaseCoversContainer /\ Blank
  BY DEF UInit, Init, TableInit, DockerInit, NoRow, NoContainer, LeaseCoversContainer, Blank
<1>2. UTypeOK /\ UInv /\ LeaseCoversContainer /\ Blank /\ [UNext]_uvars
        => LeaseCoversContainer' /\ Blank'
  <2> SUFFICES ASSUME UTypeOK, UInv, LeaseCoversContainer, Blank, [UNext]_uvars
               PROVE  LeaseCoversContainer' /\ Blank'
    OBVIOUS
  <2>1. CASE [Next]_vars
    BY <2>1, CoverStep DEF UTypeOK, UInv
  <2>2. CASE /\ \A a \in AppIds : rows'[a] = rows[a]
             /\ \A a \in AppIds : containers'[a] = containers[a] \/ containers'[a] = NoContainer
    BY <2>2 DEF LeaseCoversContainer, Blank, Exists, NoContainer
  <2>3. CASE /\ \A a \in AppIds : rows'[a] = rows[a] \/ (rows'[a] = NoRow /\ Tidy(a))
             /\ \A a \in AppIds : containers'[a] = containers[a]
    BY <2>3 DEF LeaseCoversContainer, Blank, Exists, NoRow, Tidy
  <2> QED BY <2>1, <2>2, <2>3, PurgeOnlyRemoves
<1> QED BY <1>1, <1>2, UTypeHolds, UInvHolds, PTL DEF USpec

(***************************************************************************)
(* Nobody binds the port of a deployment between the commit of the port    *)
(* and docker run, while users are deleted too.                            *)
(***************************************************************************)
THEOREM PurgeAllocatedPortFree ==
  ASSUME OnePerApp, UniquePort, ProbeSeesHost, {"ps", "rm"} \cap FaultKinds = {}
  PROVE  USpec => []AllocatedPortStaysFree
<1>1. UTypeOK /\ UInv /\ LeaseCoversContainer /\ NoSharedLease => AllocatedPortStaysFree
  BY PortFree DEF UTypeOK, UInv
<1> QED BY <1>1, UTypeHolds, UInvHolds, PurgeLeaseCovers, PurgeLeasesExclusive, PTL

--------------------------------------------------------------------------------
(* The deletion of a user in AppContract *)

LEMMA PurgeKept ==
  ASSUME OnePerApp, UTypeOK, UInv, Blank, Bound, [UNext]_uvars
  PROVE  Blank' /\ Bound'
<1>1. CASE [Next]_vars
  BY <1>1, BlankStep, BoundStep DEF UTypeOK, UInv
<1>2. CASE /\ \A a \in AppIds : rows'[a] = rows[a]
           /\ \A a \in AppIds : containers'[a] = containers[a] \/ containers'[a] = NoContainer
  BY <1>2 DEF Blank, Bound, Exists, NoContainer
<1>3. CASE /\ \A a \in AppIds : rows'[a] = rows[a] \/ (rows'[a] = NoRow /\ Tidy(a))
           /\ \A a \in AppIds : containers'[a] = containers[a]
  BY <1>3 DEF Blank, Bound, Exists, NoRow
<1> QED BY <1>1, <1>2, <1>3, PurgeOnlyRemoves

(***************************************************************************)
(* Removing the container stops an app that exists; of one that is gone    *)
(* there is no container left to remove.                                   *)
(***************************************************************************)
LEMMA PurgeStops ==
  ASSUME UTypeOK, UInv, PurgeRm
  PROVE  Contract!ContractNext \/ UNCHANGED Contract!cvars
<1>1. PICK a \in AppIds : a = purge.app
  BY DEF PurgeRm, At, UInv, PurgeInv, UTypeOK, PurgeTypeOK
<1>2. UNCHANGED rows
  BY DEF PurgeRm, table
<1>3. \A b \in AppIds \ {a} : rows'[b] = rows[b] /\ containers'[b] = containers[b]
  BY <1>1, <1>2 DEF PurgeRm, RemoveContainer, docker, UTypeOK, TypeOK, DockerTypeOK
<1>4. containers'[a] = containers[a] \/ containers'[a] = NoContainer
  BY <1>1 DEF PurgeRm, RemoveContainer, docker, UTypeOK, TypeOK, DockerTypeOK
<1>5. CASE containers'[a] = containers[a] \/ (~Exists(a) /\ containers'[a] = NoContainer)
  <2>1. UpPort(a)' = UpPort(a)
    BY <1>5 DEF UpPort, NoContainer, UInv, DeletedLeavesNothing
  <2>2. State(a)' = State(a)
    BY <1>2, <1>5 DEF State, Exists
  <2>3. Moves(a)
    BY <1>2, <2>1, <2>2 DEF Moves, StatusMoves, Keeps
  <2> QED BY <1>3, <2>3, ContractMove
<1>6. CASE Exists(a) /\ containers'[a] = NoContainer
  <2>1. UpPort(a)' = NoPort /\ State(a) # "absent"
    BY <1>6 DEF UpPort, NoContainer, State, Exists
  <2>2. State(a)' = IF State(a) = "running" THEN "down" ELSE State(a)
    BY <1>2, <1>6 DEF State, NoContainer
  <2>3. Moves(a)
    BY <1>2, <2>1, <2>2 DEF Moves, UpMoves
  <2> QED BY <1>3, <2>3, ContractMove
<1> QED BY <1>4, <1>5, <1>6

(***************************************************************************)
(* The commit at the end deletes all apps of the user in one step.         *)
(***************************************************************************)
LEMMA PurgeDeletes ==
  ASSUME UTypeOK, UInv, PurgeCommit
  PROVE  Contract!ContractNext
<1>1. /\ \A a \in purge.apps : ~containers[a].up
      /\ purge.apps \in SUBSET AppIds
  BY DEF PurgeCommit, At, UInv, PurgeInv, Tidy, UTypeOK, PurgeTypeOK
<1>2. /\ \A a \in AppIds : rows'[a] = IF a \in purge.apps THEN NoRow ELSE rows[a]
      /\ UNCHANGED containers
  BY DEF PurgeCommit, docker
<1>3. /\ \A a \in AppIds : State(a)' = IF a \in purge.apps THEN "absent" ELSE State(a)
      /\ \A a \in AppIds : rows'[a].port = IF a \in purge.apps THEN NoPort ELSE rows[a].port
  BY <1>2 DEF State, NoRow
<1>4. PICK D \in SUBSET AppIds : D = purge.apps
  BY <1>1
<1>5. Contract!Delete(D)
  BY <1>1, <1>2, <1>3, <1>4 DEF Contract!Delete, State
<1> QED BY <1>5 DEF Contract!ContractNext

(***************************************************************************)
(* Users may be deleted beside all the other requests, patches aside: an   *)
(* app never loses its row before its container, and what a failed         *)
(* deletion leaves is an app that is down, not one that is half gone.      *)
(***************************************************************************)
THEOREM PurgeKeepsContract ==
  ASSUME OnePerApp, UniquePort, "patch" \notin Ops
  PROVE  USpec => ImplementsContract
<1>1. UInit => Blank /\ Bound /\ Contract!ContractInit
  BY ContractStarts DEF UInit, ContractInv
<1>2. UTypeOK /\ UInv /\ Blank /\ Bound /\ [UNext]_uvars => Blank' /\ Bound'
  BY PurgeKept
<1>3. UTypeOK /\ UInv /\ Blank /\ Bound /\ [UNext]_uvars
        => [Contract!ContractNext]_(Contract!cvars)
  <2> SUFFICES ASSUME UTypeOK, UInv, Blank, Bound, [UNext]_uvars
               PROVE  Contract!ContractNext \/ UNCHANGED Contract!cvars
    OBVIOUS
  <2>1. CASE AppStep
    BY <2>1, AppSteps, ContractStep DEF ContractInv, UTypeOK, UInv
  <2>2. CASE PurgeFind \/ PurgeImage \/ PurgeConf \/ PurgeTree \/ PurgeFails \/ UCrash
    <3>1. PurgeFind => UNCHANGED <<table, docker>>
      BY DEF PurgeFind
    <3>2. PurgeImage => UNCHANGED <<table, containers>>
      BY DEF PurgeImage, RemoveImage
    <3>3. PurgeConf \/ PurgeTree \/ PurgeFails \/ UCrash => UNCHANGED <<table, docker>>
      BY DEF PurgeConf, PurgeTree, PurgeFails, UCrash
    <3>4. UNCHANGED rows /\ UNCHANGED containers
      BY <2>2, <3>1, <3>2, <3>3 DEF table, docker
    <3> QED BY <3>4 DEF Contract!cvars
  <2> QED BY <2>1, <2>2, USteps, PurgeStops, PurgeDeletes
<1> QED BY <1>1, <1>2, <1>3, UTypeHolds, UInvHolds, PTL
        DEF USpec, ImplementsContract, Contract!ContractSpec

(***************************************************************************)
(* So the contract's promise about every app holds while users are deleted *)
(* too.                                                                    *)
(***************************************************************************)
THEOREM PurgeKeepsPromise ==
  ASSUME OnePerApp, UniquePort, "patch" \notin Ops
  PROVE  USpec => []Contract!Promise
BY PurgeKeepsContract, PromiseOfContract, PTL
================================================================================
