------------------------------ MODULE UserDeletion ------------------------------
(***************************************************************************)
(* admin_delete_user (api/v1/admin.py) beside the requests of AppLifecycle *)
(* it can overlap with: it removes what the user's apps have outside the   *)
(* database, one app after another, and all the rows in one commit at the  *)
(* end.  One such request at a time; if OnePerApp, it too keeps away from  *)
(* apps other requests work on.                                            *)
(***************************************************************************)
EXTENDS AppCorrectness

CONSTANTS
  Users,
  ForeignKeys   \* TRUE: PostgreSQL; FALSE: SQLite, where user_id is not enforced

ASSUME UserDeletionAssumption == ForeignKeys \in BOOLEAN

VARIABLES
  users,   \* the rows of table users
  owner,   \* owner[a]: user_id of app a (of the last row with that id)
  purge    \* the handler in flight

uvars == <<vars, users, owner, purge>>

NoUser  == "no user"
NoPurge == [pc |-> "idle", user |-> NoUser, apps |-> {}, left |-> {}, app |-> 0, cid |-> NoCid]

PurgeTypeOK ==
  /\ users \subseteq Users
  /\ owner \in [AppIds -> Users \cup {NoUser}]
  /\ purge \in [pc : {"idle", "find", "rm", "image", "conf", "tree", "commit"},
                user : Users \cup {NoUser}, apps : SUBSET AppIds, left : SUBSET AppIds,
                app : 0..MaxId, cid : Cids \cup {NoCid}]

UInit ==
  /\ Init
  /\ users = Users
  /\ owner = [a \in AppIds |-> NoUser]
  /\ purge = NoPurge

AppsOf(u) == {a \in AppIds : Exists(a) /\ owner[a] = u}

StartPurge(u) ==
  /\ purge = NoPurge
  /\ OnePerApp => \A a \in AppsOf(u) : ~Busy(a)
  /\ purge' = [NoPurge EXCEPT !.pc = "find", !.user = u, !.apps = AppsOf(u), !.left = AppsOf(u)]
  /\ UNCHANGED <<vars, users, owner>>

At(pc)   == purge.pc = pc
Move(pc) == purge' = [purge EXCEPT !.pc = pc]

PurgeFind ==
  /\ At("find")
  /\ \E a \in purge.left :
       \/ /\ containers[a] # NoContainer
          /\ NoFault
          /\ purge' = [purge EXCEPT !.pc = "rm", !.app = a, !.cid = containers[a].id]
       \/ /\ (containers[a] = NoContainer /\ NoFault) \/ Fault("ps")
          /\ purge' = [purge EXCEPT !.pc = "image", !.app = a]
  /\ UNCHANGED <<table, docker, trees, confs, reqs, users, owner>>

PurgeRm ==
  /\ At("rm")
  /\ \/ RemoveContainer(purge.app, purge.cid) /\ NoFault
     \/ UNCHANGED docker /\ Fault("rm")
  /\ Move("image")
  /\ UNCHANGED <<table, trees, confs, reqs, users, owner>>

PurgeImage ==
  /\ At("image")
  /\ RemoveImage(purge.app)
  /\ Move("conf")
  /\ UNCHANGED <<table, trees, confs, reqs, faults, users, owner>>

PurgeConf ==
  /\ At("conf")
  /\ SetConf(purge.app, NoPort)
  /\ Move("tree")
  /\ UNCHANGED <<table, docker, trees, reqs, users, owner>>

\* mutant: only one app is cleaned up
PurgeTreeOnce ==
  /\ At("tree")
  /\ trees' = [trees EXCEPT ![purge.app] = "absent"]
  /\ purge' = [purge EXCEPT !.pc = "find", !.left = {}, !.app = 0, !.cid = NoCid]
  /\ UNCHANGED <<table, docker, confs, reqs, faults, users, owner>>

\* rmtree; the row is only marked
PurgeTree ==
  /\ At("tree")
  /\ trees' = [trees EXCEPT ![purge.app] = "absent"]
  /\ purge' = [purge EXCEPT !.pc = "find", !.left = @ \ {purge.app}, !.app = 0, !.cid = NoCid]
  /\ UNCHANGED <<table, docker, confs, reqs, faults, users, owner>>

\* 404 if another such request was faster
PurgeUser ==
  /\ At("find") /\ purge.left = {}
  /\ IF purge.user \in users THEN Move("commit") ELSE purge' = NoPurge
  /\ UNCHANGED <<vars, users, owner>>

Orphans == AppsOf(purge.user) \ purge.apps

\* mutant: no foreign key on user_id
PurgeCommitUnchecked ==
  /\ At("commit")
  /\ rows' = [a \in AppIds |-> IF a \in purge.apps THEN NoRow ELSE rows[a]]
  /\ users' = users \ {purge.user}
  /\ purge' = NoPurge
  /\ UNCHANGED <<lastId, docker, trees, confs, reqs, faults, owner>>

PurgeCommit ==
  /\ At("commit")
  /\ ForeignKeys => Orphans = {}
  /\ rows' = [a \in AppIds |-> IF a \in purge.apps THEN NoRow ELSE rows[a]]
  /\ users' = users \ {purge.user}
  /\ purge' = NoPurge
  /\ UNCHANGED <<lastId, docker, trees, confs, reqs, faults, owner>>

\* what has been removed stays removed, all the rows stay
PurgeFails ==
  /\ \/ At("image") /\ ImageInUse(purge.app) /\ NoFault /\ UNCHANGED trees
     \/ purge.pc \in {"find", "rm", "image"} /\ Fault("ext") /\ UNCHANGED trees
     \/ /\ At("tree") /\ trees[purge.app] # "absent" /\ Fault("fs")
        /\ \E t \in {trees[purge.app], "broken"} : trees' = [trees EXCEPT ![purge.app] = t]
     \/ /\ At("commit") /\ UNCHANGED trees
        /\ Fault("db") \/ (ForeignKeys /\ Orphans # {} /\ NoFault)
  /\ purge' = NoPurge
  /\ UNCHANGED <<table, docker, confs, reqs, users, owner>>

Purge ==
  \/ PurgeFind \/ PurgeRm \/ PurgeImage \/ PurgeConf \/ PurgeTree
  \/ PurgeUser \/ PurgeCommit \/ PurgeFails

--------------------------------------------------------------------------------

\* create_app: current_user was there when the request came; user_id is checked
\* by the database
CreateFor(r, u) ==
  /\ ForeignKeys => u \in users
  /\ \E a \in AppIds, b \in Branches :
       CreateApp(r, a, b) /\ owner' = [owner EXCEPT ![a] = u]
  /\ UNCHANGED <<users, purge>>

\* another request starts: not a creation
Other(r) ==
  /\ Request(r)
  /\ UNCHANGED <<rows, users, owner, purge>>
  /\ OnePerApp => \A a \in purge.apps : ~(Busy(a)')

UCrash ==
  /\ Fault("crash")
  /\ (\E r \in Requests : reqs[r] # Idle) \/ purge # NoPurge
  /\ reqs' = [r \in Requests |-> Idle]
  /\ purge' = NoPurge
  /\ UNCHANGED <<table, docker, trees, confs, users, owner>>

UNext ==
  \/ \E r \in Requests :
       \/ \E u \in Users : CreateFor(r, u)
       \/ Other(r)
       \/ Step(r) /\ UNCHANGED <<users, owner, purge>>
  \/ \E u \in Users : StartPurge(u)
  \/ Purge
  \/ UCrash

USpec == UInit /\ [][UNext]_uvars

--------------------------------------------------------------------------------

\* Every app belongs to a user who exists, so that somebody can delete it and what
\* it runs: an app created while its user is being deleted is refused, or it makes
\* the deletion fail.  (Needs foreign keys.)
AppsHaveOwners == \A a \in AppIds : Exists(a) => owner[a] \in users

\* When a user goes, nothing is left of any app the user ever had: no row, no
\* container, no image, no directory.
UserGoneAppsGone ==
  [][\A u \in users \ users' : \A a \in AppIds : owner[a] = u =>
       /\ ~Exists(a)'
       /\ ~containers'[a].up
       /\ images'[a] = NoBranch
       /\ trees'[a] = "absent"]_uvars
================================================================================
