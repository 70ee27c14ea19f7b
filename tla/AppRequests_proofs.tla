---------------------------- MODULE AppRequests_proofs ----------------------------
(***************************************************************************)
(* Theorems about AppRequests, for any requests, worlds and values.        *)
(***************************************************************************)
EXTENDS AppRequests, SequenceTheorems, WellFoundedInduction, TLAPS

Errors == {"InvalidRepoURL", "MalformedRepoURL", "UnexpectedRepoURLFormat", "GitHubAPIConnection",
           "RepoNotFoundOrPrivate", "GitHubAPI", "PrivateRepoNotSupported", "GitClone",
           "GitBranchNotFound", "DockerfileNotFound", "DockerBuild", "NoAvailablePort", "DockerRun",
           "Validation", "Integrity"}
Check  == BOOLEAN \X Errors
Urls  == {r.url : r \in CreateRequests}
Row   == [status : {"created", "running", "error"}, url : Urls, container_port : Nat,
          branch : Branches, source_dir : Paths, dockerfile_path : Paths, env : Envs]

(***************************************************************************)
(* A sequence of checks passes when its parts do, and only then.           *)
(***************************************************************************)
LEMMA PassesParts ==
  ASSUME NEW c \in Seq(Check), NEW d \in Seq(Check)
  PROVE  Passes(c \o d) => Passes(c) /\ Passes(d)
<1> SUFFICES ASSUME Passes(c \o d)
             PROVE  Passes(c) /\ Passes(d)
  OBVIOUS
<1>1. ASSUME NEW i \in DOMAIN c
      PROVE  c[i][1]
  <2>1. i \in DOMAIN (c \o d) /\ (c \o d)[i] = c[i]
    BY <1>1
  <2> QED BY <2>1 DEF Passes
<1>2. ASSUME NEW i \in DOMAIN d
      PROVE  d[i][1]
  <2>1. i + Len(c) \in DOMAIN (c \o d) /\ (c \o d)[i + Len(c)] = d[i]
    BY <1>2
  <2> QED BY <2>1 DEF Passes
<1> QED BY <1>1, <1>2 DEF Passes

LEMMA SeqTypes ==
  ASSUME NEW S
  PROVE  /\ \A a \in S : <<a>> \in Seq(S)
         /\ \A a, b \in S : <<a, b>> \in Seq(S)
         /\ \A a, b, c, d \in S : <<a, b, c, d>> \in Seq(S)
         /\ \A a, b, c, d, e, f, g \in S : <<a, b, c, d, e, f, g>> \in Seq(S)
  OBVIOUS

LEMMA CheckType ==
  ASSUME NEW holds \in BOOLEAN, NEW error \in Errors
  PROVE  <<holds, error>> \in Check
  BY DEF Check

LEMMA RepoChecksType ==
  ASSUME NEW url \in Urls, NEW w \in Worlds
  PROVE  RepoChecks(url, w) \in Seq(Check)
<1>1. /\ url.github \in BOOLEAN
      /\ (Len(url.path) >= 2) \in BOOLEAN /\ (Len(url.path) <= 2) \in BOOLEAN
      /\ \A s : (w.github # s) \in BOOLEAN
  BY AppRequestsAssumption DEF Urls
<1>2. /\ <<url.github, "InvalidRepoURL">> \in Check
      /\ <<Len(url.path) >= 2, "MalformedRepoURL">> \in Check
      /\ <<Len(url.path) <= 2, "UnexpectedRepoURLFormat">> \in Check
      /\ <<w.github # "down", "GitHubAPIConnection">> \in Check
      /\ <<w.github # "404", "RepoNotFoundOrPrivate">> \in Check
      /\ <<w.github # "limited", "GitHubAPI">> \in Check
      /\ <<w.github # "private", "PrivateRepoNotSupported">> \in Check
  BY <1>1, CheckType, Zenon DEF Errors
<1>3. \A a, b, c, d, e, f, g \in Check : <<a, b, c, d, e, f, g>> \in Seq(Check)
  BY SeqTypes
<1> QED BY <1>2, <1>3, Zenon DEF RepoChecks

LEMMA Concatenation ==
  ASSUME NEW s \in Seq(Check), NEW t \in Seq(Check)
  PROVE  /\ s \o t \in Seq(Check) /\ Len(s \o t) = Len(s) + Len(t)
         /\ \A i \in 1..Len(s) : (s \o t)[i] = s[i]
         /\ \A i \in 1..Len(t) : (s \o t)[Len(s) + i] = t[i]
  OBVIOUS

(***************************************************************************)
(* The nine checks of create_app, and those of a deployment.               *)
(***************************************************************************)
LEMMA CreateChecksAre ==
  ASSUME NEW r \in CreateRequests, NEW w \in Worlds
  PROVE  LET c == CreateChecks(r, w) IN
         /\ c \in Seq(Check) /\ Len(c) = 9
         /\ c[1] = <<CreateSchema(r), "Validation">>
         /\ c[2] = <<r.url.github, "InvalidRepoURL">>
         /\ c[3] = <<Len(r.url.path) >= 2, "MalformedRepoURL">>
         /\ c[4] = <<Len(r.url.path) <= 2, "UnexpectedRepoURLFormat">>
         /\ c[5] = <<w.github # "down", "GitHubAPIConnection">>
         /\ c[6] = <<w.github # "404", "RepoNotFoundOrPrivate">>
         /\ c[7] = <<w.github # "limited", "GitHubAPI">>
         /\ c[8] = <<w.github # "private", "PrivateRepoNotSupported">>
         /\ c[9] = <<PortConstraint(r), "Integrity">>
<1> DEFINE c  == CreateChecks(r, w)
           c1 == <<CreateSchema(r), "Validation">>
           c2 == <<r.url.github, "InvalidRepoURL">>
           c3 == <<Len(r.url.path) >= 2, "MalformedRepoURL">>
           c4 == <<Len(r.url.path) <= 2, "UnexpectedRepoURLFormat">>
           c5 == <<w.github # "down", "GitHubAPIConnection">>
           c6 == <<w.github # "404", "RepoNotFoundOrPrivate">>
           c7 == <<w.github # "limited", "GitHubAPI">>
           c8 == <<w.github # "private", "PrivateRepoNotSupported">>
           c9 == <<PortConstraint(r), "Integrity">>
<1>1. c = <<c1>> \o <<c2, c3, c4, c5, c6, c7, c8>> \o <<c9>>
  BY DEF CreateChecks, RepoChecks
<1>2. RepoChecks(r.url, w) = <<c2, c3, c4, c5, c6, c7, c8>> /\ RepoChecks(r.url, w) \in Seq(Check)
  BY RepoChecksType DEF RepoChecks, Urls
<1>3. c1 \in Check /\ c9 \in Check
  <2>1. CreateSchema(r) \in BOOLEAN /\ PortConstraint(r) \in BOOLEAN
    BY DEF CreateSchema, PortConstraint
  <2> QED BY <2>1, CheckType, Zenon DEF Errors
<1> HIDE DEF c, c1, c2, c3, c4, c5, c6, c7, c8, c9
<1> DEFINE m == <<c2, c3, c4, c5, c6, c7, c8>>
<1>4. /\ m \in Seq(Check) /\ Len(m) = 7
      /\ m[1] = c2 /\ m[2] = c3 /\ m[3] = c4 /\ m[4] = c5 /\ m[5] = c6 /\ m[6] = c7 /\ m[7] = c8
  BY <1>2
<1>5. /\ <<c1>> \in Seq(Check) /\ Len(<<c1>>) = 1 /\ <<c1>>[1] = c1
      /\ <<c9>> \in Seq(Check) /\ Len(<<c9>>) = 1 /\ <<c9>>[1] = c9
  BY <1>3
<1> DEFINE a == <<c1>>
           z == <<c9>>
<1>6. c = a \o m \o z
  BY <1>1
<1>7. /\ a \in Seq(Check) /\ Len(a) = 1 /\ a[1] = c1
      /\ z \in Seq(Check) /\ Len(z) = 1 /\ z[1] = c9
  BY <1>5
<1> HIDE DEF a, m, z, Check
<1>8. /\ a \o m \in Seq(Check) /\ Len(a \o m) = 8
      /\ (a \o m)[1] = c1
      /\ (a \o m)[2] = c2 /\ (a \o m)[3] = c3 /\ (a \o m)[4] = c4 /\ (a \o m)[5] = c5
      /\ (a \o m)[6] = c6 /\ (a \o m)[7] = c7 /\ (a \o m)[8] = c8
  <2>1. /\ a \o m \in Seq(Check) /\ Len(a \o m) = Len(a) + Len(m)
        /\ \A i \in 1..Len(a) : (a \o m)[i] = a[i]
        /\ \A i \in 1..Len(m) : (a \o m)[Len(a) + i] = m[i]
    <3>1. a \in Seq(Check) /\ m \in Seq(Check)
      BY <1>4, <1>7
    <3> QED BY <3>1, Concatenation, Zenon
  <2> QED BY <1>4, <1>7, <2>1
<1>9. /\ c \in Seq(Check) /\ Len(c) = 9
      /\ \A i \in 1..8 : c[i] = (a \o m)[i]
      /\ c[9] = c9
  <2>1. /\ (a \o m) \o z \in Seq(Check) /\ Len((a \o m) \o z) = Len(a \o m) + Len(z)
        /\ \A i \in 1..Len(a \o m) : ((a \o m) \o z)[i] = (a \o m)[i]
        /\ \A i \in 1..Len(z) : ((a \o m) \o z)[Len(a \o m) + i] = z[i]
    <3>1. a \o m \in Seq(Check) /\ z \in Seq(Check)
      BY <1>7, <1>8
    <3> QED BY <3>1, Concatenation, Zenon
  <2> QED BY <1>6, <1>7, <1>8, <2>1
<1>10. c[1] = c1 /\ c[2] = c2 /\ c[3] = c3 /\ c[4] = c4 /\ c[5] = c5
  <2>1. 1 \in 1..8 /\ 2 \in 1..8 /\ 3 \in 1..8 /\ 4 \in 1..8 /\ 5 \in 1..8
    OBVIOUS
  <2> QED BY <1>8, <1>9, <2>1, Zenon
<1>11. c[6] = c6 /\ c[7] = c7 /\ c[8] = c8
  <2>1. 6 \in 1..8 /\ 7 \in 1..8 /\ 8 \in 1..8
    OBVIOUS
  <2> QED BY <1>8, <1>9, <2>1, Zenon
<1> QED BY <1>9, <1>10, <1>11, Zenon DEF c, c1, c2, c3, c4, c5, c6, c7, c8, c9

LEMMA CreateConditions ==
  ASSUME NEW r \in CreateRequests, NEW w \in Worlds
  PROVE  LET c == CreateChecks(r, w) IN
         /\ c[1][1] = CreateSchema(r)
         /\ c[2][1] = r.url.github
         /\ c[3][1] = (Len(r.url.path) >= 2)
         /\ c[4][1] = (Len(r.url.path) <= 2)
         /\ c[5][1] = (w.github # "down")
         /\ c[6][1] = (w.github # "404")
         /\ c[7][1] = (w.github # "limited")
         /\ c[8][1] = (w.github # "private")
         /\ c[9][1] = PortConstraint(r)
<1> DEFINE c  == CreateChecks(r, w)
           p1 == CreateSchema(r)
           p2 == r.url.github
           p3 == Len(r.url.path) >= 2
           p4 == Len(r.url.path) <= 2
           p5 == w.github # "down"
           p6 == w.github # "404"
           p7 == w.github # "limited"
           p8 == w.github # "private"
           p9 == PortConstraint(r)
<1>1. /\ c[1] = <<p1, "Validation">>
      /\ c[2] = <<p2, "InvalidRepoURL">>
      /\ c[3] = <<p3, "MalformedRepoURL">>
      /\ c[4] = <<p4, "UnexpectedRepoURLFormat">>
      /\ c[5] = <<p5, "GitHubAPIConnection">>
      /\ c[6] = <<p6, "RepoNotFoundOrPrivate">>
      /\ c[7] = <<p7, "GitHubAPI">>
      /\ c[8] = <<p8, "PrivateRepoNotSupported">>
      /\ c[9] = <<p9, "Integrity">>
  BY CreateChecksAre, Zenon
<1> HIDE DEF c, p1, p2, p3, p4, p5, p6, p7, p8, p9
<1>2. /\ c[1][1] = p1 /\ c[2][1] = p2 /\ c[3][1] = p3 /\ c[4][1] = p4 /\ c[5][1] = p5
      /\ c[6][1] = p6 /\ c[7][1] = p7 /\ c[8][1] = p8 /\ c[9][1] = p9
  BY <1>1
<1> QED BY <1>2, Zenon DEF c, p1, p2, p3, p4, p5, p6, p7, p8, p9

LEMMA DeployParts ==
  ASSUME NEW new \in Row, NEW w \in Worlds
  PROVE  /\ RepoChecks(new.url, w) \in Seq(Check)
         /\ <<<<w.clones, "GitClone">>,
              <<new.branch \in w.branches \cup w.paths, "GitBranchNotFound">>,
              <<new.dockerfile_path \in w.files, "DockerfileNotFound">>,
              <<w.builds, "DockerBuild">>>> \in Seq(Check)
         /\ <<<<w.port, "NoAvailablePort">>, <<NameFree(w) /\ w.run = "up", "DockerRun">>>> \in Seq(Check)
<1>1. RepoChecks(new.url, w) \in Seq(Check)
  BY RepoChecksType DEF Row
<1>2. /\ w.clones \in BOOLEAN /\ w.builds \in BOOLEAN /\ w.port \in BOOLEAN
      /\ (NameFree(w) /\ w.run = "up") \in BOOLEAN
      /\ (new.branch \in w.branches \cup w.paths) \in BOOLEAN
      /\ (new.dockerfile_path \in w.files) \in BOOLEAN
  BY AppRequestsAssumption
<1>3. /\ <<w.clones, "GitClone">> \in Check
      /\ <<new.branch \in w.branches \cup w.paths, "GitBranchNotFound">> \in Check
      /\ <<new.dockerfile_path \in w.files, "DockerfileNotFound">> \in Check
      /\ <<w.builds, "DockerBuild">> \in Check
      /\ <<w.port, "NoAvailablePort">> \in Check
      /\ <<NameFree(w) /\ w.run = "up", "DockerRun">> \in Check
  BY <1>2, CheckType, Zenon DEF Errors
<1>4. /\ \A a, b \in Check : <<a, b>> \in Seq(Check)
      /\ \A a, b, c, d \in Check : <<a, b, c, d>> \in Seq(Check)
  BY SeqTypes
<1> QED BY <1>1, <1>3, <1>4, Zenon

LEMMA DeployChecksType ==
  ASSUME NEW new \in Row, NEW w \in Worlds
  PROVE  DeployChecks(new, w) \in Seq(Check)
<1> DEFINE repo  == RepoChecks(new.url, w)
           steps == <<<<w.clones, "GitClone">>,
                      <<new.branch \in w.branches \cup w.paths, "GitBranchNotFound">>,
                      <<new.dockerfile_path \in w.files, "DockerfileNotFound">>,
                      <<w.builds, "DockerBuild">>>>
           last  == <<<<w.port, "NoAvailablePort">>, <<NameFree(w) /\ w.run = "up", "DockerRun">>>>
<1>1. repo \in Seq(Check) /\ steps \in Seq(Check) /\ last \in Seq(Check)
  BY DeployParts, Zenon
<1>2. DeployChecks(new, w) = (repo \o steps) \o last
  BY DEF DeployChecks, BuildChecks
<1> HIDE DEF repo, steps, last
<1>3. repo \o steps \in Seq(Check)
  BY <1>1, Concatenation
<1> QED BY <1>1, <1>2, <1>3, Concatenation

(***************************************************************************)
(* A deployment that gets through has cloned or pulled the repository,     *)
(* found a branch or a path of the branch's name, built the image and      *)
(* found a port and the name of the container free.                        *)
(***************************************************************************)
LEMMA RunsAfterBuild ==
  ASSUME NEW new \in Row, NEW w \in Worlds, Passes(DeployChecks(new, w))
  PROVE  /\ Passes(BuildChecks(new, w))
         /\ Passes(RepoChecks(new.url, w))
         /\ w.clones /\ new.branch \in w.branches \cup w.paths
         /\ w.port /\ NameFree(w) /\ w.run = "up"
<1> DEFINE steps == <<<<w.clones, "GitClone">>,
                      <<new.branch \in w.branches \cup w.paths, "GitBranchNotFound">>,
                      <<new.dockerfile_path \in w.files, "DockerfileNotFound">>,
                      <<w.builds, "DockerBuild">>>>
           last  == <<<<w.port, "NoAvailablePort">>, <<NameFree(w) /\ w.run = "up", "DockerRun">>>>
<1>1. RepoChecks(new.url, w) \in Seq(Check) /\ steps \in Seq(Check) /\ last \in Seq(Check)
  BY DeployParts, Zenon
<1>2. BuildChecks(new, w) = RepoChecks(new.url, w) \o steps
  BY DEF BuildChecks
<1>3. DeployChecks(new, w) = BuildChecks(new, w) \o last
  BY DEF DeployChecks
<1>4. /\ Passes(steps) => w.clones /\ new.branch \in w.branches \cup w.paths
      /\ Passes(last) => w.port /\ NameFree(w) /\ w.run = "up"
  <2>1. /\ 1 \in DOMAIN steps /\ 2 \in DOMAIN steps
        /\ steps[1][1] = w.clones /\ steps[2][1] = (new.branch \in w.branches \cup w.paths)
    OBVIOUS
  <2>2. /\ 1 \in DOMAIN last /\ 2 \in DOMAIN last
        /\ last[1][1] = w.port /\ last[2][1] = (NameFree(w) /\ w.run = "up")
    OBVIOUS
  <2> HIDE DEF steps, last
  <2> QED BY <2>1, <2>2 DEF Passes
<1> HIDE DEF steps, last
<1>5. BuildChecks(new, w) \in Seq(Check)
  BY <1>1, <1>2
<1>6. Passes(BuildChecks(new, w)) /\ Passes(last)
  BY <1>1, <1>3, <1>5, PassesParts
<1>7. Passes(RepoChecks(new.url, w)) /\ Passes(steps)
  BY <1>1, <1>2, <1>6, PassesParts
<1> QED BY <1>4, <1>6, <1>7

(***************************************************************************)
(* A natural number that has a property is preceded by a first one that    *)
(* has it.                                                                 *)
(***************************************************************************)
LEMMA Least ==
  ASSUME NEW S, S \subseteq Nat, S # {}
  PROVE  \E n \in S : \A m \in S : n <= m
<1> DEFINE R == OpToRel(<, Nat)
<1>1. IsWellFoundedOn(R, Nat)
  BY NatLessThanWellFounded
<1>2. \A m, n \in Nat : m < n => <<m, n>> \in R
  BY DEF OpToRel
<1> HIDE DEF R
<1>3. PICK n \in S : \A m \in S : ~(<<m, n>> \in R)
  BY <1>1, WFMin
<1>4. ASSUME NEW m \in S
      PROVE  n <= m
  <2>1. m \in Nat /\ n \in Nat
    OBVIOUS
  <2>2. ~(m < n)
    BY <1>2, <1>3, <2>1, Zenon
  <2> QED BY <2>1, <2>2
<1> QED BY <1>4

LEMMA SetInduction ==
  ASSUME NEW S, 0 \in S, \A n \in Nat : n \in S => n + 1 \in S
  PROVE  Nat \subseteq S
<1> SUFFICES ASSUME Nat \ S # {}
             PROVE  FALSE
  OBVIOUS
<1>1. PICK n \in Nat \ S : \A m \in Nat \ S : n <= m
  <2>1. Nat \ S \subseteq Nat
    OBVIOUS
  <2> QED BY <2>1, Least
<1>2. n # 0 /\ n - 1 \in Nat \ S /\ ~(n <= n - 1)
  OBVIOUS
<1> QED BY <1>1, <1>2

(***************************************************************************)
(* The error of a request is that of the first check that fails, and there *)
(* is one unless all checks pass.                                          *)
(***************************************************************************)
LEMMA FirstErrorIs ==
  ASSUME NEW c \in Seq(Check), ~Passes(c)
  PROVE  \E i \in DOMAIN c : /\ ~c[i][1] /\ \A j \in 1..(i - 1) : c[j][1]
                            /\ FirstError(c) = c[i][2]
<1> DEFINE failing == {i \in DOMAIN c : ~c[i][1]}
           First(i) == ~c[i][1] /\ \A j \in 1..(i - 1) : c[j][1]
<1>1. failing \subseteq Nat /\ failing # {}
  BY DEF Passes
<1>2. PICK i \in failing : \A j \in failing : i <= j
  BY <1>1, Least
<1>3. First(i)
  <2>1. \A j \in 1..(i - 1) : j \in DOMAIN c /\ ~(i <= j)
    OBVIOUS
  <2> QED BY <1>2, <2>1
<1>4. First(CHOOSE k \in DOMAIN c : First(k)) /\ (CHOOSE k \in DOMAIN c : First(k)) \in DOMAIN c
  BY <1>3
<1>5. FirstError(c) = c[CHOOSE k \in DOMAIN c : First(k)][2]
  BY DEF FirstError
<1> QED BY <1>4, <1>5

LEMMA ErrorType ==
  ASSUME NEW c \in Seq(Check)
  PROVE  FirstError(c) \in Errors \cup {None}
<1>1. CASE Passes(c)
  BY <1>1 DEF FirstError
<1>2. CASE ~Passes(c)
  <2>1. PICK i \in DOMAIN c : FirstError(c) = c[i][2]
    BY <1>2, FirstErrorIs
  <2>2. c[i] \in Check
    OBVIOUS
  <2> QED BY <2>1, <2>2 DEF Check
<1> QED BY <1>1, <1>2

LEMMA StatusType == \A e \in Errors \cup {None, "AppNotFound"} : StatusCode[e] \in 200..599
  BY DEF Errors, None, StatusCode

--------------------------------------------------------------------------------
(* The row, the tree, the image and the container *)

RowOK == row = NoRow \/ row \in Row

LEMMA NoRowIsNone ==
  ASSUME NEW x \in Row
  PROVE  x # NoRow
  BY DEF Row, NoRow, None

LEMMA OverriddenType ==
  ASSUME row \in Row, NEW r, DeploySchema(r)
  PROVE  Overridden(r) \in Row
<1>1. /\ Given(r.branch, row.branch) \in Branches
      /\ Given(r.dockerfile_path, row.dockerfile_path) \in Paths
      /\ Given(r.source_dir, row.source_dir) \in Paths
      /\ Given(r.env, row.env) \in Envs
  BY DEF DeploySchema, Given, Row
<1> QED BY <1>1 DEF Overridden, Row

(***************************************************************************)
(* The parts of RunsAsStored and NoOutdatedContainer that hold between     *)
(* deployments too.                                                        *)
(***************************************************************************)
RunInv ==
  /\ RowOK
  /\ row = NoRow => container = NoContainer
  /\ RunsAsStored
  /\ NoOutdatedContainer

LEMMA SchemaChecked ==
  ASSUME NEW r \in CreateRequests, NEW w \in Worlds, Passes(CreateChecks(r, w))
  PROVE  CreateSchema(r)
<1> DEFINE c == CreateChecks(r, w)
<1>1. 1 \in DOMAIN c /\ c[1][1] = CreateSchema(r)
  BY CreateChecksAre
<1> HIDE DEF c
<1> QED BY <1>1 DEF Passes, c

LEMMA CreateKeeps ==
  ASSUME RunInv, NEW r \in CreateRequests, NEW w \in Worlds, Create(r, w)
  PROVE  RunInv'
<1>1. CASE ~Passes(CreateChecks(r, w))
  BY <1>1 DEF Create, RunInv, RowOK, RunsAsStored, NoOutdatedContainer
<1>2. CASE Passes(CreateChecks(r, w))
  <2>1. row' \in Row /\ row'.status = "created"
    BY <1>2, SchemaChecked, AppRequestsAssumption DEF Create, CreateSchema, Row, Urls
  <2>2. row' # NoRow
    BY <2>1, NoRowIsNone
  <2> QED BY <2>1, <2>2 DEF Create, RunInv, RowOK, RunsAsStored, NoOutdatedContainer
<1> QED BY <1>1, <1>2

LEMMA DeployKeeps ==
  ASSUME RunInv, NEW r \in DeployRequests, NEW w \in Worlds, Deploy(r, w)
  PROVE  RunInv'
<1> DEFINE new   == Overridden(r)
           tree  == TreeAfter(r, new, w)
           from  == [branch |-> tree.branch, dockerfile_path |-> new.dockerfile_path,
                     source_dir |-> new.source_dir]
           built == Passes(BuildChecks(new, w))
           runs  == Passes(DeployChecks(new, w))
<1>1. new \in Row
  BY OverriddenType DEF Deploy, RunInv, RowOK
<1>2. /\ row' = [new EXCEPT !.status = IF runs THEN "running" ELSE "error"]
      /\ dir' = tree
      /\ image' = IF built THEN from ELSE image
      /\ container' =
           IF built /\ w.port /\ NameFree(w) /\ w.run # "refused"
           THEN [up |-> w.run = "up", image |-> from, container_port |-> new.container_port,
                 env |-> IF r.env = None THEN NoEnv ELSE r.env]
           ELSE ContainerBeforeRun(built, w)
  BY DEF Deploy
<1>3. runs => /\ built /\ Passes(RepoChecks(new.url, w)) /\ w.clones
              /\ new.branch \in w.branches \cup w.paths
              /\ w.port /\ NameFree(w) /\ w.run = "up"
  BY <1>1, RunsAfterBuild
<1>4. runs => tree.branch = new.branch \/ new.branch \in PathNames
  BY <1>3 DEF TreeAfter, PathNames
<1> HIDE DEF new, tree, built, runs
<1>5. /\ row' \in Row
      /\ row'.status = IF runs THEN "running" ELSE "error"
      /\ row'.branch = new.branch /\ row'.dockerfile_path = new.dockerfile_path
      /\ row'.source_dir = new.source_dir /\ row'.container_port = new.container_port
  BY <1>1, <1>2 DEF Row
<1>6. row' # NoRow
  BY <1>5, NoRowIsNone
<1>7. runs => /\ container' = [up |-> TRUE, image |-> from, container_port |-> new.container_port,
                              env |-> IF r.env = None THEN NoEnv ELSE r.env]
              /\ image' = from
  BY <1>2, <1>3
<1>8. NoOutdatedContainer'
  BY <1>5, <1>7 DEF NoOutdatedContainer
<1>9. RunsAsStored'
  BY <1>2, <1>4, <1>5, <1>7 DEF RunsAsStored, PathNames
<1> QED BY <1>5, <1>6, <1>8, <1>9 DEF RunInv, RowOK

LEMMA RunInvHolds == Spec => []RunInv
<1>1. Init => RunInv
  BY DEF Init, RunInv, RowOK, RunsAsStored, NoOutdatedContainer
<1>2. RunInv /\ [Next]_rvars => RunInv'
  <2> SUFFICES ASSUME RunInv, [Next]_rvars
               PROVE  RunInv'
    OBVIOUS
  <2>1. CASE UNCHANGED rvars
    BY <2>1 DEF rvars, RunInv, RowOK, RunsAsStored, NoOutdatedContainer
  <2>2. ASSUME NEW r \in DeployRequests, Refuse(r)
        PROVE  RunInv'
    BY <2>2 DEF Refuse, RunInv, RowOK, RunsAsStored, NoOutdatedContainer
  <2> QED BY <2>1, <2>2, CreateKeeps, DeployKeeps DEF Next
<1> QED BY <1>1, <1>2, PTL DEF Spec

(***************************************************************************)
(* For any requests, repositories and failures, a running app runs the     *)
(* branch, the Dockerfile and the directory its row names, on the port of  *)
(* its row; the branch unless a repository has a path of that name.        *)
(***************************************************************************)
THEOREM RunningAsStored == Spec => []RunsAsStored
<1>1. RunInv => RunsAsStored
  BY DEF RunInv
<1> QED BY <1>1, RunInvHolds, PTL

(***************************************************************************)
(* For any requests and failures, those of docker ps and docker rm         *)
(* included, a container that does not come from the app's last image is   *)
(* there only while the app says error.                                    *)
(***************************************************************************)
THEOREM ContainerIsCurrent == Spec => []NoOutdatedContainer
<1>1. RunInv => NoOutdatedContainer
  BY DEF RunInv
<1> QED BY <1>1, RunInvHolds, PTL

(***************************************************************************)
(* AppRequests keeps its types.  What a failed deployment leaves is of the *)
(* right kind too, and every reply has a status of HTTP.                   *)
(***************************************************************************)
THEOREM TypeCorrect == Spec => []TypeOK
<1>1. Init => TypeOK
  BY AppRequestsAssumption DEF Init, TypeOK, NoDir, NoContainer
<1>2. RunInv' /\ RunInv /\ TypeOK /\ [Next]_rvars => TypeOK'
  <2> SUFFICES ASSUME RunInv', RunInv, TypeOK, [Next]_rvars
               PROVE  TypeOK'
    OBVIOUS
  <2> DEFINE rowOK == \/ row = NoRow
                      \/ /\ row.status \in {"created", "running", "error"}
                         /\ row.branch \in Branches
                         /\ {row.source_dir, row.dockerfile_path} \subseteq Paths
                         /\ row.env \in Envs
             outside == /\ dir.env \in Envs
                        /\ container.env \in Envs
                        /\ container # NoContainer => container.image # NoImage
  <2>1. rowOK'
    BY DEF RunInv, RowOK, Row
  <2>2. CASE UNCHANGED rvars
    BY <2>2 DEF rvars, TypeOK
  <2>3. ASSUME NEW r \in CreateRequests, NEW w \in Worlds, Create(r, w)
        PROVE  TypeOK'
    <3>1. CreateChecks(r, w) \in Seq(Check)
      BY CreateChecksAre
    <3>2. reply'.status \in 200..599
      BY <2>3, <3>1, ErrorType, StatusType DEF Create, Reply
    <3>3. outside'
      BY <2>3 DEF Create, TypeOK
    <3> QED BY <2>1, <3>2, <3>3 DEF TypeOK
  <2>4. ASSUME NEW r \in DeployRequests, NEW w \in Worlds, Deploy(r, w)
        PROVE  TypeOK'
    <3> DEFINE new == Overridden(r)
    <3>1. new \in Row
      BY <2>4, OverriddenType DEF Deploy, RunInv, RowOK
    <3>2. DeployChecks(new, w) \in Seq(Check)
      BY <3>1, DeployChecksType
    <3>3. reply'.status \in 200..599
      BY <2>4, <3>2, ErrorType, StatusType DEF Deploy, Reply
    <3> HIDE DEF new
    <3>4. r.env \in Envs \cup {None}
      BY <2>4 DEF Deploy, DeploySchema
    <3>5. dir'.env \in Envs
      <4>1. dir' = TreeAfter(r, new, w)
        BY <2>4 DEF Deploy, new
      <4> QED BY <3>4, <4>1, AppRequestsAssumption DEF TreeAfter, NoDir, TypeOK
    <3>6. container'.env \in Envs /\ (container' # NoContainer => container'.image # NoImage)
      <4> DEFINE tree == TreeAfter(r, new, w)
                 from == [branch |-> tree.branch, dockerfile_path |-> new.dockerfile_path,
                          source_dir |-> new.source_dir]
      <4>1. \/ container' = [up |-> w.run = "up", image |-> from,
                            container_port |-> new.container_port,
                            env |-> IF r.env = None THEN NoEnv ELSE r.env]
            \/ container' \in {NoContainer, container}
        BY <2>4 DEF Deploy, ContainerBeforeRun, new
      <4>2. from # NoImage
        <5>1. new.dockerfile_path # None
          BY <3>1, AppRequestsAssumption DEF Row
        <5> QED BY <5>1 DEF NoImage
      <4> HIDE DEF from
      <4> QED BY <3>4, <4>1, <4>2, AppRequestsAssumption DEF TypeOK, NoContainer
    <3> QED BY <2>1, <3>3, <3>5, <3>6 DEF TypeOK
  <2>5. ASSUME NEW r \in DeployRequests, Refuse(r)
        PROVE  TypeOK'
    <3>1. reply'.status \in 200..599
      BY <2>5, StatusType DEF Refuse, Reply, Errors
    <3>2. outside'
      BY <2>5 DEF Refuse, TypeOK
    <3> QED BY <2>1, <3>1, <3>2 DEF TypeOK
  <2> QED BY <2>2, <2>3, <2>4, <2>5 DEF Next
<1> QED BY <1>1, <1>2, RunInvHolds, PTL DEF Spec

--------------------------------------------------------------------------------
(* The reply to a request to create an app *)

Answered ==
  \/ reply.to = <<>>
  \/ \E r \in CreateRequests, w \in Worlds :
       reply = [status |-> StatusCode[FirstError(CreateChecks(r, w))], to |-> <<r>>]

LEMMA AnsweredHolds == Spec => []Answered
<1>1. Init => Answered
  BY DEF Init, Answered
<1>2. Answered /\ [Next]_rvars => Answered'
  <2> SUFFICES ASSUME Answered, [Next]_rvars
               PROVE  Answered'
    OBVIOUS
  <2>1. CASE UNCHANGED rvars
    BY <2>1 DEF rvars, Answered
  <2>2. ASSUME NEW r \in CreateRequests, NEW w \in Worlds, Create(r, w)
        PROVE  Answered'
    BY <2>2 DEF Create, Reply, Answered
  <2>3. ASSUME NEW r \in DeployRequests, NEW w \in Worlds, Deploy(r, w)
        PROVE  Answered'
    BY <2>3 DEF Deploy, Reply, Answered
  <2>4. ASSUME NEW r \in DeployRequests, Refuse(r)
        PROVE  Answered'
    BY <2>4 DEF Refuse, Reply, Answered
  <2> QED BY <2>1, <2>2, <2>3, <2>4 DEF Next
<1> QED BY <1>1, <1>2, PTL DEF Spec

(***************************************************************************)
(* A 5xx comes from GitHub or from the INSERT, after the checks that blame *)
(* the request alone have passed.                                          *)
(***************************************************************************)
LEMMA ServerErrorIs ==
  ASSUME NEW r \in CreateRequests, NEW w \in Worlds,
         StatusCode[FirstError(CreateChecks(r, w))] >= 500
  PROVE  CreateSchema(r) /\ r.url.github /\ Len(r.url.path) = 2
<1> DEFINE c == CreateChecks(r, w)
<1>1. ~Passes(c)
  BY DEF FirstError, StatusCode, None
<1>2. c \in Seq(Check) /\ Len(c) = 9
  BY CreateChecksAre
<1>3. PICK i \in DOMAIN c : /\ \A j \in 1..(i - 1) : c[j][1]
                            /\ FirstError(c) = c[i][2]
  BY <1>1, <1>2, FirstErrorIs
<1>4. i \in 1..9
  BY <1>2
<1>5. i \notin {1, 2, 3, 4}
  <2>1. /\ c[1][2] = "Validation" /\ c[2][2] = "InvalidRepoURL"
        /\ c[3][2] = "MalformedRepoURL" /\ c[4][2] = "UnexpectedRepoURLFormat"
    BY CreateChecksAre
  <2>2. \A e \in {"Validation", "InvalidRepoURL", "MalformedRepoURL", "UnexpectedRepoURLFormat"} :
          ~(StatusCode[e] >= 500)
    BY DEF StatusCode
  <2> HIDE DEF c
  <2>3. StatusCode[c[i][2]] >= 500
    BY <1>3 DEF c
  <2> QED BY <2>1, <2>2, <2>3
<1>6. c[1][1] /\ c[2][1] /\ c[3][1] /\ c[4][1]
  <2>1. 1 \in 1..(i - 1) /\ 2 \in 1..(i - 1) /\ 3 \in 1..(i - 1) /\ 4 \in 1..(i - 1)
    BY <1>4, <1>5
  <2> QED BY <1>3, <2>1, Zenon
<1>7. /\ c[1][1] = CreateSchema(r) /\ c[2][1] = r.url.github
      /\ c[3][1] = (Len(r.url.path) >= 2) /\ c[4][1] = (Len(r.url.path) <= 2)
  BY CreateConditions, Zenon
<1>8. Len(r.url.path) \in Nat
  BY AppRequestsAssumption
<1>9. /\ CreateSchema(r) /\ r.url.github
      /\ Len(r.url.path) >= 2 /\ Len(r.url.path) <= 2
  BY <1>6, <1>7, Zenon
<1>10. Len(r.url.path) = 2
  <2> DEFINE n == Len(r.url.path)
  <2>1. n \in Nat /\ n >= 2 /\ n <= 2
    BY <1>8, <1>9, Zenon
  <2> HIDE DEF n
  <2>2. n = 2
    BY <2>1
  <2> QED BY <2>2 DEF n
<1> QED BY <1>9, <1>10, Zenon

LEMMA OtherPorts ==
  ASSUME NEW r \in CreateRequests, CreateSchema(r), r.container_port \notin 1..1023
  PROVE  PortConstraint(r)
<1>1. r.container_port \in Nat
  BY AppRequestsAssumption
<1> QED BY <1>1 DEF CreateSchema, PortConstraint

LEMMA PublicPasses ==
  ASSUME NEW r \in CreateRequests, NEW w \in Worlds, w.github = "public",
         CreateSchema(r), r.url.github, Len(r.url.path) = 2, PortConstraint(r)
  PROVE  Passes(CreateChecks(r, w))
<1> DEFINE c == CreateChecks(r, w)
<1>1. c \in Seq(Check) /\ Len(c) = 9
  BY CreateChecksAre
<1>2. /\ c[1][1] = CreateSchema(r) /\ c[2][1] = r.url.github
      /\ c[3][1] = (Len(r.url.path) >= 2) /\ c[4][1] = (Len(r.url.path) <= 2)
      /\ c[5][1] = (w.github # "down") /\ c[6][1] = (w.github # "404")
      /\ c[7][1] = (w.github # "limited") /\ c[8][1] = (w.github # "private")
      /\ c[9][1] = PortConstraint(r)
  BY CreateConditions, Zenon
<1>3. /\ Len(r.url.path) >= 2 /\ Len(r.url.path) <= 2
      /\ w.github # "down" /\ w.github # "404" /\ w.github # "limited" /\ w.github # "private"
  OBVIOUS
<1> HIDE DEF c
<1>4. c[1][1] /\ c[2][1] /\ c[3][1] /\ c[4][1] /\ c[5][1] /\ c[6][1] /\ c[7][1] /\ c[8][1] /\ c[9][1]
  BY <1>2, <1>3, Zenon
<1>5. \A i \in 1..9 : c[i][1]
  <2>1. \A i \in 1..9 : i = 1 \/ i = 2 \/ i = 3 \/ i = 4 \/ i = 5 \/ i = 6 \/ i = 7 \/ i = 8 \/ i = 9
    OBVIOUS
  <2> QED BY <1>4, <2>1, Zenon
<1>6. DOMAIN c = 1..9
  BY <1>1
<1> QED BY <1>5, <1>6 DEF Passes, c

LEMMA LowPortFails ==
  ASSUME NEW r \in CreateRequests, NEW w \in Worlds, r.container_port \in 1..1023
  PROVE  ~Passes(CreateChecks(r, w))
<1> DEFINE c == CreateChecks(r, w)
<1>1. 9 \in DOMAIN c
  BY CreateChecksAre
<1>2. c[9][1] = PortConstraint(r)
  BY CreateConditions, Zenon
<1>3. ~PortConstraint(r)
  BY DEF PortConstraint
<1> HIDE DEF c
<1> QED BY <1>1, <1>2, <1>3 DEF Passes, c

(***************************************************************************)
(* For any requests and failures, a request to create an app that was      *)
(* answered with a 5xx is at fault if and only if its port is one of those *)
(* the schema accepts and the table rejects: any other passes when GitHub  *)
(* answers as it should, and these never do.                               *)
(***************************************************************************)
THEOREM ServerErrorsAreTheServers ==
  ASSUME \E w \in Worlds : w.github = "public"
  PROVE  Spec => []ServerErrorsPass
<1>1. Answered => ServerErrorsPass
  <2> SUFFICES ASSUME Answered, reply.status >= 500, reply.to # <<>>
               PROVE  (\E w \in Worlds : Passes(CreateChecks(reply.to[1], w)))
                        <=> reply.to[1].container_port \notin 1..1023
    BY DEF ServerErrorsPass
  <2>1. PICK r \in CreateRequests, w \in Worlds :
          reply = [status |-> StatusCode[FirstError(CreateChecks(r, w))], to |-> <<r>>]
    BY DEF Answered
  <2>2. reply.to[1] = r /\ StatusCode[FirstError(CreateChecks(r, w))] >= 500
    BY <2>1
  <2>3. ASSUME r.container_port \notin 1..1023
        PROVE  \E v \in Worlds : Passes(CreateChecks(r, v))
    <3>1. CreateSchema(r) /\ r.url.github /\ Len(r.url.path) = 2
      BY <2>2, ServerErrorIs
    <3>2. PortConstraint(r)
      BY <2>3, <3>1, OtherPorts, Zenon
    <3>3. PICK v \in Worlds : v.github = "public"
      OBVIOUS
    <3> QED BY <3>1, <3>2, <3>3, PublicPasses
  <2>4. ASSUME r.container_port \in 1..1023
        PROVE  ~ \E v \in Worlds : Passes(CreateChecks(r, v))
    BY <2>4, LowPortFails, Zenon
  <2>5. (\E v \in Worlds : Passes(CreateChecks(r, v))) <=> r.container_port \notin 1..1023
    BY <2>3, <2>4, Zenon
  <2> QED BY <2>2, <2>5
<1> QED BY <1>1, AnsweredHolds, PTL

--------------------------------------------------------------------------------
(* The name asked about and the name cloned *)

(***************************************************************************)
(* Where ".git" is the last piece or none, taking it out everywhere is     *)
(* taking it off the end.  kept[i] is what is left of the first i pieces:  *)
(* they themselves, up to the last but one.                                *)
(***************************************************************************)
LEMMA NamesAgree ==
  ASSUME NEW s \in Seq(STRING), s # <<>>, ~GitInside(s)
  PROVE  CheckedName(s) = ClonedName(s)
<1> DEFINE n    == Len(s)
           D(g) == [i \in 0..Len(s) |->
                      IF i = 0 THEN <<>>
                      ELSE IF s[i] = ".git" THEN g[i - 1] ELSE Append(g[i - 1], s[i])]
           kept == CHOOSE g : g = D(g)
           want == [i \in 0..n |-> IF i < n \/ s[n] # ".git" THEN SubSeq(s, 1, i)
                                                              ELSE SubSeq(s, 1, i - 1)]
<1>1. CheckedName(s) = kept[n]
  BY DEF CheckedName
<1>2. n \in Nat /\ n > 0
  OBVIOUS
<1>3. \A i \in 1..n : SubSeq(s, 1, i) = Append(SubSeq(s, 1, i - 1), s[i])
  OBVIOUS
<1>4. /\ SubSeq(s, 1, 0) = <<>> /\ SubSeq(s, 1, n) = s
      /\ \A i \in 1..(n - 1) : s[i] # ".git"
  BY DEF GitInside
<1>5. want = D(want)
  <2>1. ASSUME NEW i \in 0..n
        PROVE  want[i] = D(want)[i]
    <3>1. CASE i = 0
      BY <1>2, <1>4, <3>1
    <3>2. CASE i > 0 /\ i < n
      <4>1. want[i - 1] = SubSeq(s, 1, i - 1) /\ want[i] = SubSeq(s, 1, i) /\ s[i] # ".git"
        BY <1>2, <1>4, <3>2
      <4>2. D(want)[i] = Append(want[i - 1], s[i])
        BY <3>2, <4>1
      <4> QED BY <1>3, <3>2, <4>1, <4>2
    <3>3. CASE i = n
      <4>1. want[n - 1] = SubSeq(s, 1, n - 1)
        BY <1>2
      <4>2. want[n] = IF s[n] # ".git" THEN SubSeq(s, 1, n) ELSE SubSeq(s, 1, n - 1)
        BY <1>2
      <4>3. D(want)[n] = IF s[n] = ".git" THEN want[n - 1] ELSE Append(want[n - 1], s[n])
        BY <1>2
      <4> HIDE DEF want, D
      <4>4. SubSeq(s, 1, n) = Append(SubSeq(s, 1, n - 1), s[n])
        <5>1. n \in 1..n
          BY <1>2
        <5> QED BY <1>3, <5>1, Zenon
      <4> QED BY <3>3, <4>1, <4>2, <4>3, <4>4
    <3> QED BY <1>2, <3>1, <3>2, <3>3
  <2> QED BY <2>1
<1>6. kept = D(kept)
  <2> HIDE DEF want, D
  <2> QED BY <1>5
<1> DEFINE S == {i \in Nat : i <= n => kept[i] = want[i]}
<1>7. 0 \in S
  <2> HIDE DEF kept
  <2>1. kept[0] = <<>>
    BY <1>2, <1>6
  <2>2. want[0] = <<>>
    BY <1>2, <1>4
  <2> QED BY <2>1, <2>2
<1>8. ASSUME NEW i \in Nat, i \in S
      PROVE  i + 1 \in S
  <2> SUFFICES ASSUME i + 1 <= n
               PROVE  kept[i + 1] = want[i + 1]
    OBVIOUS
  <2> HIDE DEF kept, want
  <2>1. kept[i] = want[i]
    <3>1. i <= n
      BY <1>2
    <3> QED BY <1>8, <3>1
  <2>2. i + 1 \in 0..n /\ i + 1 # 0 /\ (i + 1) - 1 = i
    BY <1>2
  <2>3. kept[i + 1] = IF s[i + 1] = ".git" THEN kept[i] ELSE Append(kept[i], s[i + 1])
    BY <1>6, <2>2
  <2>4. want[i + 1] = IF s[i + 1] = ".git" THEN want[i] ELSE Append(want[i], s[i + 1])
    BY <1>5, <2>2
  <2> QED BY <2>1, <2>3, <2>4
<1>9. kept[n] = want[n]
  <2> HIDE DEF S
  <2>1. n \in S
    BY <1>2, <1>7, <1>8, SetInduction
  <2> QED BY <2>1 DEF S
<1>10. ClonedName(s) = want[n]
  <2>1. want[n] = IF s[n] # ".git" THEN SubSeq(s, 1, n) ELSE SubSeq(s, 1, n - 1)
    BY <1>2
  <2> HIDE DEF want
  <2> QED BY <1>4, <2>1 DEF ClonedName, Last, Front
<1> QED BY <1>1, <1>9, <1>10

(***************************************************************************)
(* The recursion of CheckedName has a solution for every name: that for    *)
(* the first n pieces extends to the next one.                             *)
(***************************************************************************)
Dropped(s, n, g) ==
  [i \in 0..n |-> IF i = 0 THEN <<>>
                  ELSE IF s[i] = ".git" THEN g[i - 1] ELSE Append(g[i - 1], s[i])]

LEMMA DroppedExists ==
  ASSUME NEW s
  PROVE  \A n \in Nat : \E g : g = Dropped(s, n, g)
<1> DEFINE S == {n \in Nat : \E g : g = Dropped(s, n, g)}
<1>1. 0 \in S
  <2> DEFINE g == [i \in 0..0 |-> <<>>]
  <2>1. g = Dropped(s, 0, g)
    BY DEF Dropped
  <2> QED BY <2>1
<1>2. ASSUME NEW n \in Nat, n \in S
      PROVE  n + 1 \in S
  <2>1. PICK g : g = Dropped(s, n, g)
    BY <1>2
  <2> DEFINE h == [i \in 0..(n + 1) |->
                     IF i # n + 1 THEN g[i]
                     ELSE IF s[i] = ".git" THEN g[n] ELSE Append(g[n], s[i])]
  <2>2. ASSUME NEW i \in 0..(n + 1)
        PROVE  h[i] = Dropped(s, n + 1, h)[i]
    <3>1. CASE i = 0
      <4>1. h[i] = g[i] /\ i \in 0..n
        BY <3>1
      <4> QED BY <2>1, <3>1, <4>1 DEF Dropped
    <3>2. CASE i # 0 /\ i # n + 1
      <4>1. i \in 0..n /\ i - 1 \in 0..(n + 1) /\ i - 1 # n + 1
        BY <3>2
      <4>2. h[i] = g[i] /\ h[i - 1] = g[i - 1]
        BY <3>2, <4>1
      <4>3. g[i] = IF s[i] = ".git" THEN g[i - 1] ELSE Append(g[i - 1], s[i])
        BY <2>1, <3>2, <4>1 DEF Dropped
      <4> HIDE DEF h
      <4> QED BY <3>2, <4>2, <4>3 DEF Dropped
    <3>3. CASE i = n + 1
      <4>1. n \in 0..(n + 1) /\ n # n + 1 /\ i # 0 /\ i - 1 = n
        BY <3>3
      <4>2. h[n] = g[n]
        BY <4>1
      <4>3. h[i] = IF s[i] = ".git" THEN g[n] ELSE Append(g[n], s[i])
        BY <3>3
      <4> HIDE DEF h
      <4> QED BY <4>1, <4>2, <4>3 DEF Dropped
    <3> QED BY <3>1, <3>2, <3>3
  <2>3. h = Dropped(s, n + 1, h)
    BY <2>2 DEF Dropped
  <2> QED BY <2>3
<1>3. Nat \subseteq S
  <2> HIDE DEF S
  <2> QED BY <1>1, <1>2, SetInduction
<1> QED BY <1>3

(***************************************************************************)
(* No piece ".git" is left in the name that is asked about, and one that   *)
(* is not the last piece is left in the name that is cloned.               *)
(***************************************************************************)
LEMMA NoGitLeft ==
  ASSUME NEW s \in Seq(STRING)
  PROVE  \A j \in DOMAIN CheckedName(s) : CheckedName(s)[j] # ".git"
<1> DEFINE n     == Len(s)
           kept  == CHOOSE g : g = Dropped(s, Len(s), g)
           Clean == Seq(STRING \ {".git"})
           S     == {i \in Nat : i <= n => kept[i] \in Clean}
<1>1. CheckedName(s) = kept[n]
  BY DEF CheckedName, Dropped
<1>2. n \in Nat
  OBVIOUS
<1>3. kept = Dropped(s, n, kept)
  BY <1>2, DroppedExists
<1> HIDE DEF kept
<1>4. 0 \in S
  <2>1. kept[0] = <<>>
    BY <1>2, <1>3 DEF Dropped
  <2>2. <<>> \in Clean
    OBVIOUS
  <2> HIDE DEF Clean
  <2> QED BY <2>1, <2>2
<1>5. ASSUME NEW i \in Nat, i \in S
      PROVE  i + 1 \in S
  <2> SUFFICES ASSUME i + 1 <= n
               PROVE  kept[i + 1] \in Clean
    OBVIOUS
  <2>1. i <= n /\ i + 1 \in 0..n /\ i + 1 # 0 /\ (i + 1) - 1 = i /\ s[i + 1] \in STRING
    BY <1>2
  <2>2. kept[i] \in Clean
    BY <1>5, <2>1
  <2>3. kept[i + 1] = IF s[i + 1] = ".git" THEN kept[i] ELSE Append(kept[i], s[i + 1])
    BY <1>3, <2>1 DEF Dropped
  <2>4. \A t \in Clean : s[i + 1] # ".git" => Append(t, s[i + 1]) \in Clean
    BY <2>1
  <2> HIDE DEF Clean
  <2> QED BY <2>2, <2>3, <2>4
<1>6. n \in S
  <2> HIDE DEF S
  <2> QED BY <1>2, <1>4, <1>5, SetInduction
<1> QED BY <1>1, <1>2, <1>6

LEMMA GitIsCloned ==
  ASSUME NEW s \in Seq(STRING), GitInside(s)
  PROVE  \E j \in DOMAIN ClonedName(s) : ClonedName(s)[j] = ".git"
<1>1. PICK i \in 1..(Len(s) - 1) : s[i] = ".git"
  BY DEF GitInside
<1>2. Len(s) \in Nat /\ i \in DOMAIN s
  BY <1>1
<1>3. CASE Last(s) = ".git"
  <2>1. ClonedName(s) = SubSeq(s, 1, Len(s) - 1)
    BY <1>3 DEF ClonedName, Front
  <2>2. i \in DOMAIN SubSeq(s, 1, Len(s) - 1) /\ SubSeq(s, 1, Len(s) - 1)[i] = s[i]
    BY <1>2
  <2> QED BY <1>1, <2>1, <2>2
<1>4. CASE Last(s) # ".git"
  BY <1>1, <1>2, <1>4 DEF ClonedName
<1> QED BY <1>3, <1>4

LEMMA CheckedIsCloned ==
  ASSUME NEW s \in Seq(STRING), s # <<>>
  PROVE  CheckedName(s) = ClonedName(s) <=> ~GitInside(s)
  BY NamesAgree, NoGitLeft, GitIsCloned

LEMMA PassedHasName ==
  ASSUME NEW r \in CreateRequests, NEW w \in Worlds, Passes(CreateChecks(r, w))
  PROVE  Len(r.url.path) = 2 /\ r.url.path[2] \in Seq(STRING) /\ r.url.path[2] # <<>>
<1> DEFINE c == CreateChecks(r, w)
           n == Len(r.url.path)
<1>1. 3 \in DOMAIN c /\ 4 \in DOMAIN c
  BY CreateChecksAre
<1>2. c[3][1] = (n >= 2) /\ c[4][1] = (n <= 2)
  BY CreateConditions, Zenon
<1>3. c[3][1] /\ c[4][1]
  BY <1>1 DEF Passes
<1>4. n >= 2 /\ n <= 2
  BY <1>2, <1>3, Zenon
<1>5. r.url.path \in Seq(Seq(STRING) \ {<<>>})
  BY AppRequestsAssumption, Zenon
<1>6. n \in Nat
  BY <1>5
<1> HIDE DEF n, c
<1>7. n = 2
  BY <1>4, <1>6
<1>8. r.url.path[2] \in Seq(STRING) \ {<<>>}
  BY <1>5, <1>7 DEF n
<1> QED BY <1>7, <1>8, Zenon DEF n

NamesInv ==
  row # NoRow => LET name == row.url.path[2] IN
                 /\ name \in Seq(STRING) /\ name # <<>>
                 /\ checked = <<CheckedName(name), ClonedName(name)>>

(***************************************************************************)
(* The repository that was found public is the one that is cloned if and   *)
(* only if ".git" does not stand inside its name, for names of any length  *)
(* and through any deployments.                                            *)
(***************************************************************************)
THEOREM ClonesWhatItChecked == Spec => []ChecksTheRepoItClones
<1>1. Init => NamesInv
  BY DEF Init, NamesInv
<1>2. RunInv /\ NamesInv /\ [Next]_rvars => NamesInv'
  <2> SUFFICES ASSUME RunInv, NamesInv, [Next]_rvars
               PROVE  NamesInv'
    OBVIOUS
  <2>1. ASSUME NEW r \in CreateRequests, NEW w \in Worlds, Create(r, w)
        PROVE  NamesInv'
    <3>1. CASE Passes(CreateChecks(r, w))
      <4>1. row'.url = r.url
        BY <2>1, <3>1 DEF Create
      <4>2. checked' = <<CheckedName(r.url.path[2]), ClonedName(r.url.path[2])>>
        BY <2>1, <3>1 DEF Create
      <4> QED BY <3>1, <4>1, <4>2, PassedHasName DEF NamesInv
    <3>2. CASE ~Passes(CreateChecks(r, w))
      BY <2>1, <3>2 DEF Create, NamesInv
    <3> QED BY <3>1, <3>2
  <2>2. ASSUME NEW r \in DeployRequests, NEW w \in Worlds, Deploy(r, w)
        PROVE  NamesInv'
    <3>1. row \in Row /\ row # NoRow
      BY <2>2 DEF Deploy, RunInv, RowOK
    <3>2. row'.url = row.url
      BY <2>2, <3>1 DEF Deploy, Overridden, Row
    <3>3. checked' = checked
      BY <2>2 DEF Deploy
    <3> QED BY <3>1, <3>2, <3>3 DEF NamesInv
  <2>3. CASE UNCHANGED <<row, checked>>
    BY <2>3 DEF NamesInv
  <2> QED BY <2>1, <2>2, <2>3 DEF Next, Refuse, rvars
<1>3. NamesInv => ChecksTheRepoItClones
  BY CheckedIsCloned DEF NamesInv, ChecksTheRepoItClones
<1> QED BY <1>1, <1>2, <1>3, RunInvHolds, PTL DEF Spec
==================================================================================
