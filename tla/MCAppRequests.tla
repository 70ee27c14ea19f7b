------------------------------ MODULE MCAppRequests ------------------------------
(***************************************************************************)
(* Small instances of AppRequests: one request with each field at each of  *)
(* its interesting values, in worlds where one thing at a time goes wrong. *)
(***************************************************************************)
EXTENDS AppRequests

CONSTANTS Ports, RepoNames, DeployEnvs

Url(name) == [github |-> TRUE, path |-> <<<<"owner">>, name>>]

PlainCreate ==
  [name |-> "app", url |-> Url(<<"repo">>), container_port |-> 1024, branch |-> "main",
   source_dir |-> ".", dockerfile_path |-> "Dockerfile", env |-> "A=1"]

MCCreateRequests ==
  {PlainCreate}
    \cup {[PlainCreate EXCEPT !.name = "x"], [PlainCreate EXCEPT !.branch = "a..b"],
          [PlainCreate EXCEPT !.source_dir = "/etc"], [PlainCreate EXCEPT !.env = "A-B=1"],
          [PlainCreate EXCEPT !.url.github = FALSE], [PlainCreate EXCEPT !.url.path = <<<<"owner">>>>],
          [PlainCreate EXCEPT !.url.path = @ \o <<<<"tree">>>>]}
    \cup {[PlainCreate EXCEPT !.container_port = p] : p \in Ports}
    \cup {[PlainCreate EXCEPT !.url = Url(n)] : n \in RepoNames}

PlainDeploy ==
  [branch |-> None, source_dir |-> None, dockerfile_path |-> None, env |-> None,
   force_rebuild |-> FALSE]

MCDeployRequests ==
  {PlainDeploy}
    \cup {[PlainDeploy EXCEPT !.branch = b] : b \in {"main", "dev", "docs", "a..b"}}
    \cup {[PlainDeploy EXCEPT !.env = e] : e \in DeployEnvs}
    \cup {[PlainDeploy EXCEPT !.branch = "dev", !.force_rebuild = TRUE],
          [PlainDeploy EXCEPT !.dockerfile_path = "web/Dockerfile", !.source_dir = "web"]}

\* the repository has the branches main and dev and a directory docs
GoodWorld ==
  [github |-> "public", clones |-> TRUE, default |-> "main", branches |-> {"main", "dev"},
   paths |-> {"docs"}, files |-> {"Dockerfile", "web/Dockerfile"}, builds |-> TRUE, port |-> TRUE,
   removes |-> {"deploy_app", "docker_run"}, run |-> "up"]

\* docker ps or docker rm fails in both places or in the first, with a port and without
MCWorlds ==
  {GoodWorld}
    \cup {[GoodWorld EXCEPT !.github = g] : g \in {"down", "404", "private", "limited"}}
    \cup {[GoodWorld EXCEPT !.clones = FALSE], [GoodWorld EXCEPT !.branches = {"main"}],
          [GoodWorld EXCEPT !.files = {"Dockerfile"}], [GoodWorld EXCEPT !.builds = FALSE]}
    \cup {[GoodWorld EXCEPT !.removes = d, !.port = p] :
            d \in {{}, {"docker_run"}, {"deploy_app"}}, p \in BOOLEAN}
    \cup {[GoodWorld EXCEPT !.port = FALSE]}
    \cup {[GoodWorld EXCEPT !.run = o] : o \in {"created", "refused"}}

GitNames == {<<"repo", ".git">>, <<"owner", ".git", "hub.io", ".git">>}
================================================================================
