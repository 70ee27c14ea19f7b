------------------------------ MODULE DockerCommand ------------------------------
(***************************************************************************)
(* DockerCommandBuilder (app/services/docker_command_builder.py): a caller *)
(* strings calls together in any order, compile puts what they left in the *)
(* order docker wants.  An argument is a sequence of words: <<"-e">>, then *)
(* <<"K", "v">> for K=v; <<"--memory", "1g">> for --memory=1g.  How docker *)
(* reads its arguments is external.                                        *)
(***************************************************************************)
EXTENDS Naturals, Sequences

CONSTANTS
  Words,      \* what callers pass: names, ports, keys, values
  MaxCalls    \* bound: calls before compile

ASSUME DockerCommandAssumption ==
  /\ Words \subseteq STRING
  /\ MaxCalls \in Nat

VARIABLES
  kind,     \* "run" or "build": which builder
  parts,    \* parts[p]: the arguments collected in list p
  calls,
  asked     \* observation: asked[f]: the values the calls so far want for flag f

dvars == <<kind, parts, calls, asked>>

Parts == {"base", "options", "ports", "env_vars", "volumes", "image", "container_args",
          "tags", "labels", "build_args", "context"}

--------------------------------------------------------------------------------
(* docker's side *)

Bare   == {"-d", "--pull", "--no-cache"}
Spaced == {"-f", "-t", "--label", "--build-arg", "--name", "-p", "-e", "-v", "--restart"}
Joined == {"--progress", "--memory", "--cpus", "--health-cmd", "--health-interval",
           "--health-timeout", "--health-retries", "--log-driver", "--log-opt"}
Flags  == Bare \cup Spaced \cup Joined
Keyed  == {"-e", "--label", "--build-arg", "--log-opt"}   \* one value for each key
Listed == {"-t", "-p", "-v"}                              \* as many as there are
Operands == {"image", "args"}
Texts    == Words \cup Flags \cup {"docker", "run", "build", "json-file", "max-size", "max-file"}
Nothing  == [k \in Flags \cup Operands |-> IF k \in Flags THEN {} ELSE <<>>]

\* of two values for f the later counts, if there can be only one
Override(f, old, new) ==
  CASE f \in Listed -> {}
    [] f \in Keyed  -> {v \in old : v[1] = new[1]}
    [] OTHER        -> old

Want(values, f, v) == [values EXCEPT ![f] = (@ \ Override(f, @, v)) \cup {v}]

\* What docker makes of one argument: f is the flag whose value comes next, if any.
\* The first argument that is no flag is the image or context; what follows it is
\* the command in the container.
Take(reader, a) ==
  LET w == reader.values IN
  IF w["image"] # <<>>      THEN [f |-> "", values |-> [w EXCEPT !["args"] = Append(@, a)]]
  ELSE IF reader.f # ""     THEN [f |-> "", values |-> Want(w, reader.f, a)]
  ELSE IF a[1] \notin Flags THEN [f |-> "", values |-> [w EXCEPT !["image"] = a]]
  ELSE IF a[1] \in Spaced   THEN [f |-> a[1], values |-> w]
  ELSE                           [f |-> "", values |-> Want(w, a[1], Tail(a))]

\* docker run|build reads the arguments one after the other
Read(c) ==
  LET arguments == SubSeq(c, 3, Len(c))
      reader[i \in 0..Len(arguments)] ==
        IF i = 0 THEN [f |-> "", values |-> Nothing] ELSE Take(reader[i - 1], arguments[i])
  IN  reader[Len(arguments)].values

--------------------------------------------------------------------------------
(* The builders *)

\* The argument lists; a flag without a value is in them once
TypeOK ==
  /\ kind \in {"run", "build"}
  /\ parts \in [Parts -> Seq(Seq(Texts))]
  /\ LET options == parts["options"] IN
     \A f \in Bare : \A i, j \in DOMAIN options :
       options[i] = <<f>> /\ options[j] = <<f>> => i = j
  /\ calls \in 0..MaxCalls
  /\ DOMAIN asked = Flags \cup Operands

InitRun ==
  /\ kind = "run"
  /\ parts = [p \in Parts |-> IF p = "base" THEN <<<<"docker">>, <<"run">>>> ELSE <<>>]
  /\ asked = Nothing

InitBuild(path) ==
  /\ kind = "build"
  /\ parts = [p \in Parts |-> CASE p = "base"    -> <<<<"docker">>, <<"build">>>>
                                [] p = "context" -> <<<<path>>>>
                                [] OTHER         -> <<>>]
  /\ asked = [Nothing EXCEPT !["image"] = <<path>>]

Init == calls = 0 /\ (InitRun \/ \E path \in Words : InitBuild(path))

Call(k) ==
  /\ kind = k
  /\ calls < MaxCalls
  /\ calls' = calls + 1
  /\ UNCHANGED kind

Extend(p, arguments) == parts' = [parts EXCEPT ![p] = @ \o arguments]

\* -f value, -f=value, and the flags without a value, which go in once
WithSpaced(p, f, v) == Extend(p, <<<<f>>, v>>) /\ asked' = Want(asked, f, v)
WithJoined(f, v)    == Extend("options", <<<<f>> \o v>>) /\ asked' = Want(asked, f, v)

\* mutant: not looked for before it is added
WithBareAgain(f) == Extend("options", <<<<f>>>>) /\ asked' = Want(asked, f, <<>>)

WithBare(f) ==
  /\ IF \E i \in DOMAIN parts["options"] : parts["options"][i] = <<f>>
     THEN UNCHANGED parts
     ELSE Extend("options", <<<<f>>>>)
  /\ asked' = Want(asked, f, <<>>)

BuildCall(u, v) ==
  \/ WithSpaced("base", "-f", <<u>>)                     \* with_dockerfile
  \/ WithSpaced("tags", "-t", <<u>>)                     \* with_tag
  \/ WithSpaced("labels", "--label", <<u, v>>)           \* with_label
  \/ WithSpaced("build_args", "--build-arg", <<u, v>>)   \* with_build_arg
  \/ WithBare("--pull")                                  \* pull_latest_base_image
  \/ WithBare("--no-cache")                              \* without_cache
  \/ WithJoined("--progress", <<u>>)                     \* with_progress

\* memory and cpus may be empty, and are left out then
Limit(f, v)           == IF v = <<>> THEN <<>> ELSE <<<<f>> \o v>>
WantLimit(want, f, v) == IF v = <<>> THEN want ELSE Want(want, f, v)

WithResourceLimits(memory, cpus) ==
  /\ Extend("options", Limit("--memory", memory) \o Limit("--cpus", cpus))
  /\ asked' = WantLimit(WantLimit(asked, "--memory", memory), "--cpus", cpus)

WithHealthcheck(cmd, interval, timeout, retries) ==
  /\ Extend("options", <<<<"--health-cmd", cmd>>, <<"--health-interval", interval>>,
                         <<"--health-timeout", timeout>>, <<"--health-retries", retries>>>>)
  /\ asked' = Want(Want(Want(Want(asked, "--health-cmd", <<cmd>>),
                             "--health-interval", <<interval>>),
                        "--health-timeout", <<timeout>>),
                   "--health-retries", <<retries>>)

WithLogConfig(size, file) ==
  /\ Extend("options", <<<<"--log-driver", "json-file">>, <<"--log-opt", "max-size", size>>,
                         <<"--log-opt", "max-file", file>>>>)
  /\ asked' = Want(Want(Want(asked, "--log-driver", <<"json-file">>),
                        "--log-opt", <<"max-size", size>>),
                   "--log-opt", <<"max-file", file>>)

WithImage(u) ==
  /\ parts' = [parts EXCEPT !["image"] = <<<<u>>>>]
  /\ asked' = [asked EXCEPT !["image"] = <<u>>]

WithCommand(words) ==
  /\ parts' = [parts EXCEPT !["container_args"] = words]
  /\ asked' = [asked EXCEPT !["args"] = words]

RunCall(u, v) ==
  \/ WithBare("-d")                                      \* detached
  \/ WithSpaced("options", "--name", <<u>>)              \* with_name
  \/ WithSpaced("ports", "-p", <<u, v>>)                 \* with_port_mapping
  \/ WithSpaced("env_vars", "-e", <<u, v>>)              \* with_env
  \/ WithSpaced("volumes", "-v", <<u, v>>)               \* with_volume
  \/ WithSpaced("options", "--restart", <<u>>)           \* with_restart_policy
  \/ \E m, c \in {<<>>, <<u>>} : WithResourceLimits(m, c)
  \/ WithHealthcheck(u, v, v, u)
  \/ WithLogConfig(u, v)
  \/ WithImage(u)
  \/ \E words \in {<<<<u>>>>, <<<<u>>, <<"-d">>>>} : WithCommand(words)

Next == \E u, v \in Words : (Call("build") /\ BuildCall(u, v)) \/ (Call("run") /\ RunCall(u, v))

Spec == Init /\ [][Next]_dvars

--------------------------------------------------------------------------------

\* mutant: the image before the environment
CompileImageFirst(k) ==
  parts["base"] \o parts["options"] \o parts["image"] \o parts["context"] \o parts["ports"]
    \o parts["env_vars"] \o parts["volumes"] \o parts["container_args"]

Compile(k) ==
  IF k = "run"
  THEN parts["base"] \o parts["options"] \o parts["ports"] \o parts["env_vars"]
         \o parts["volumes"] \o parts["image"] \o parts["container_args"]
  ELSE parts["base"] \o parts["options"] \o parts["tags"] \o parts["labels"]
         \o parts["build_args"] \o parts["context"]

\* Whatever calls were made, in whatever order and however often, docker reads the
\* compiled command as what they asked for: the last value of a flag that takes
\* one, all values of one that is repeated, the image apart from the flags before
\* it and the command after it.  (Without an image compile raises.)
CompiledAsAsked == asked["image"] # <<>> => Read(Compile(kind)) = asked
================================================================================
