SPECIFICATION Spec
INVARIANT RunsWithStoredEnv
CONSTANTS
  CreateRequests <- MCCreateRequests
  DeployRequests <- MCDeployRequests
  Worlds <- MCWorlds
  Names = {"app"}
  Branches = {"main", "dev", "docs"}
  Paths = {".", "web", "Dockerfile", "web/Dockerfile"}
  Envs = {"{}", "A=1", "A=2"}
  Ports = {0, 1, 1023, 1024, 65535, 65536}
  RepoNames <- GitNames
  DeployEnvs = {"{}", "A=2"}
