SPECIFICATION Spec
SYMMETRY RequestSymmetry
INVARIANT DeletedLeavesNothing
INVARIANT RunningIsRouted
PROPERTY ErrorRecorded
PROPERTY ImplementsContract
CONSTANTS
  r1 = r1
  r2 = r2
  MaxId = 1
  Ports = {10000, 10001, 10002}
  Branches = {"main", "dev"}
  UniquePort = TRUE
  ReuseIds = TRUE
  Cids = {1, 2, 3, 4}
  HostPorts = {10000}
  Requests = {r1, r2}
  DefaultBranch = "main"
  Ops = {"create", "deploy", "delete", "admin_delete"}
  OnePerApp = TRUE
  ProbeSeesHost = TRUE
  NginxEnabled = TRUE
  FaultKinds = {"ext", "ps", "rm"}
  MaxFaults = 3
