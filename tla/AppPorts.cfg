SPECIFICATION USpec
SYMMETRY RequestSymmetry
INVARIANT LeaseCoversContainer
INVARIANT AllocatedPortStaysFree
INVARIANT NoSharedLease
INVARIANT DeletedLeavesNothing
INVARIANT AppsHaveOwners
PROPERTY UserGoneAppsGone
PROPERTY ImplementsContract
CONSTANTS
  r1 = r1
  r2 = r2
  MaxId = 2
  Ports = {10000, 10001, 10002}
  Branches = {"main"}
  UniquePort = TRUE
  ReuseIds = TRUE
  Cids = {1, 2, 3, 4}
  HostPorts = {10000}
  Requests = {r1, r2}
  DefaultBranch = "main"
  Ops = {"create", "deploy", "delete"}
  OnePerApp = TRUE
  ProbeSeesHost = TRUE
  NginxEnabled = TRUE
  FaultKinds = {"ext", "conf", "fs", "db", "crash"}
  MaxFaults = 1
  Users = {"u1"}
  ForeignKeys = TRUE
