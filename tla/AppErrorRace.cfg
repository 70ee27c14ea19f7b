SPECIFICATION Spec
SYMMETRY RequestSymmetry
PROPERTY ErrorRecorded
CONSTANTS
  r1 = r1
  r2 = r2
  MaxId = 2
  Ports = {10000, 10001}
  Branches = {"main"}
  UniquePort = TRUE
  ReuseIds = FALSE
  Cids = {1, 2, 3, 4}
  HostPorts = {}
  Requests = {r1, r2}
  DefaultBranch = "main"
  Ops = {"create", "deploy"}
  OnePerApp = TRUE
  ProbeSeesHost = TRUE
  NginxEnabled = TRUE
  FaultKinds = {}
  MaxFaults = 0
