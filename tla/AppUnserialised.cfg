SPECIFICATION FairSpec
PROPERTY NoLostUpdate
PROPERTY NoResurrection
PROPERTY RequestsReturn
CONSTANTS
  r1 = r1
  r2 = r2
  MaxId = 1
  Ports = {10000, 10001}
  Branches = {"main"}
  UniquePort = TRUE
  ReuseIds = TRUE
  Cids = {1, 2, 3, 4}
  HostPorts = {10000}
  Requests = {r1, r2}
  DefaultBranch = "main"
  Ops = {"create", "deploy", "delete", "patch"}
  OnePerApp = FALSE
  ProbeSeesHost = TRUE
  NginxEnabled = FALSE
  FaultKinds = {"db"}
  MaxFaults = 1
