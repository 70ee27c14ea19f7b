SPECIFICATION Spec
SYMMETRY RequestSymmetry
INVARIANT AllUnderTheKey
INVARIANT LatestIsStored
INVARIANT OwnSecret
PROPERTY KeyFollowsRecords
PROPERTY ReadsLatest
CONSTANTS
  a1 = a1
  a2 = a2
  r1 = r1
  r2 = r2
  Apps = {a1, a2}
  Requests = {r1, r2}
  Keys = {"k1", "k2", "k3"}
  FirstKey = "k1"
  Values <- TwoSecretsEach
  MaxPk = 3
  Ops = {"store", "get", "delete", "rotate"}
  OneAtATime = TRUE
  FaultKinds = {"crash", "db"}
  MaxFaults = 3
