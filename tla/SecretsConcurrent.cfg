SPECIFICATION Spec
SYMMETRY KeySymmetry
INVARIANT TypeOK
INVARIANT OneRecordEach
CONSTANTS
  a1 = a1
  a2 = a2
  r1 = r1
  r2 = r2
  Apps = {a1, a2}
  Requests = {r1, r2}
  Keys = {k1, k2}
  k1 = k1
  k2 = k2
  FirstKey = "no key"
  Values <- OneSecretEach
  MaxPk = 3
  Ops = {"store", "get", "delete", "rotate"}
  OneAtATime = FALSE
  FaultKinds = {"db", "crash"}
  MaxFaults = 1
