SPECIFICATION Spec
SYMMETRY AccountSymmetry
INVARIANT TypeOK
INVARIANT OneAccountEach
INVARIANT VerifiedByMail
INVARIANT SignedInVerified
PROPERTY NoAccountComesBack
CONSTANTS
  r1 = r1
  r2 = r2
  RedisKeys <- Keys
  RedisValues <- Stored
  RedisEnabled = TRUE
  MaxUser = 2
  ReuseIds = FALSE
  Emails = {"e1", "e2"}
  Names = {"n1"}
  Passwords = {"p1", "p2"}
  Codes = {"c1"}
  Tokens = {}
  Requests = {r1, r2}
  Ops = {"register", "verify", "login", "update", "remove"}
  OnePerAddress = FALSE
  FaultKinds = {"redis", "crash"}
  MaxFaults = 1
