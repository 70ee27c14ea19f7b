SPECIFICATION FairSpec
INVARIANT WaitingHasCode
INVARIANT ResetOnce
PROPERTY GetsVerified
CONSTANTS
  r1 = r1
  RedisKeys <- Keys
  RedisValues <- Stored
  RedisEnabled = TRUE
  MaxUser = 2
  ReuseIds = FALSE
  Emails = {"e1"}
  Names = {"n1"}
  Passwords = {"p1", "p2"}
  Codes = {"c1", "c2"}
  Tokens = {"t1", "t2"}
  Requests = {r1}
  Ops = {"register", "verify", "resend", "login", "forgot", "reset", "remove"}
  OnePerAddress = TRUE
  FaultKinds = {"late", "db", "mail"}
  MaxFaults = 2
