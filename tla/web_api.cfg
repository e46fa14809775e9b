SPECIFICATION ApiSpec
CONSTANTS
  Clients = {c1, c2}
  Names = {ann, bob}
  Passwords = {old, new}
  MaxClock = 2
  MaxTries = 3
  Ttl = 2
  FreeAttempts = 1
  MaxDelay = 2
  ForgetAfter = 1
  MaxKeys = 3
  NoCookie = NoCookie
  MaxBytes = 3
  Lengths <- MCLengths
  Sizes <- MCSizes
  None = None
  MaxReads = 4
  MaxParts = 2
INVARIANTS SetupOnlyRaces ThrottleHolds BodyLimitIsExact
PROPERTY ChangeDecides
SYMMETRY Symmetry
CHECK_DEADLOCK FALSE
