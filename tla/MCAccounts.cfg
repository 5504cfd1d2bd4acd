SPECIFICATION Spec
CONSTANTS
  Admin = a
  Users = {a, u}
  Browsers = {b1}
  None = None
  RecoveryCodes = 1
  SessionLife = 3
  ChallengeLife = 1
  PendingLife = 2
  Window = 2
  LoginLimit = 1
  ManageLimit = 1
  FactorLimit = 1
  MaxNow = 3
  MaxRequests = 3
  MaxSessions = 3
  MaxSecrets = 2
  MaxKeys = 2
  MaxRevocations = 2
  MaxMisses = 2
INVARIANTS
  NoCodeWorksTwice
  SecondFactor
  NothingOutlivesRevocation
  MissesBounded
  KeyKeepsFactors
CHECK_DEADLOCK FALSE
