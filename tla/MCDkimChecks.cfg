SPECIFICATION FairSpec
CONSTANTS
  Ops = {o1, o2, o3}
  Analyses = {a1, a2}
  Keys = {k1}
  Requests = {q1, q2}
  RecoveryDelay = 2
  Timeout = 1
  MaxCrashes = 1
  NoRow = NoRow
  NoKey = NoKey
  NoCall = NoCall
INVARIANTS
  EndedOnce
  OnePending
PROPERTIES
  ActiveIsNotInterrupted
  ChecksEnd
CHECK_DEADLOCK FALSE
