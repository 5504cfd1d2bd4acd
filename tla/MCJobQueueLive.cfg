SPECIFICATION FairSpec
CONSTANTS
  Analyses = {1, 2}
  Workers = {w1}
  Tokens = {t1, t2, t3}
  Keys = {k1}
  Digests = {d1, d2}
  Cases = {p1}
  EnvLimits = {2}
  LeaseTicks = 0
  BackoffCap = 1
  MaxRetries = 0
  MaxCrashes = 1
  NoToken = NoToken
  NoJob = NoJob
  NoKey = NoKey
  NoCase = NoCase
  NoUpload = NoUpload
  NoWorker = NoWorker
INVARIANT OneAnalysisPerKey
PROPERTY EventuallySettled
CHECK_DEADLOCK FALSE
