SPECIFICATION Spec
CONSTANTS
  Analyses = {1, 2}
  Workers = {w1, w2}
  Tokens = {t1, t2, t3, t4}
  Keys = {}
  Digests = {d1}
  Cases = {}
  EnvLimits = {0, 2}
  LeaseTicks = 1
  BackoffCap = 1
  MaxRetries = 1
  MaxCrashes = 1
  NoToken = NoToken
  NoJob = NoJob
  NoKey = NoKey
  NoCase = NoCase
  NoUpload = NoUpload
  NoWorker = NoWorker
SYMMETRY WorkerSymmetry
CHECK_DEADLOCK FALSE
INVARIANTS
  JobMatchesAnalysis
  OneLeaseHolder
  AttemptBudget
PROPERTIES
  LateWorkersChangeNothing
  LeaseProtects
  RefinesLifecycle
