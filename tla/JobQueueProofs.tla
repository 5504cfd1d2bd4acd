--------------------------- MODULE JobQueueProofs ---------------------------
(***************************************************************************)
(* What holds of JobQueue for every number of analyses, workers, tokens,   *)
(* every lease length and every bound: the invariants of the queue, the    *)
(* fencing of late workers, and that it implements AnalysisLifecycle.      *)
(***************************************************************************)
EXTENDS JobQueue, TLAPS

USE DEF Statuses, Settled, Places, rowVars, workerVars

----------------------------------------------------------------------------
(* Lemmas about the operators of the handlers.                             *)

\* The number of attempts written into a job is between 1 and 10.
LEMMA ClampLimitRange ==
  ASSUME NEW n \in Int
  PROVE  ClampLimit(n) \in 1..10
BY DEF ClampLimit

\* The delay of a failed attempt never exceeds the cap.
LEMMA BackoffRange ==
  ASSUME NEW n \in Nat
  PROVE  Backoff(n) \in 0..BackoffCap
BY TimeAssumption DEF Backoff

----------------------------------------------------------------------------
(* Type correctness.                                                       *)

LEMMA InitTypeOK == Init => TypeOK
<1> SUFFICES ASSUME Init PROVE TypeOK
  OBVIOUS
<1>1. status \in [Analyses -> Statuses]
  BY DEF Init
<1>2. limit \in [Analyses -> 0..10] /\ attempts \in [Analyses -> Nat]
  BY DEF Init
<1>3. leaseLeft \in [Analyses -> -1..LeaseTicks]
  BY TimeAssumption DEF Init
<1>4. waitLeft \in [Analyses -> 0..BackoffCap]
  BY TimeAssumption DEF Init
<1>5. retries \in 0..MaxRetries /\ crashes \in 0..MaxCrashes
  BY BoundsAssumption DEF Init
<1> QED
  BY <1>1, <1>2, <1>3, <1>4, <1>5 DEF Init, TypeOK

LEMMA InitializeJobsTypeOK ==
  ASSUME TypeOK, InitializeJobs
  PROVE  /\ state' \in [Analyses -> Statuses]
         /\ status' \in [Analyses -> Statuses]
         /\ limit' \in [Analyses -> 0..10]
BY DEF TypeOK, InitializeJobs

LEMMA AnswerTypeOK ==
  ASSUME TypeOK, NEW u \in Uploads, NEW a \in Analyses, Answer(u, a)
  PROVE  answered' \subseteq [upload : Uploads, id : Analyses]
BY DEF TypeOK, Answer

\* AfterAttempt and Recovered stay within the states of a job.
LEMMA RecoveredType ==
  ASSUME TypeOK, NEW a \in Analyses
  PROVE  /\ AfterAttempt(a) \in {"failed", "queued"}
         /\ Recovered(a) \in Statuses
BY DEF TypeOK, AfterAttempt, Recovered

LEMMA NextTypeOK == TypeOK /\ JobDictWhileBusy /\ [Next]_vars => TypeOK'
<1> SUFFICES ASSUME TypeOK, JobDictWhileBusy, [Next]_vars
             PROVE  TypeOK'
  OBVIOUS
<1> USE DEF TypeOK
<1>1. CASE StartApi
  BY <1>1, InitializeJobsTypeOK DEF StartApi, InitializeJobs
<1>2. ASSUME NEW u \in Uploads, NEW a \in Analyses, EnqueueNew(u, a)
      PROVE  TypeOK'
  <2>1. limit' \in [Analyses -> 0..10]
    BY <1>2, ClampLimitRange, LimitsAssumption DEF EnqueueNew
  <2> QED
    BY <1>2, <2>1, AnswerTypeOK, TimeAssumption DEF EnqueueNew
<1>3. ASSUME NEW u \in Uploads, NEW a \in Analyses, EnqueueAgain(u, a)
      PROVE  TypeOK'
  BY <1>3, AnswerTypeOK DEF EnqueueAgain
<1>4. ASSUME NEW a \in Analyses, RetryAnalysis(a)
      PROVE  TypeOK'
  BY <1>4, TimeAssumption, BoundsAssumption DEF RetryAnalysis
<1>5. ASSUME NEW w \in Workers, StartWorker(w)
      PROVE  TypeOK'
  BY <1>5, InitializeJobsTypeOK DEF StartWorker, InitializeJobs
<1>6. ASSUME NEW w \in Workers, NEW a \in Analyses, NEW t \in Tokens,
             ClaimJob(w, a, t)
      PROVE  TypeOK'
  BY <1>6, RecoveredType, TimeAssumption DEF ClaimJob
<1>7. ASSUME NEW w \in Workers, ClaimNothing(w)
      PROVE  TypeOK'
  BY <1>7, RecoveredType DEF ClaimNothing
<1>8. ASSUME NEW w \in Workers, ReadOriginal(w) \/ Parse(w) \/ PersistenceFails(w)
      PROVE  TypeOK'
  BY <1>8 DEF ReadOriginal, Parse, PersistenceFails, Move
<1>9. ASSUME NEW w \in Workers, ReadClock(w)
      PROVE  TypeOK'
  BY <1>9 DEF ReadClock
<1>10. ASSUME NEW w \in Workers, FinishStale(w)
       PROVE  TypeOK'
  BY <1>10 DEF FinishStale, GoIdle
<1>11. ASSUME NEW w \in Workers, FinishDocument(w)
       PROVE  TypeOK'
  <2>1. job[w] \in Analyses
    BY <1>11 DEF FinishDocument, JobDictWhileBusy, Busy
  <2> QED
    BY <1>11, <2>1, TimeAssumption DEF FinishDocument, GoIdle, Release
<1>12. ASSUME NEW w \in Workers, FinishError(w)
       PROVE  TypeOK'
  <2>1. job[w] \in Analyses
    BY <1>12 DEF FinishError, JobDictWhileBusy, Busy
  <2>2. waitLeft' \in [Analyses -> 0..BackoffCap]
    BY <1>12, <2>1, BackoffRange DEF FinishError
  <2> QED
    BY <1>12, <2>1, <2>2, RecoveredType, TimeAssumption
    DEF FinishError, GoIdle, Release
<1>13. ASSUME NEW w \in Workers, Crash(w)
       PROVE  TypeOK'
  BY <1>13, BoundsAssumption DEF Crash
<1>14. CASE Tick
  BY <1>14, TimeAssumption DEF Tick
<1>15. CASE UNCHANGED vars
  BY <1>15 DEF vars
<1> QED
  BY <1>1, <1>2, <1>3, <1>4, <1>5, <1>6, <1>7, <1>8, <1>9, <1>10, <1>11,
     <1>12, <1>13, <1>14, <1>15
  DEF Next, RunOnce, Claim, Finish
----------------------------------------------------------------------------
(* The inductive invariant, one action at a time.                          *)

LEMMA InitQueueInv == Init => QueueInv
<1> SUFFICES ASSUME Init PROVE QueueInv
  OBVIOUS
<1> USE DEF Init
<1>1. JobMatchesAnalysis
  BY DEF JobMatchesAnalysis
<1>2. LeaseWhileRunning
  BY DEF LeaseWhileRunning
<1>3. AttemptBudget /\ LimitWithJob /\ DelayAfterFailure
  BY DEF AttemptBudget, LimitWithJob, DelayAfterFailure
<1>4. JobDictWhileBusy
  BY DEF JobDictWhileBusy, Busy
<1>5. HolderIsLatest
  BY DEF HolderIsLatest, HoldsLease
<1> QED
  BY <1>1, <1>2, <1>3, <1>4, <1>5 DEF QueueInv

\* Adoption gives a job to analyses that had none and touches no other.
LEMMA InitializeJobsKeepsRows ==
  ASSUME TypeOK, QueueInv, InitializeJobs
  PROVE  /\ JobMatchesAnalysis'
         /\ LeaseWhileRunning'
         /\ AttemptBudget'
         /\ LimitWithJob'
         /\ DelayAfterFailure'
<1> USE DEF TypeOK, QueueInv, InitializeJobs, JobMatchesAnalysis,
            LeaseWhileRunning, AttemptBudget, LimitWithJob,
            DelayAfterFailure, Orphan
<1>1. JobMatchesAnalysis'
  OBVIOUS
<1>2. LeaseWhileRunning'
  OBVIOUS
<1>3. AttemptBudget'
  OBVIOUS
<1>4. LimitWithJob'
  OBVIOUS
<1>5. DelayAfterFailure'
  OBVIOUS
<1> QED
  BY <1>1, <1>2, <1>3, <1>4, <1>5

LEMMA StartQueueInv ==
  ASSUME TypeOK, QueueInv,
         StartApi \/ \E w \in Workers : StartWorker(w)
  PROVE  QueueInv'
<1>1. InitializeJobs
  BY DEF StartApi, StartWorker
<1>2. JobDictWhileBusy'
  BY DEF TypeOK, QueueInv, StartApi, StartWorker, JobDictWhileBusy, Busy
<1>3. HolderIsLatest'
  BY <1>1 DEF QueueInv, StartApi, StartWorker, InitializeJobs,
              HolderIsLatest, HoldsLease
<1> QED
  BY <1>1, <1>2, <1>3, InitializeJobsKeepsRows DEF QueueInv

LEMMA EnqueueQueueInv ==
  ASSUME TypeOK, QueueInv, NEW u \in Uploads, NEW a \in Analyses,
         EnqueueNew(u, a) \/ EnqueueAgain(u, a)
  PROVE  QueueInv'
<1>1. CASE EnqueueNew(u, a)
  <2> USE <1>1 DEF EnqueueNew, TypeOK, QueueInv
  <2>1. PICK n \in EnvLimits : limit' = [limit EXCEPT ![a] = ClampLimit(n)]
    OBVIOUS
  <2>2. ClampLimit(n) \in 1..10
    BY <2>1, ClampLimitRange, LimitsAssumption
  <2>3. state[a] = "absent" /\ token[a] = NoToken
    BY DEF JobMatchesAnalysis, LeaseWhileRunning
  <2>4. JobMatchesAnalysis'
    BY DEF JobMatchesAnalysis
  <2>5. LeaseWhileRunning'
    BY <2>3 DEF LeaseWhileRunning
  <2>6. AttemptBudget' /\ LimitWithJob' /\ DelayAfterFailure'
    BY <2>1, <2>2 DEF AttemptBudget, LimitWithJob, DelayAfterFailure
  <2>7. JobDictWhileBusy' /\ HolderIsLatest'
    BY DEF JobDictWhileBusy, Busy, HolderIsLatest, HoldsLease
  <2> QED
    BY <2>4, <2>5, <2>6, <2>7
<1>2. CASE EnqueueAgain(u, a)
  BY <1>2 DEF EnqueueAgain, QueueInv, JobMatchesAnalysis,
     LeaseWhileRunning, AttemptBudget, LimitWithJob, DelayAfterFailure, JobDictWhileBusy,
     Busy,     HolderIsLatest, HoldsLease
<1> QED
  BY <1>1, <1>2

LEMMA RetryQueueInv ==
  ASSUME TypeOK, QueueInv, NEW a \in Analyses, RetryAnalysis(a)
  PROVE  QueueInv'
<1> USE DEF RetryAnalysis, TypeOK, QueueInv
<1>1. \/ state[a] = "failed" /\ limit[a] > 0
      \/ state[a] = "absent" /\ upload[a] = NoUpload /\ token[a] = NoToken
  BY DEF JobMatchesAnalysis, LimitWithJob, LeaseWhileRunning
<1>2. JobMatchesAnalysis'
  BY <1>1 DEF JobMatchesAnalysis
<1>3. LeaseWhileRunning'
  BY <1>1 DEF LeaseWhileRunning
<1>4. AttemptBudget' /\ LimitWithJob' /\ DelayAfterFailure'
  BY <1>1 DEF AttemptBudget, LimitWithJob, DelayAfterFailure
<1>5. JobDictWhileBusy' /\ HolderIsLatest'
  BY DEF JobDictWhileBusy, Busy, HolderIsLatest, HoldsLease
<1> QED
  BY <1>2, <1>3, <1>4, <1>5

\* What claim() does to a row it recovers, before it takes a job.
LEMMA RecoverRow ==
  ASSUME TypeOK, QueueInv, NEW x \in Analyses, LeaseOver(x)
  PROVE  /\ state[x] = "running" /\ status[x] = "running"
         /\ AfterAttempt(x) = "queued" => attempts[x] < limit[x]
         /\ AfterAttempt(x) = "failed" => attempts[x] = limit[x]
         /\ AfterAttempt(x) \in {"queued", "failed"}
BY DEF TypeOK, QueueInv, LeaseOver, AfterAttempt, JobMatchesAnalysis,
       AttemptBudget

LEMMA ClaimJobQueueInv ==
  ASSUME TypeOK, QueueInv, NEW w \in Workers, NEW a \in Analyses,
         NEW t \in Tokens, ClaimJob(w, a, t)
  PROVE  QueueInv'
<1> USE DEF ClaimJob, TypeOK, QueueInv
<1>1. attempts[a] < limit[a]
  <2>1. CASE LeaseOver(a)
    BY <2>1, RecoverRow DEF Ready, Recovered
  <2>2. CASE ~LeaseOver(a)
    BY <2>2 DEF Ready, Recovered, AttemptBudget
  <2> QED
    BY <2>1, <2>2
<1>2. state[a] # "absent"
  BY DEF Ready, Recovered, LeaseOver
<1>3. JobMatchesAnalysis'
  BY <1>2, RecoverRow DEF JobMatchesAnalysis, Recovered
<1>4. LeaseWhileRunning'
  BY NoTokenAssumption, RecoverRow DEF LeaseWhileRunning, Recovered
<1>5. AttemptBudget'
  <2> SUFFICES ASSUME NEW x \in Analyses
               PROVE  /\ attempts'[x] <= limit'[x]
                      /\ state'[x] = "queued" => attempts'[x] < limit'[x]
                      /\ state'[x] = "running" => attempts'[x] > 0
                      /\ state'[x] = "failed" => attempts'[x] = limit'[x]
    BY DEF AttemptBudget
  <2>1. CASE x = a
    BY <1>1, <2>1
  <2>2. CASE x # a
    BY <2>2, RecoverRow DEF AttemptBudget, Recovered
  <2> QED
    BY <2>1, <2>2
<1>6. LimitWithJob' /\ DelayAfterFailure'
  BY <1>2, RecoverRow
  DEF LimitWithJob, DelayAfterFailure, Recovered, LeaseOver, Ready
<1>7. JobDictWhileBusy'
  BY DEF JobDictWhileBusy, Busy
<1>8. HolderIsLatest'
  <2> SUFFICES ASSUME NEW x \in Analyses, NEW v \in Workers, HoldsLease(v, x)'
               PROVE  latest'[x] = v
    BY DEF HolderIsLatest
  <2>1. CASE x = a
    BY <2>1 DEF FreshTokens, HoldsLease
  <2>2. CASE x # a
    BY <2>2 DEF HolderIsLatest, HoldsLease
  <2> QED
    BY <2>1, <2>2
<1> QED
  BY <1>3, <1>4, <1>5, <1>6, <1>7, <1>8

LEMMA ClaimNothingQueueInv ==
  ASSUME TypeOK, QueueInv, NEW w \in Workers, ClaimNothing(w)
  PROVE  QueueInv'
<1> USE DEF ClaimNothing, TypeOK, QueueInv
<1>1. JobMatchesAnalysis'
  BY RecoverRow DEF JobMatchesAnalysis, Recovered
<1>2. LeaseWhileRunning'
  BY RecoverRow DEF LeaseWhileRunning, Recovered
<1>3. AttemptBudget' /\ LimitWithJob' /\ DelayAfterFailure'
  BY RecoverRow DEF AttemptBudget, LimitWithJob, DelayAfterFailure, Recovered
<1>4. JobDictWhileBusy' /\ HolderIsLatest'
  BY DEF JobDictWhileBusy, Busy, HolderIsLatest, HoldsLease
<1> QED
  BY <1>1, <1>2, <1>3, <1>4

\* Steps of run_once that leave every row alone.
LEMMA LocalQueueInv ==
  ASSUME TypeOK, QueueInv, NEW w \in Workers,
         \/ ReadOriginal(w) \/ Parse(w) \/ PersistenceFails(w)
         \/ ReadClock(w) \/ FinishStale(w) \/ Crash(w)
  PROVE  QueueInv'
<1> USE DEF TypeOK, QueueInv, ReadOriginal, Parse, PersistenceFails, Move,
            ReadClock, FinishStale, GoIdle, Crash
<1>1. UNCHANGED <<state, status, attempts, limit, token, waitLeft, upload, latest>>
  OBVIOUS
<1>2. /\ JobMatchesAnalysis' /\ LeaseWhileRunning' /\ AttemptBudget'
      /\ LimitWithJob' /\ DelayAfterFailure'
  BY <1>1 DEF JobMatchesAnalysis, LeaseWhileRunning, AttemptBudget,
              LimitWithJob, DelayAfterFailure
<1>3. JobDictWhileBusy'
  BY DEF JobDictWhileBusy, Busy
<1>4. HolderIsLatest'
  BY <1>1, NoJobAssumption DEF HolderIsLatest, HoldsLease
<1> QED
  BY <1>2, <1>3, <1>4

\* A worker that passes the test of finish() owns a running job, and it is
\* the one that claimed it last.
LEMMA OwnerIsLatest ==
  ASSUME TypeOK, QueueInv, NEW w \in Workers,
         pc[w] \in {"saving", "reporting"}, Owns(w)
  PROVE  /\ job[w] \in Analyses
         /\ HoldsLease(w, job[w])
         /\ state[job[w]] = "running" /\ status[job[w]] = "running"
         /\ latest[job[w]] = w
<1>1. job[w] \in Analyses
  BY DEF QueueInv, JobDictWhileBusy, Busy
<1> QED
  BY <1>1 DEF TypeOK, QueueInv, Owns, LeaseWhileRunning, HoldsLease,
              HolderIsLatest, JobMatchesAnalysis

LEMMA FinishQueueInv ==
  ASSUME TypeOK, QueueInv, NEW w \in Workers,
         FinishDocument(w) \/ FinishError(w)
  PROVE  QueueInv'
<1> USE DEF TypeOK, QueueInv
<1>1. /\ pc[w] \in {"saving", "reporting"} /\ Owns(w) /\ GoIdle(w)
      /\ UNCHANGED <<attempts, limit, upload, latest>>
  BY DEF FinishDocument, FinishError
<1>2. job[w] \in Analyses /\ state[job[w]] = "running"
  BY <1>1, OwnerIsLatest
<1>3. PICK s \in {"completed", "failed", "queued"} :
        /\ Release(job[w], s)
        /\ s = "failed" => attempts[job[w]] >= limit[job[w]]
        /\ s = "queued" => attempts[job[w]] < limit[job[w]]
        /\ s = "completed" => UNCHANGED waitLeft
        /\ \A x \in Analyses : x # job[w] => waitLeft'[x] = waitLeft[x]
  BY <1>2 DEF FinishDocument, FinishError, AfterAttempt
<1>4. JobMatchesAnalysis'
  BY <1>1, <1>2, <1>3 DEF Release, JobMatchesAnalysis
<1>5. LeaseWhileRunning'
  BY <1>2, <1>3 DEF Release, LeaseWhileRunning
<1>6. AttemptBudget' /\ LimitWithJob' /\ DelayAfterFailure'
  BY <1>1, <1>2, <1>3
  DEF Release, AttemptBudget, LimitWithJob, DelayAfterFailure
<1>7. JobDictWhileBusy'
  BY <1>1 DEF GoIdle, JobDictWhileBusy, Busy
<1>8. HolderIsLatest'
  BY <1>1, <1>2, <1>3, NoJobAssumption
  DEF GoIdle, Release, HolderIsLatest, HoldsLease
<1> QED
  BY <1>4, <1>5, <1>6, <1>7, <1>8

LEMMA NextQueueInv == TypeOK /\ QueueInv /\ [Next]_vars => QueueInv'
<1> SUFFICES ASSUME TypeOK, QueueInv, [Next]_vars
             PROVE  QueueInv'
  OBVIOUS
<1>1. CASE UNCHANGED vars
  BY <1>1 DEF vars, QueueInv, JobMatchesAnalysis, LeaseWhileRunning,
     AttemptBudget, LimitWithJob, DelayAfterFailure, JobDictWhileBusy, Busy, HolderIsLatest,
     HoldsLease
<1>2. CASE Tick
  <2>1. UNCHANGED <<state, status, attempts, limit, token, upload, latest, pc,
                    job, held>>
    BY <1>2 DEF Tick
  <2> QED
    BY <1>2, <2>1 DEF TypeOK, Tick, QueueInv, JobMatchesAnalysis,
       LeaseWhileRunning, AttemptBudget, LimitWithJob, DelayAfterFailure, JobDictWhileBusy, Busy, HolderIsLatest,
       HoldsLease
<1>3. CASE Next /\ ~Tick
  BY <1>3, StartQueueInv, EnqueueQueueInv, RetryQueueInv, ClaimJobQueueInv,
     ClaimNothingQueueInv, LocalQueueInv, FinishQueueInv
  DEF Next, RunOnce, Claim, Finish
<1> QED
  BY <1>1, <1>2, <1>3

----------------------------------------------------------------------------
(* The theorems.                                                           *)

\* Every reachable state is well typed and satisfies the queue's invariant.
THEOREM QueueCorrect == Spec => [](TypeOK /\ QueueInv)
<1>1. Init => TypeOK /\ QueueInv
  BY InitTypeOK, InitQueueInv
<1>2. TypeOK /\ QueueInv /\ [Next]_vars => (TypeOK /\ QueueInv)'
  BY NextTypeOK, NextQueueInv DEF QueueInv
<1> QED
  BY <1>1, <1>2, PTL DEF Spec

\* The columns and the memory of the workers keep their types.
THEOREM TypeCorrect == Spec => []TypeOK
BY QueueCorrect, PTL

\* analyses.status and jobs.state agree in every reachable state.
THEOREM TablesAgree == Spec => []JobMatchesAnalysis
<1>1. QueueInv => JobMatchesAnalysis
  BY DEF QueueInv
<1> QED
  BY <1>1, QueueCorrect, PTL

\* No job is attempted more often than its limit, and none fails before.
THEOREM BudgetKept == Spec => []AttemptBudget
<1>1. QueueInv => AttemptBudget
  BY DEF QueueInv
<1> QED
  BY <1>1, QueueCorrect, PTL

\* At most one worker holds the lease of a job.
THEOREM LeaseIsExclusive == Spec => []OneLeaseHolder
<1>1. TypeOK /\ QueueInv => OneLeaseHolder
  BY DEF QueueInv, HolderIsLatest, OneLeaseHolder
<1> QED
  BY <1>1, QueueCorrect, PTL

----------------------------------------------------------------------------
(* Fencing.                                                                *)

\* A step that ends an attempt is one of finish().
LEMMA EndsOnlyInFinish ==
  ASSUME TypeOK, [Next]_vars, NEW w \in Workers, Ends(w)
  PROVE  FinishStale(w) \/ FinishDocument(w) \/ FinishError(w)
<1> USE DEF Ends, TypeOK
<1>1. pc' # pc
  OBVIOUS
<1>2. ASSUME NEW v \in Workers, v # w
      PROVE  ~(StartWorker(v) \/ RunOnce(v) \/ Crash(v))
  BY <1>2 DEF StartWorker, RunOnce, Claim, ClaimJob, ClaimNothing,
     ReadOriginal, Parse, PersistenceFails, Move, ReadClock, Finish,
     FinishStale, FinishDocument, FinishError, GoIdle, Crash
<1>3. ~(StartWorker(w) \/ Claim(w) \/ ReadOriginal(w) \/ Parse(w)
        \/ ReadClock(w) \/ PersistenceFails(w) \/ Crash(w))
  BY DEF StartWorker, Claim, ClaimJob, ClaimNothing, ReadOriginal, Parse,
     PersistenceFails, Move, ReadClock, Crash
<1>4. ~(\/ StartApi
        \/ \E u \in Uploads, a \in Analyses : EnqueueNew(u, a) \/ EnqueueAgain(u, a)
        \/ \E a \in Analyses : RetryAnalysis(a)
        \/ Tick)
  BY <1>1 DEF StartApi, EnqueueNew, EnqueueAgain, RetryAnalysis, Tick
<1> QED
  BY <1>1, <1>2, <1>3, <1>4 DEF Next, RunOnce, Finish, vars

\* A worker whose job was claimed, recovered or restarted since changes
\* nothing when it finishes.
THEOREM Fencing == Spec => LateWorkersChangeNothing
<1>1. TypeOK /\ QueueInv /\ [Next]_vars =>
        \A w \in Workers : \A a \in Analyses :
          Ends(w) /\ job[w] = a /\ latest[a] # w => Outcome(a)' = Outcome(a)
  <2> SUFFICES ASSUME TypeOK, QueueInv, [Next]_vars,
                      NEW w \in Workers, NEW a \in Analyses,
                      Ends(w), job[w] = a, latest[a] # w
               PROVE  Outcome(a)' = Outcome(a)
    OBVIOUS
  <2>1. ~Owns(w)
    BY OwnerIsLatest DEF Ends
  <2>2. FinishStale(w)
    BY <2>1, EndsOnlyInFinish DEF FinishDocument, FinishError
  <2> QED
    BY <2>2 DEF FinishStale, Outcome
<1>2. TypeOK /\ QueueInv /\ [Next]_vars =>
        [\A w \in Workers : \A a \in Analyses :
          Ends(w) /\ job[w] = a /\ latest[a] # w
            => Outcome(a)' = Outcome(a)]_vars
  BY <1>1
<1> QED
  BY <1>2, QueueCorrect, PTL DEF Spec, LateWorkersChangeNothing

\* A completed analysis keeps its outcome for ever.
THEOREM CompletionIsFinal == Spec => CompletedIsFinal
<1>1. TypeOK /\ QueueInv /\ [Next]_vars =>
        [\A a \in Analyses :
           status[a] = "completed" => Outcome(a)' = Outcome(a)]_vars
  <2> SUFFICES ASSUME TypeOK, QueueInv, Next,
                      NEW a \in Analyses, status[a] = "completed"
               PROVE  Outcome(a)' = Outcome(a)
    OBVIOUS
  <2> USE DEF TypeOK, Outcome
  <2>1. /\ state[a] \in {"completed", "absent"} /\ ~LeaseOver(a)
        /\ waitLeft[a] = 0
    BY DEF QueueInv, JobMatchesAnalysis, LeaseOver, DelayAfterFailure
  <2>2. CASE StartApi \/ \E w \in Workers : StartWorker(w)
    BY <2>1, <2>2 DEF StartApi, StartWorker, InitializeJobs, Orphan
  <2>3. ASSUME NEW u \in Uploads, NEW b \in Analyses,
               EnqueueNew(u, b) \/ EnqueueAgain(u, b)
        PROVE  Outcome(a)' = Outcome(a)
    BY <2>3 DEF EnqueueNew, EnqueueAgain
  <2>4. ASSUME NEW b \in Analyses, RetryAnalysis(b)
        PROVE  Outcome(a)' = Outcome(a)
    BY <2>4 DEF RetryAnalysis
  <2>5. ASSUME NEW w \in Workers, Claim(w)
        PROVE  Outcome(a)' = Outcome(a)
    BY <2>1, <2>5 DEF Claim, ClaimJob, ClaimNothing, Ready, Recovered
  <2>6. ASSUME NEW w \in Workers,
               \/ ReadOriginal(w) \/ Parse(w) \/ PersistenceFails(w)
               \/ ReadClock(w) \/ FinishStale(w) \/ Crash(w)
        PROVE  Outcome(a)' = Outcome(a)
    BY <2>6 DEF ReadOriginal, Parse, PersistenceFails, Move, ReadClock,
       FinishStale, Crash
  <2>7. ASSUME NEW w \in Workers, FinishDocument(w) \/ FinishError(w)
        PROVE  Outcome(a)' = Outcome(a)
    <3>1. job[w] \in Analyses /\ job[w] # a
      BY <2>1, <2>7, OwnerIsLatest DEF FinishDocument, FinishError
    <3> QED
      BY <2>7, <3>1 DEF FinishDocument, FinishError, Release
  <2>8. CASE Tick
    BY <2>1, <2>8 DEF Tick
  <2> QED
    BY <2>2, <2>3, <2>4, <2>5, <2>6, <2>7, <2>8 DEF Next, RunOnce, Finish
<1> QED
  BY <1>1, QueueCorrect, PTL DEF Spec, CompletedIsFinal

\* Before its lease is over a job only leaves its attempt by the hand of the
\* worker that holds it.
THEOREM LiveLeaseProtects == Spec => LeaseProtects
<1>1. TypeOK /\ QueueInv /\ [Next]_vars =>
        [\A a \in Analyses :
           state[a] = "running" /\ leaseLeft[a] >= 0 /\ token'[a] # token[a]
             => \E w \in Workers : HoldsLease(w, a) /\ Ends(w)]_vars
  <2> SUFFICES ASSUME TypeOK, QueueInv, Next, NEW a \in Analyses,
                      state[a] = "running", leaseLeft[a] >= 0,
                      token'[a] # token[a]
               PROVE  \E w \in Workers : HoldsLease(w, a) /\ Ends(w)
    OBVIOUS
  <2> USE DEF TypeOK
  <2>1. ~LeaseOver(a) /\ status[a] = "running"
    BY DEF LeaseOver, QueueInv, JobMatchesAnalysis
  <2>2. \A w \in Workers : ~Claim(w)
    BY <2>1 DEF Claim, ClaimJob, ClaimNothing, Ready, Recovered
  <2>3. \A b \in Analyses : ~RetryAnalysis(b)
    BY <2>1 DEF RetryAnalysis
  <2>4. PICK w \in Workers : FinishDocument(w) \/ FinishError(w)
    BY <2>2, <2>3 DEF Next, RunOnce, Finish, StartApi, StartWorker,
       InitializeJobs, EnqueueNew, EnqueueAgain, ReadOriginal, Parse,
       PersistenceFails, Move, ReadClock, FinishStale, Crash, Tick
  <2>5. job[w] \in Analyses /\ HoldsLease(w, job[w])
    BY <2>4, OwnerIsLatest DEF FinishDocument, FinishError
  <2>6. job[w] = a
    BY <2>4, <2>5 DEF FinishDocument, FinishError, Release
  <2>7. Ends(w)
    BY <2>4 DEF FinishDocument, FinishError, GoIdle, Ends
  <2> QED
    BY <2>5, <2>6, <2>7
<1> QED
  BY <1>1, QueueCorrect, PTL DEF Spec, LeaseProtects

----------------------------------------------------------------------------
(* The queue implements AnalysisLifecycle.                                 *)

LEMMA InitIsLifecycleInit == Init => Lifecycle!LifecycleInit
BY DEF Init, Lifecycle!LifecycleInit

\* Every step lets each analysis make a move of its lifecycle, or stay.
LEMMA NextIsLifecycleNext ==
  ASSUME TypeOK, QueueInv, [Next]_vars, NEW x \in Analyses
  PROVE  Lifecycle!Advance(x) \/ Lifecycle!Stay(x)
<1> USE DEF TypeOK, Lifecycle!Becomes, Lifecycle!Keeps
<1>1. CASE InitializeJobs
  <2>1. CASE Orphan(x)
    <3>1. Lifecycle!Adopt(x)
      BY <1>1, <2>1 DEF InitializeJobs, Orphan, QueueInv, LimitWithJob,
         Lifecycle!Adopt
    <3> QED
      BY <3>1 DEF Lifecycle!Advance
  <2>2. CASE ~Orphan(x)
    BY <1>1, <2>2 DEF InitializeJobs, Lifecycle!Stay
  <2> QED
    BY <2>1, <2>2
<1>2. ASSUME NEW u \in Uploads, NEW a \in Analyses, EnqueueNew(u, a)
      PROVE  Lifecycle!Advance(x) \/ Lifecycle!Stay(x)
  <2>1. PICK n \in EnvLimits : limit' = [limit EXCEPT ![a] = ClampLimit(n)]
    BY <1>2 DEF EnqueueNew
  <2>2. ClampLimit(n) \in 1..10
    BY <2>1, ClampLimitRange, LimitsAssumption
  <2>3. CASE x = a
    <3>1. Lifecycle!Submit(x)
      BY <1>2, <2>1, <2>2, <2>3 DEF EnqueueNew, Lifecycle!Submit
    <3> QED
      BY <3>1 DEF Lifecycle!Advance
  <2>4. CASE x # a
    BY <1>2, <2>1, <2>4 DEF EnqueueNew, Lifecycle!Stay
  <2> QED
    BY <2>3, <2>4
<1>3. ASSUME NEW a \in Analyses, RetryAnalysis(a)
      PROVE  Lifecycle!Advance(x) \/ Lifecycle!Stay(x)
  BY <1>3 DEF RetryAnalysis, Lifecycle!Restart, Lifecycle!Advance,
              Lifecycle!Stay
<1>4. ASSUME LeaseOver(x), state'[x] = AfterAttempt(x),
             status'[x] = AfterAttempt(x), attempts'[x] = attempts[x],
             limit'[x] = limit[x]
      PROVE  Lifecycle!Advance(x)
  BY <1>4, RecoverRow DEF Lifecycle!PutBack, Lifecycle!GiveUp,
                          Lifecycle!Advance
<1>5. ASSUME NEW w \in Workers, NEW a \in Analyses, NEW t \in Tokens,
             ClaimJob(w, a, t)
      PROVE  Lifecycle!Advance(x) \/ Lifecycle!Stay(x)
  <2>1. CASE x = a
    <3>1. attempts[x] < limit[x] /\ status[x] \in {"queued", "running"}
      <4>1. CASE LeaseOver(x)
        BY <1>5, <2>1, <4>1, RecoverRow DEF ClaimJob, Ready, Recovered
      <4>2. CASE ~LeaseOver(x)
        BY <1>5, <2>1, <4>2 DEF ClaimJob, Ready, Recovered, QueueInv,
           AttemptBudget, JobMatchesAnalysis
      <4> QED
        BY <4>1, <4>2
    <3>2. Lifecycle!Start(x)
      BY <1>5, <2>1, <3>1 DEF ClaimJob, Lifecycle!Start
    <3> QED
      BY <3>2 DEF Lifecycle!Advance
  <2>2. CASE x # a /\ LeaseOver(x)
    BY <1>4, <1>5, <2>2 DEF ClaimJob, Recovered
  <2>3. CASE x # a /\ ~LeaseOver(x)
    BY <1>5, <2>3 DEF ClaimJob, Lifecycle!Stay
  <2> QED
    BY <2>1, <2>2, <2>3
<1>6. ASSUME NEW w \in Workers, ClaimNothing(w)
      PROVE  Lifecycle!Advance(x) \/ Lifecycle!Stay(x)
  <2>1. CASE LeaseOver(x)
    BY <1>4, <1>6, <2>1 DEF ClaimNothing, Recovered
  <2>2. CASE ~LeaseOver(x)
    BY <1>6, <2>2 DEF ClaimNothing, Lifecycle!Stay
  <2> QED
    BY <2>1, <2>2
<1>7. ASSUME NEW w \in Workers, FinishDocument(w)
      PROVE  Lifecycle!Advance(x) \/ Lifecycle!Stay(x)
  <2>1. job[w] \in Analyses /\ state[job[w]] = "running" /\ status[job[w]] = "running"
    BY <1>7, OwnerIsLatest DEF FinishDocument
  <2>2. limit[job[w]] > 0
    BY <2>1 DEF QueueInv, LimitWithJob
  <2>3. CASE x = job[w]
    BY <1>7, <2>1, <2>2, <2>3 DEF FinishDocument, Release,
       Lifecycle!Complete, Lifecycle!Advance
  <2>4. CASE x # job[w]
    BY <1>7, <2>1, <2>4 DEF FinishDocument, Release, Lifecycle!Stay
  <2> QED
    BY <2>3, <2>4
<1>8. ASSUME NEW w \in Workers, FinishError(w)
      PROVE  Lifecycle!Advance(x) \/ Lifecycle!Stay(x)
  <2>1. job[w] \in Analyses /\ state[job[w]] = "running" /\ status[job[w]] = "running"
    BY <1>8, OwnerIsLatest DEF FinishError
  <2>2. attempts[job[w]] <= limit[job[w]]
    BY <2>1 DEF QueueInv, AttemptBudget
  <2>3. CASE x = job[w]
    BY <1>8, <2>1, <2>2, <2>3 DEF FinishError, Release, AfterAttempt,
       Lifecycle!PutBack, Lifecycle!GiveUp, Lifecycle!Advance
  <2>4. CASE x # job[w]
    BY <1>8, <2>1, <2>4 DEF FinishError, Release, Lifecycle!Stay
  <2> QED
    BY <2>3, <2>4
<1>9. CASE UNCHANGED <<status, attempts, limit>>
  BY <1>9 DEF Lifecycle!Stay
<1> QED
  BY <1>1, <1>2, <1>3, <1>5, <1>6, <1>7, <1>8, <1>9
  DEF Next, RunOnce, Claim, Finish, vars, StartApi, StartWorker,
      EnqueueAgain, ReadOriginal, Parse, PersistenceFails, Move, ReadClock,
      FinishStale, Crash, Tick

\* With status for status, attempts for used and max_attempts for budget,
\* every behaviour of the queue is one the lifecycle allows.
THEOREM QueueRefinesLifecycle == Spec => RefinesLifecycle
<1>1. TypeOK /\ QueueInv /\ [Next]_vars
        => [Lifecycle!LifecycleNext]_(Lifecycle!lifecycleVars)
  BY NextIsLifecycleNext DEF Lifecycle!LifecycleNext
<1> QED
  BY <1>1, InitIsLifecycleInit, QueueCorrect, PTL
  DEF Spec, RefinesLifecycle, Lifecycle!LifecycleSpec

----------------------------------------------------------------------------
(* Idempotency keys.                                                       *)

\* What an answer said stays recorded in the row it named.
AnswersAreKept ==
  \A x \in answered :
    /\ x.upload.key # NoKey
    /\ upload[x.id] # NoUpload
    /\ upload[x.id].key = x.upload.key
    /\ upload[x.id].sha256 = x.upload.sha256
    /\ x.upload.case_id # NoCase => upload[x.id].case_id = x.upload.case_id

\* enqueue looks a key up in rows that have a job, and every upload has one.
OneRowPerKey ==
  /\ \A a \in Analyses : upload[a] # NoUpload => state[a] # "absent"
  /\ \A a, b \in Analyses :
       /\ upload[a] # NoUpload /\ upload[b] # NoUpload
       /\ upload[a].key = upload[b].key /\ upload[a].key # NoKey
       => a = b

KeyInv == AnswersAreKept /\ OneRowPerKey

\* Only enqueue records uploads and answers, and no other step deletes a job.
LEMMA RowsStay ==
  ASSUME TypeOK, [Next]_vars,
         ~\E u \in Uploads, a \in Analyses : EnqueueNew(u, a) \/ EnqueueAgain(u, a)
  PROVE  /\ upload' = upload /\ answered' = answered
         /\ \A a \in Analyses : state[a] # "absent" => state'[a] # "absent"
<1>1. CASE StartApi \/ \E w \in Workers : StartWorker(w)
  BY <1>1 DEF StartApi, StartWorker, InitializeJobs, TypeOK
<1>2. CASE \E a \in Analyses : RetryAnalysis(a)
  BY <1>2 DEF RetryAnalysis, TypeOK
<1>3. ASSUME NEW w \in Workers, Claim(w)
      PROVE  /\ upload' = upload /\ answered' = answered
             /\ \A a \in Analyses : state[a] # "absent" => state'[a] # "absent"
  BY <1>3 DEF Claim, ClaimJob, ClaimNothing, Recovered, AfterAttempt, TypeOK
<1>4. ASSUME NEW w \in Workers, ReadOriginal(w) \/ Parse(w) \/ ReadClock(w) \/ Crash(w)
      PROVE  upload' = upload /\ answered' = answered /\ state' = state
  BY <1>4 DEF ReadOriginal, Parse, Move, ReadClock, Crash
<1>5. ASSUME NEW w \in Workers, Finish(w)
      PROVE  /\ upload' = upload /\ answered' = answered
             /\ \A a \in Analyses : state[a] # "absent" => state'[a] # "absent"
  <2>1. CASE FinishStale(w) \/ PersistenceFails(w)
    BY <2>1 DEF FinishStale, PersistenceFails, Move
  <2>2. CASE FinishDocument(w)
    BY <2>2 DEF FinishDocument, Release, TypeOK
  <2>3. CASE FinishError(w)
    BY <2>3 DEF FinishError, Release, AfterAttempt, TypeOK
  <2> QED
    BY <1>5, <2>1, <2>2, <2>3 DEF Finish
<1>6. CASE Tick \/ UNCHANGED vars
  BY <1>6 DEF Tick, vars
<1> QED
  BY <1>1, <1>2, <1>3, <1>4, <1>5, <1>6 DEF Next, RunOnce

LEMMA EnqueueNewKeepsKeys ==
  ASSUME TypeOK, QueueInv, KeyInv, NEW u \in Uploads, NEW a \in Analyses,
         EnqueueNew(u, a)
  PROVE  KeyInv'
<1>1. state[a] = "absent"
  BY DEF EnqueueNew, QueueInv, JobMatchesAnalysis
<1>2. upload[a] = NoUpload /\ u # NoUpload
  BY <1>1, NoUploadAssumption DEF KeyInv, OneRowPerKey
<1>3. /\ upload'[a] = u /\ \A b \in Analyses \ {a} : upload'[b] = upload[b]
      /\ state'[a] = "queued" /\ \A b \in Analyses \ {a} : state'[b] = state[b]
  BY DEF EnqueueNew, TypeOK
<1>4. \A b \in Analyses : upload[b] # NoUpload /\ u.key # NoKey => upload[b].key # u.key
  BY DEF EnqueueNew, Previous, KeyInv, OneRowPerKey
<1>5. OneRowPerKey'
  BY <1>2, <1>3, <1>4 DEF KeyInv, OneRowPerKey
<1>6. ASSUME NEW x \in answered
      PROVE  x.id \in Analyses \ {a}
  BY <1>2, <1>6 DEF KeyInv, AnswersAreKept, TypeOK
<1>7. \A x \in answered' :
        x \in answered \/ (x.upload = u /\ x.id = a /\ u.key # NoKey)
  BY DEF EnqueueNew, Answer
<1>8. AnswersAreKept'
  BY <1>2, <1>3, <1>6, <1>7 DEF KeyInv, AnswersAreKept
<1> QED
  BY <1>5, <1>8 DEF KeyInv

LEMMA EnqueueAgainKeepsKeys ==
  ASSUME KeyInv, NEW u \in Uploads, NEW a \in Analyses, EnqueueAgain(u, a)
  PROVE  KeyInv'
<1>1. upload' = upload /\ state' = state
  BY DEF EnqueueAgain
<1>2. \A x \in answered' : x \in answered \/ (x.upload = u /\ x.id = a)
  BY DEF EnqueueAgain, Answer
<1>3. /\ upload[a] # NoUpload /\ upload[a].key = u.key /\ u.key # NoKey
      /\ upload[a].sha256 = u.sha256
      /\ u.case_id # NoCase => upload[a].case_id = u.case_id
  BY DEF EnqueueAgain, Previous, SameUpload
<1> QED
  BY <1>1, <1>2, <1>3 DEF KeyInv, AnswersAreKept, OneRowPerKey

\* However often, with whatever content and case an upload is repeated, its
\* Idempotency-Key names one analysis.
THEOREM KeysNameOneAnalysis == Spec => []OneAnalysisPerKey
<1>1. Init => KeyInv
  BY DEF Init, KeyInv, AnswersAreKept, OneRowPerKey
<1>2. TypeOK /\ QueueInv /\ KeyInv /\ [Next]_vars => KeyInv'
  <2> SUFFICES ASSUME TypeOK, QueueInv, KeyInv, [Next]_vars PROVE KeyInv'
    OBVIOUS
  <2>1. CASE \E u \in Uploads, a \in Analyses : EnqueueNew(u, a) \/ EnqueueAgain(u, a)
    BY <2>1, EnqueueNewKeepsKeys, EnqueueAgainKeepsKeys
  <2>2. CASE ~\E u \in Uploads, a \in Analyses : EnqueueNew(u, a) \/ EnqueueAgain(u, a)
    BY <2>2, RowsStay DEF KeyInv, AnswersAreKept, OneRowPerKey
  <2> QED
    BY <2>1, <2>2
<1>3. TypeOK /\ KeyInv => OneAnalysisPerKey
  BY DEF TypeOK, KeyInv, AnswersAreKept, OneRowPerKey, OneAnalysisPerKey
<1> QED
  BY <1>1, <1>2, <1>3, QueueCorrect, PTL DEF Spec
=============================================================================
