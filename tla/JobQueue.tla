------------------------------ MODULE JobQueue ------------------------------
(***************************************************************************)
(* The durable analysis queue of backend/investigation/jobs.py: the tables *)
(* jobs and analyses, the API handlers that add to them (enqueue,          *)
(* retry_analysis) and the worker processes that claim a job, analyse it   *)
(* and commit the outcome under an expiring lease.                         *)
(*                                                                         *)
(* Every handler of the source works inside one BEGIN IMMEDIATE            *)
(* transaction, so each is one action here.  What interleaves is what the  *)
(* source leaves between two transactions: a worker reads, parses, and     *)
(* looks at the clock before it enters the transaction that stores the     *)
(* outcome, and meanwhile its lease may end, another worker may take the   *)
(* job, and an analyst may restart it.                                     *)
(*                                                                         *)
(* Time.  The code only ever compares lease_until and available_at with    *)
(* now, so the model keeps the differences: leaseLeft = lease_until - now, *)
(* saturated at -1 (expired), and waitLeft = available_at - now, saturated *)
(* at 0 (ready).  Tick lets time pass for every row at once, and no clock  *)
(* has to be bounded.                                                      *)
(***************************************************************************)
EXTENDS Integers, FiniteSets

CONSTANTS
  Analyses,      \* analysis ids; their order is that of (created_at, id)
  Workers,       \* worker processes
  Tokens,        \* lease tokens (uuid4 values)
  Keys,          \* (user, Idempotency-Key) pairs a client may send
  Digests,       \* sha256 of the uploaded messages
  Cases,         \* the investigations an upload may name
  EnvLimits,     \* values JOB_MAX_ATTEMPTS may have when a job is created
  LeaseTicks,    \* length of a lease, JOB_TIMEOUT_SECONDS + 60
  BackoffCap,    \* the 60 of min(60, 2**attempts)
  MaxRetries,    \* bound: how often analysts restart a failed analysis
  MaxCrashes,    \* bound: how often workers are killed
  NoToken, NoJob, NoKey, NoCase, NoUpload, NoWorker

ASSUME AnalysesAssumption == Analyses \subseteq Nat
ASSUME TimeAssumption == LeaseTicks \in Nat /\ BackoffCap \in Nat \ {0}
ASSUME LimitsAssumption == EnvLimits \subseteq Int
ASSUME BoundsAssumption == MaxRetries \in Nat /\ MaxCrashes \in Nat
\* uuid4 never runs out of values: every row and every process may have one.
ASSUME TokensAssumption ==
  IsFiniteSet(Tokens) =>
    Cardinality(Tokens) >= Cardinality(Analyses) + Cardinality(Workers)
ASSUME NoTokenAssumption == NoToken \notin Tokens
ASSUME NoJobAssumption == NoJob \notin Analyses
ASSUME NoKeyAssumption == NoKey \notin Keys
ASSUME NoWorkerAssumption == NoWorker \notin Workers

VARIABLES
  state,         \* jobs.state, "absent" when the analysis has no job row
  status,        \* analyses.status, "absent" when there is no such analysis
  attempts,      \* jobs.attempts
  limit,         \* jobs.max_attempts
  token,         \* jobs.lease_token
  leaseLeft,     \* jobs.lease_until - now
  waitLeft,      \* jobs.available_at - now
  upload,        \* what enqueue recorded: idempotency_key, sha256, case_id
  apiUp,         \* the web process has run initialize()
  pc,            \* where each worker is in run_once
  job,           \* the analysis of the job dict a worker holds
  held,          \* the lease_token of that dict
  timely,        \* finish's now, as far as it is read: lease_until >= now
  answered,      \* history: replies the API gave to requests with a key
  latest,        \* history: the worker of the last claim, until it is void
  retries,       \* bound on RetryAnalysis
  crashes        \* bound on Crash

rowVars    == <<state, status, attempts, limit, token, leaseLeft, waitLeft>>
workerVars == <<pc, job, held, timely>>
vars == <<state, status, attempts, limit, token, leaseLeft, waitLeft, upload,
          apiUp, pc, job, held, timely, answered, latest, retries, crashes>>

Statuses == {"absent", "queued", "running", "completed", "failed"}
Settled  == {"completed", "failed"}
Places   == {"down", "idle", "evidence", "parser", "persistence", "saving",
             "failing", "reporting"}
Uploads  == [key : Keys \cup {NoKey}, sha256 : Digests,
             case_id : Cases \cup {NoCase}]
ASSUME NoUploadAssumption == NoUpload \notin Uploads

----------------------------------------------------------------------------
(* Operators of the handlers.                                              *)

\* Faulty variants, each named for its fault and standing before the operator
\* it would replace, show which property each detail is there for.
\* max(1, min(10, int(JOB_MAX_ATTEMPTS)))
ClampLimit(n) == IF n < 1 THEN 1 ELSE IF n > 10 THEN 10 ELSE n

\* min(60, 2 ** attempts)
Backoff(n) == IF 2^n \in 0..BackoffCap THEN 2^n ELSE BackoffCap

OneAttemptTooMany(a) == IF attempts[a] > limit[a] THEN "failed" ELSE "queued"

\* The state a lost or failed attempt leaves its job in.
AfterAttempt(a) == IF attempts[a] >= limit[a] THEN "failed" ELSE "queued"

LeaseOverAtDeadline(a) == state[a] = "running" /\ leaseLeft[a] <= 0

\* The jobs recover() selects: running, and the lease is over.
LeaseOver(a) == state[a] = "running" /\ leaseLeft[a] < 0

\* jobs.state once recover() has run.
Recovered(a) == IF LeaseOver(a) THEN AfterAttempt(a) ELSE state[a]

OnlyFirstAttempts ==
  {a \in Analyses : Recovered(a) = "queued" /\ waitLeft[a] = 0 /\ attempts[a] = 0}

\* The jobs claim() may select after recover().
Ready == {a \in Analyses : Recovered(a) = "queued" /\ waitLeft[a] = 0}

ReusedTokens == Tokens

\* uuid4: a value no row and no process has.
FreshTokens ==
  {t \in Tokens : /\ \A a \in Analyses : token[a] # t
                  /\ \A w \in Workers : held[w] # t}

OwnsWithoutToken(w) == state[job[w]] = "running" /\ timely[w]

\* finish()'s SELECT: the worker still owns the attempt it is about to end.
Owns(w) ==
  /\ state[job[w]] = "running"
  /\ token[job[w]] = held[w]
  /\ timely[w]

\* The row enqueue() finds for an Idempotency-Key it has seen before.
Previous(u) ==
  {a \in Analyses : /\ state[a] # "absent"
                    /\ u.key # NoKey
                    /\ upload[a] # NoUpload
                    /\ upload[a].key = u.key}

SameCaseOnly(u, a) == u.case_id = NoCase \/ u.case_id = upload[a].case_id

\* The earlier upload is the one this request repeats.
SameUpload(u, a) ==
  /\ upload[a].sha256 = u.sha256
  /\ u.case_id = NoCase \/ u.case_id = upload[a].case_id

----------------------------------------------------------------------------
(* Rows may predate the queue: analyses of a release that had no jobs      *)
(* table.  initialize() adopts those left queued or running.               *)
Init ==
  /\ state = [a \in Analyses |-> "absent"]
  /\ status \in [Analyses -> Statuses]
  /\ attempts = [a \in Analyses |-> 0]
  /\ limit = [a \in Analyses |-> 0]
  /\ token = [a \in Analyses |-> NoToken]
  /\ leaseLeft = [a \in Analyses |-> -1]
  /\ waitLeft = [a \in Analyses |-> 0]
  /\ upload = [a \in Analyses |-> NoUpload]
  /\ apiUp = FALSE
  /\ pc = [w \in Workers |-> "down"]
  /\ job = [w \in Workers |-> NoJob]
  /\ held = [w \in Workers |-> NoToken]
  /\ timely = [w \in Workers |-> FALSE]
  /\ answered = {}
  /\ latest = [a \in Analyses |-> NoWorker]
  /\ retries = 0
  /\ crashes = 0

AnyUnfinished(a) == status[a] \in {"queued", "running"}

\* initialize_jobs: unfinished analyses without a job get one.
Orphan(a) == status[a] \in {"queued", "running"} /\ state[a] = "absent"

InitializeJobs ==
  /\ state' = [a \in Analyses |-> IF Orphan(a) THEN "queued" ELSE state[a]]
  /\ status' = [a \in Analyses |-> IF Orphan(a) THEN "queued" ELSE status[a]]
  /\ limit' = [a \in Analyses |-> IF Orphan(a) THEN 3 ELSE limit[a]]
  /\ UNCHANGED <<attempts, token, leaseLeft, waitLeft, upload>>

\* The web process starts.
StartApi ==
  /\ ~apiUp
  /\ apiUp' = TRUE
  /\ InitializeJobs
  /\ UNCHANGED <<workerVars, answered, latest, retries, crashes>>

\* A worker process starts, or is started again by circus after a crash.
StartWorker(w) ==
  /\ pc[w] = "down"
  /\ pc' = [pc EXCEPT ![w] = "idle"]
  /\ InitializeJobs
  /\ UNCHANGED <<apiUp, job, held, timely, answered, latest, retries, crashes>>

\* What a request with a key was told; requests without one are not tracked.
Answer(u, a) ==
  answered' = IF u.key = NoKey THEN answered
              ELSE answered \cup {[upload |-> u, id |-> a]}

\* enqueue(), a new upload: original, analysis and job in one transaction.
EnqueueNew(u, a) ==
  /\ apiUp
  /\ status[a] = "absent"
  /\ Previous(u) = {}
  /\ \E n \in EnvLimits : limit' = [limit EXCEPT ![a] = ClampLimit(n)]
  /\ state' = [state EXCEPT ![a] = "queued"]
  /\ status' = [status EXCEPT ![a] = "queued"]
  /\ attempts' = [attempts EXCEPT ![a] = 0]
  /\ waitLeft' = [waitLeft EXCEPT ![a] = 0]
  /\ upload' = [upload EXCEPT ![a] = u]
  /\ Answer(u, a)
  /\ UNCHANGED <<token, leaseLeft, apiUp, workerVars, latest, retries, crashes>>

\* enqueue(), the key was used before: the earlier analysis is returned, or
\* the request is refused (409) and nothing changes.
EnqueueAgain(u, a) ==
  /\ apiUp
  /\ a \in Previous(u)
  /\ SameUpload(u, a)
  /\ Answer(u, a)
  /\ UNCHANGED <<rowVars, upload, apiUp, workerVars, latest, retries, crashes>>

\* POST /analyses/{id}/retry.  An analysis that failed before there was a queue
\* has no job to restart: it waits for the next start of a process.
RetryAnalysis(a) ==
  /\ apiUp
  /\ retries < MaxRetries
  /\ status[a] = "failed"
  /\ state' = [state EXCEPT ![a] = IF @ = "absent" THEN @ ELSE "queued"]
  /\ status' = [status EXCEPT ![a] = "queued"]
  /\ attempts' = [attempts EXCEPT ![a] = 0]
  /\ token' = [token EXCEPT ![a] = NoToken]
  /\ leaseLeft' = [leaseLeft EXCEPT ![a] = -1]
  /\ waitLeft' = [waitLeft EXCEPT ![a] = 0]
  /\ latest' = [latest EXCEPT ![a] = NoWorker]
  /\ retries' = retries + 1
  /\ UNCHANGED <<limit, upload, apiUp, workerVars, answered, crashes>>

----------------------------------------------------------------------------
(* Workers: run_once.                                                      *)

\* claim(): recover every lapsed lease, then take the oldest ready job.
ClaimJob(w, a, t) ==
  /\ pc[w] = "idle"
  /\ a \in Ready
  /\ \A b \in Ready : a <= b
  /\ t \in FreshTokens
  /\ state' = [x \in Analyses |-> IF x = a THEN "running" ELSE Recovered(x)]
  /\ status' = [x \in Analyses |->
                  IF x = a THEN "running"
                  ELSE IF LeaseOver(x) THEN AfterAttempt(x) ELSE status[x]]
  /\ attempts' = [attempts EXCEPT ![a] = attempts[a] + 1]
  /\ token' = [x \in Analyses |->
                 IF x = a THEN t ELSE IF LeaseOver(x) THEN NoToken ELSE token[x]]
  /\ leaseLeft' = [leaseLeft EXCEPT ![a] = LeaseTicks]
  /\ latest' = [x \in Analyses |->
                  IF x = a THEN w
                  ELSE IF LeaseOver(x) THEN NoWorker ELSE latest[x]]
  /\ pc' = [pc EXCEPT ![w] = "evidence"]
  /\ job' = [job EXCEPT ![w] = a]
  /\ held' = [held EXCEPT ![w] = t]
  /\ UNCHANGED <<limit, waitLeft, upload, apiUp, timely, answered, retries,
                 crashes>>

\* claim() finds nothing to run; what it recovered is committed all the same.
ClaimNothing(w) ==
  /\ pc[w] = "idle"
  /\ Ready = {}
  /\ \E a \in Analyses : LeaseOver(a)
  /\ state' = [x \in Analyses |-> Recovered(x)]
  /\ status' = [x \in Analyses |->
                  IF LeaseOver(x) THEN AfterAttempt(x) ELSE status[x]]
  /\ token' = [x \in Analyses |-> IF LeaseOver(x) THEN NoToken ELSE token[x]]
  /\ latest' = [x \in Analyses |-> IF LeaseOver(x) THEN NoWorker ELSE latest[x]]
  /\ UNCHANGED <<attempts, limit, leaseLeft, waitLeft, upload, apiUp,
                 workerVars, answered, retries, crashes>>

\* A step of a worker that touches no row.
Move(w, from, to) ==
  /\ pc[w] = from
  /\ pc' = [pc EXCEPT ![w] = to]
  /\ UNCHANGED <<rowVars, upload, apiUp, job, held, timely, answered, latest,
                 retries, crashes>>

\* original(): the evidence is read and its digest verified, or it is not.
ReadOriginal(w) ==
  \/ Move(w, "evidence", "parser")
  \/ Move(w, "evidence", "failing")

\* analyze_isolated(): a document, or an AnalysisError (timeout, limit, ...).
Parse(w) ==
  \/ Move(w, "parser", "persistence")
  \/ Move(w, "parser", "failing")

\* finish() reads the clock, and only then waits for the write lock.
ReadClock(w) ==
  /\ pc[w] \in {"persistence", "failing"}
  /\ pc' = [pc EXCEPT ![w] = IF pc[w] = "persistence" THEN "saving"
                             ELSE "reporting"]
  /\ timely' = [timely EXCEPT ![w] = leaseLeft[job[w]] >= 0]
  /\ UNCHANGED <<rowVars, upload, apiUp, job, held, answered, latest, retries,
                 crashes>>

\* run_once returns and its job dict is gone.
GoIdle(w) ==
  /\ pc' = [pc EXCEPT ![w] = "idle"]
  /\ job' = [job EXCEPT ![w] = NoJob]
  /\ held' = [held EXCEPT ![w] = NoToken]
  /\ timely' = [timely EXCEPT ![w] = FALSE]

ReleaseJobOnly(a, s) ==
  /\ state' = [state EXCEPT ![a] = s]
  /\ token' = [token EXCEPT ![a] = NoToken]
  /\ leaseLeft' = [leaseLeft EXCEPT ![a] = -1]
  /\ UNCHANGED status

\* finish() gives up the lease and leaves the job and the analysis in s.
Release(a, s) ==
  /\ state' = [state EXCEPT ![a] = s]
  /\ status' = [status EXCEPT ![a] = s]
  /\ token' = [token EXCEPT ![a] = NoToken]
  /\ leaseLeft' = [leaseLeft EXCEPT ![a] = -1]

\* finish(job, document) or finish(job, error), and the lease is lost.
FinishStale(w) ==
  /\ pc[w] \in {"saving", "reporting"}
  /\ ~Owns(w)
  /\ GoIdle(w)
  /\ UNCHANGED <<rowVars, upload, apiUp, answered, latest, retries, crashes>>

\* finish(job, document) commits.
FinishDocument(w) ==
  /\ pc[w] = "saving"
  /\ Owns(w)
  /\ Release(job[w], "completed")
  /\ GoIdle(w)
  /\ UNCHANGED <<attempts, limit, waitLeft, upload, apiUp, answered, latest,
                 retries, crashes>>

\* finish(job, document) raises (disk, lock, bad attachment): the transaction
\* is rolled back and run_once goes on to finish(job, error).
PersistenceFails(w) == Move(w, "saving", "failing")

\* finish(job, error) commits: back to the queue with a delay, or failed.
FinishError(w) ==
  /\ pc[w] = "reporting"
  /\ Owns(w)
  /\ Release(job[w], AfterAttempt(job[w]))
  /\ waitLeft' = [waitLeft EXCEPT ![job[w]] = Backoff(attempts[job[w]])]
  /\ GoIdle(w)
  /\ UNCHANGED <<attempts, limit, upload, apiUp, answered, latest, retries,
                 crashes>>

\* The process is killed, or an exception leaves run_once; an open
\* transaction is rolled back.
Crash(w) ==
  /\ pc[w] # "down"
  /\ crashes < MaxCrashes
  /\ crashes' = crashes + 1
  /\ pc' = [pc EXCEPT ![w] = "down"]
  /\ job' = [job EXCEPT ![w] = NoJob]
  /\ held' = [held EXCEPT ![w] = NoToken]
  /\ timely' = [timely EXCEPT ![w] = FALSE]
  /\ UNCHANGED <<rowVars, upload, apiUp, answered, latest, retries>>

\* Time passes; a worker can be slower than any lease.
Tick ==
  /\ \E a \in Analyses : \/ state[a] = "running" /\ leaseLeft[a] >= 0
                         \/ waitLeft[a] > 0
  /\ leaseLeft' = [a \in Analyses |->
                     IF leaseLeft[a] >= 0 THEN leaseLeft[a] - 1 ELSE -1]
  /\ waitLeft' = [a \in Analyses |->
                    IF waitLeft[a] > 0 THEN waitLeft[a] - 1 ELSE 0]
  /\ UNCHANGED <<state, status, attempts, limit, token, upload, apiUp,
                 workerVars, answered, latest, retries, crashes>>

Claim(w) ==
  \/ \E a \in Analyses, t \in Tokens : ClaimJob(w, a, t)
  \/ ClaimNothing(w)

Finish(w) ==
  FinishStale(w) \/ FinishDocument(w) \/ PersistenceFails(w) \/ FinishError(w)

RunOnce(w) == Claim(w) \/ ReadOriginal(w) \/ Parse(w) \/ ReadClock(w) \/ Finish(w)

Next ==
  \/ StartApi
  \/ \E u \in Uploads, a \in Analyses : EnqueueNew(u, a) \/ EnqueueAgain(u, a)
  \/ \E a \in Analyses : RetryAnalysis(a)
  \/ \E w \in Workers : StartWorker(w) \/ RunOnce(w) \/ Crash(w)
  \/ Tick

Spec == Init /\ [][Next]_vars

(* Each worker is a loop that circus restarts; the parser runs under a hard *)
(* timeout and every other call returns or raises, so a worker that can     *)
(* step does.  Time passes.  Nothing is assumed of clients and analysts.    *)
Fairness ==
  /\ WF_vars(Tick)
  /\ \A w \in Workers : WF_vars(StartWorker(w)) /\ WF_vars(RunOnce(w))

FairSpec == Spec /\ Fairness

----------------------------------------------------------------------------
(* Properties.                                                             *)

\* The values every column and every local variable of a worker can hold.
TypeOK ==
  /\ state \in [Analyses -> Statuses]
  /\ status \in [Analyses -> Statuses]
  /\ attempts \in [Analyses -> Nat]
  /\ limit \in [Analyses -> 0..10]
  /\ token \in [Analyses -> Tokens \cup {NoToken}]
  /\ leaseLeft \in [Analyses -> -1..LeaseTicks]
  /\ waitLeft \in [Analyses -> 0..BackoffCap]
  /\ upload \in [Analyses -> Uploads \cup {NoUpload}]
  /\ apiUp \in BOOLEAN
  /\ pc \in [Workers -> Places]
  /\ job \in [Workers -> Analyses \cup {NoJob}]
  /\ held \in [Workers -> Tokens \cup {NoToken}]
  /\ timely \in [Workers -> BOOLEAN]
  /\ answered \subseteq [upload : Uploads, id : Analyses]
  /\ latest \in [Analyses -> Workers \cup {NoWorker}]
  /\ retries \in 0..MaxRetries
  /\ crashes \in 0..MaxCrashes

\* jobs.state and analyses.status are written by separate statements of six
\* handlers, and retry_analysis tests one where claim and finish test the
\* other.  They agree, but for analyses of an older release, which have no job
\* unless they were adopted.
JobMatchesAnalysis ==
  \A a \in Analyses :
    state[a] = status[a] \/ (state[a] = "absent" /\ upload[a] = NoUpload)

\* A job is running exactly while its row carries a lease token.
LeaseWhileRunning ==
  \A a \in Analyses : (state[a] = "running") <=> (token[a] # NoToken)

\* A worker has the token that is in the row of its job.
HoldsLease(w, a) ==
  job[w] = a /\ held[w] = token[a] /\ token[a] # NoToken

\* No two workers, live or late, can both pass the test finish() makes.
OneLeaseHolder ==
  \A a \in Analyses : \A v, w \in Workers :
    HoldsLease(v, a) /\ HoldsLease(w, a) => v = w

\* "Retries stop after three attempts" (docs/OPERATIONS.md): claim() adds an
\* attempt without looking at max_attempts, so a queued job must always
\* have one left, and a job only fails once they are all used.
AttemptBudget ==
  \A a \in Analyses :
    /\ attempts[a] <= limit[a]
    /\ state[a] = "queued" => attempts[a] < limit[a]
    /\ state[a] = "running" => attempts[a] > 0
    /\ state[a] = "failed" => attempts[a] = limit[a]

\* Two answers to one Idempotency-Key name the same analysis and the same
\* message, and a request that named a case is told of an analysis of it.
OneAnalysisPerKey ==
  \A x, y \in answered :
    /\ x.upload.key = y.upload.key =>
         x.id = y.id /\ x.upload.sha256 = y.upload.sha256
    /\ x.upload.case_id # NoCase => upload[x.id].case_id = x.upload.case_id

\* A worker between claim and the end of run_once has a job and a token.
Busy(w) == pc[w] \notin {"down", "idle"}

JobDictWhileBusy ==
  \A w \in Workers : IF Busy(w)
                     THEN job[w] \in Analyses /\ held[w] \in Tokens
                     ELSE job[w] = NoJob /\ held[w] = NoToken

\* Only the worker of the last claim holds the lease of a job.
HolderIsLatest ==
  \A a \in Analyses : \A w \in Workers : HoldsLease(w, a) => latest[a] = w

\* The limit of attempts is fixed when the job row is made.
LimitWithJob ==
  \A a \in Analyses : IF state[a] = "absent"
                      THEN attempts[a] = 0 /\ limit[a] = 0
                      ELSE limit[a] > 0

\* Only a job that failed an attempt waits.
DelayAfterFailure ==
  \A a \in Analyses : waitLeft[a] > 0 => state[a] \in {"queued", "failed"}

\* The inductive invariant: what keeps the two tables, the leases and the
\* job dicts in the processes' memory in step with each other.
QueueInv ==
  /\ JobMatchesAnalysis
  /\ LeaseWhileRunning
  /\ AttemptBudget
  /\ LimitWithJob
  /\ DelayAfterFailure
  /\ JobDictWhileBusy
  /\ HolderIsLatest

\* The columns of an analysis and its job a worker's outcome may change.
Outcome(a) == <<state[a], status[a], token[a], attempts[a], waitLeft[a]>>

\* The step in which worker w ends its attempt.
Ends(w) == pc[w] \in {"saving", "reporting"} /\ pc'[w] = "idle"

\* "Late workers cannot overwrite a newer attempt" (docs/OPERATIONS.md): the
\* end of an attempt changes its job only if no later claim, recovery or
\* restart of that job took place since the worker claimed it.
LateWorkersChangeNothing ==
  [][\A w \in Workers : \A a \in Analyses :
       Ends(w) /\ job[w] = a /\ latest[a] # w => Outcome(a)' = Outcome(a)]_vars

\* Until a lease is over, nobody but its holder takes the job out of its
\* attempt; at lease_until = now the holder may, and recover() may not.
LeaseProtects ==
  [][\A a \in Analyses :
       state[a] = "running" /\ leaseLeft[a] >= 0 /\ token'[a] # token[a]
         => \E w \in Workers : HoldsLease(w, a) /\ Ends(w)]_vars

\* A completed analysis is never queued, claimed, failed or restarted again,
\* whatever late workers, recoveries and retries are under way.
CompletedIsFinal ==
  [][\A a \in Analyses :
       status[a] = "completed" => Outcome(a)' = Outcome(a)]_vars

\* The queue delivers what the API promises of an analysis.
Lifecycle == INSTANCE AnalysisLifecycle WITH used <- attempts, budget <- limit

RefinesLifecycle == Lifecycle!LifecycleSpec

\* Every message accepted for analysis is eventually completed or failed,
\* however often workers are killed, as long as they are started again.
EventuallySettled ==
  \A a \in Analyses : state[a] = "queued" ~> state[a] \in Settled
=============================================================================
