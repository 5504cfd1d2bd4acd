------------------------- MODULE AnalysisLifecycle -------------------------
(***************************************************************************)
(* What the queue promises about one uploaded message, seen through the    *)
(* API (docs/OPERATIONS.md, "Evidence and jobs"), with no worker, lease,   *)
(* token or clock: an analysis is queued, attempted at most budget times,  *)
(* and ends completed or failed; a failed one may be restarted by an       *)
(* analyst with a new budget; a completed one never changes again.         *)
(*                                                                         *)
(* One transaction may move several analyses, because claim() recovers     *)
(* every interrupted job before it takes one; a step of this specification *)
(* therefore lets every analysis make one move or stay.                    *)
(***************************************************************************)
EXTENDS Integers

CONSTANT Analyses

VARIABLES status,   \* what GET /analyses/{id} shows
          used,     \* attempts started since the last (re)start
          budget    \* attempts it may use; 0 while it has no job yet

lifecycleVars == <<status, used, budget>>

Becomes(a, s, u) == status'[a] = s /\ used'[a] = u

Keeps(a) == budget'[a] = budget[a]

\* The message is uploaded and acknowledged.
Submit(a) ==
  /\ status[a] = "absent"
  /\ budget'[a] \in 1..10
  /\ Becomes(a, "queued", 0)

\* An unfinished analysis of an older release enters the queue.
Adopt(a) ==
  /\ status[a] \in {"queued", "running"}
  /\ budget[a] = 0
  /\ budget'[a] \in 1..10
  /\ Becomes(a, "queued", 0)

\* An attempt starts; if one was running it was interrupted and is given up.
Start(a) ==
  /\ status[a] \in {"queued", "running"}
  /\ used[a] < budget[a]
  /\ Becomes(a, "running", used[a] + 1)
  /\ Keeps(a)

\* An attempt fails or is interrupted and another one is allowed.
PutBack(a) ==
  /\ status[a] = "running"
  /\ used[a] < budget[a]
  /\ Becomes(a, "queued", used[a])
  /\ Keeps(a)

\* The last allowed attempt fails or is interrupted.
GiveUp(a) ==
  /\ status[a] = "running"
  /\ used[a] = budget[a]
  /\ Becomes(a, "failed", used[a])
  /\ Keeps(a)

\* An attempt delivers its document.
Complete(a) ==
  /\ status[a] = "running"
  /\ budget[a] > 0
  /\ Becomes(a, "completed", used[a])
  /\ Keeps(a)

\* An analyst restarts a failed analysis.
Restart(a) ==
  /\ status[a] = "failed"
  /\ Becomes(a, "queued", 0)
  /\ Keeps(a)

Stay(a) == Becomes(a, status[a], used[a]) /\ Keeps(a)

Advance(a) ==
  \/ Submit(a)
  \/ Adopt(a)
  \/ Start(a)
  \/ PutBack(a)
  \/ GiveUp(a)
  \/ Complete(a)
  \/ Restart(a)

LifecycleInit ==
  \A a \in Analyses : /\ status[a] \in {"absent", "queued", "running",
                                        "completed", "failed"}
                      /\ used[a] = 0
                      /\ budget[a] = 0

LifecycleNext == \A a \in Analyses : Advance(a) \/ Stay(a)

LifecycleSpec == LifecycleInit /\ [][LifecycleNext]_lifecycleVars
=============================================================================
