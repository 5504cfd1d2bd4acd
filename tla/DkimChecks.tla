------------------------------ MODULE DkimChecks ------------------------------
(***************************************************************************)
(* Explicit DKIM verifications (backend/investigation/dkim_api.py).        *)
(*                                                                         *)
(* A check is reserved and committed, then runs in a subprocess with a     *)
(* timeout, then its result is stored.  When the API dies in between, the  *)
(* row stays pending until somebody recovers it; and a check that is only  *)
(* slow may come back after that, when its analysis was perhaps checked    *)
(* again.  Clients are told what the row says.                             *)
(*                                                                         *)
(* wait = poll_after - now; left = the time the subprocess has.  Nothing   *)
(* bounds how late the result of a check arrives.  The quota, which every  *)
(* enrichment shares, is left to module Enrichments.                       *)
(***************************************************************************)
EXTENDS Integers

CONSTANTS
  Ops,            \* ids of the rows with provider 'dkim'
  Analyses,       \* analyses
  Keys,           \* request_ids clients generate
  Requests,       \* slots for requests the API is serving
  RecoveryDelay,  \* RECOVERY_DELAY
  Timeout,        \* VERIFICATION_TIMEOUT
  MaxCrashes,     \* bound: how often the API is killed
  NoRow, NoKey, NoCall

ASSUME TimesAssumption ==
  RecoveryDelay \in Nat /\ Timeout \in Nat /\ Timeout < RecoveryDelay
ASSUME BoundsAssumption == MaxCrashes \in Nat
ASSUME NoKeyAssumption == NoKey \notin Keys

VARIABLES
  kept,     \* analyses that are not purged
  row,      \* rows of enrichments, those of purged analyses included
  call,     \* the verifications under way
  told,     \* history: what clients were told of an operation that ended
  audits,   \* history: events that record the end of an operation
  lost,     \* history: operations whose process was killed
  crashes   \* bound on ApiCrash

vars == <<kept, row, call, told, audits, lost, crashes>>

\* "interrupted" is unavailable with the reason verification_interrupted;
\* "checked" is whatever else a verification may say.
Outcomes == {"checked", "interrupted"}
Rows == [analysis : Analyses, status : {"pending"} \cup Outcomes,
         key : Keys \cup {NoKey}, wait : 0..RecoveryDelay]
Answers == [op : Ops, outcome : Outcomes]
Calls == [op : Ops, left : 0..Timeout]

ASSUME NoRowAssumption == NoRow \notin Rows /\ NoCall \notin Calls

Init ==
  /\ kept = Analyses
  /\ row = [o \in Ops |-> NoRow]
  /\ call = [q \in Requests |-> NoCall]
  /\ told = {}
  /\ audits = [o \in Ops |-> 0]
  /\ lost = {}
  /\ crashes = 0

----------------------------------------------------------------------------

\* SELECT finds the row.
Exists(o) == row[o] # NoRow /\ row[o].analysis \in kept

Pending(o) == row[o] # NoRow /\ row[o].status = "pending"

\* decode(row) in an answer; only answers about an ended operation count.
Tell(o, status) ==
  told' = told \cup ({[op |-> o, outcome |-> status]} \cap Answers)

\* The row a request_id was used for.
Previous(k) == {o \in Ops : Exists(o) /\ k # NoKey /\ row[o].key = k}

PendingForKey(a, k) ==
  \E o \in Ops : Pending(o) /\ row[o].analysis = a /\ row[o].key = k

\* The rows that make verify_dkim give up its own reservation.
PendingFor(a, k) == \E o \in Ops : Pending(o) /\ row[o].analysis = a

NoDelay == 0
\* poll_after = now + RECOVERY_DELAY
RecoverableAfter == RecoveryDelay

\* verify_dkim, up to the verification.
Verify(q, o, a, k) ==
  /\ row[o] = NoRow
  /\ a \in kept
  /\ call[q] = NoCall
  /\ Previous(k) = {}
  /\ ~PendingFor(a, k)
  /\ row' = [row EXCEPT ![o] = [analysis |-> a, status |-> "pending", key |-> k,
                                wait |-> RecoverableAfter]]
  /\ call' = [call EXCEPT ![q] = [op |-> o, left |-> Timeout]]
  /\ UNCHANGED <<kept, told, audits, lost, crashes>>

\* verify_dkim, repeated with its request_id.
Repeat(o, a, k) ==
  /\ o \in Previous(k)
  /\ row[o].analysis = a
  /\ Tell(o, row[o].status)
  /\ UNCHANGED <<kept, row, call, audits, lost, crashes>>

EndsAgain(o) == TRUE
EndsInTime(o) == Pending(o) /\ row[o].wait > 0

\* row["status"] == "pending", for both callers.
MayEnd(o) == Pending(o)

\* The tail of both callers: persist_terminal in their transaction, or, for
\* an operation that has ended, only decode(row).
PersistTerminal(o, outcome) ==
  IF MayEnd(o)
  THEN /\ row' = [row EXCEPT ![o] = [@ EXCEPT !.status = outcome, !.wait = 0]]
       /\ audits' = [audits EXCEPT ![o] = @ + 1]
       /\ Tell(o, outcome)
  ELSE Tell(o, row[o].status) /\ UNCHANGED <<row, audits>>

\* complete_verification: the first end of an operation is its only one.
\* Nothing is written when the analysis was purged meanwhile.
Complete(q) ==
  /\ call[q] # NoCall
  /\ IF Exists(call[q].op) THEN PersistTerminal(call[q].op, "checked")
     ELSE UNCHANGED <<row, told, audits>>
  /\ call' = [call EXCEPT ![q] = NoCall]
  /\ UNCHANGED <<kept, lost, crashes>>

\* recover_dkim: refused while the row is pending and its delay runs.
Recover(o) ==
  /\ Exists(o)
  /\ Pending(o) => row[o].wait = 0
  /\ PersistTerminal(o, "interrupted")
  /\ UNCHANGED <<kept, call, lost, crashes>>

\* Retention, outside this repository, removes an analysis and its
\* enrichments, but not while a check of it is pending.
Purge(a) ==
  /\ a \in kept
  /\ ~PendingFor(a, NoKey)
  /\ kept' = kept \ {a}
  /\ UNCHANGED <<row, call, told, audits, lost, crashes>>

\* The web process is killed.
ApiCrash ==
  /\ crashes < MaxCrashes
  /\ crashes' = crashes + 1
  /\ \E q \in Requests : call[q] # NoCall
  /\ call' = [q \in Requests |-> NoCall]
  /\ lost' = lost \cup {call[q].op : q \in {r \in Requests : call[r] # NoCall}}
  /\ UNCHANGED <<kept, row, told, audits>>

Less(n) == IF n > 0 THEN n - 1 ELSE 0

\* Time passes.
Tick ==
  /\ \E o \in Ops : row[o] # NoRow /\ row[o].wait > 0
  /\ row' = [o \in Ops |-> IF row[o] = NoRow THEN NoRow
                           ELSE [row[o] EXCEPT !.wait = Less(@)]]
  /\ call' = [q \in Requests |-> IF call[q] = NoCall THEN NoCall
                                 ELSE [call[q] EXCEPT !.left = Less(@)]]
  /\ UNCHANGED <<kept, told, audits, lost, crashes>>

Next ==
  \/ \E o \in Ops, a \in Analyses, k \in Keys \cup {NoKey} :
       \/ \E q \in Requests : Verify(q, o, a, k)
       \/ Repeat(o, a, k)
  \/ \E q \in Requests : Complete(q)
  \/ \E o \in Ops : Recover(o)
  \/ \E a \in Analyses : Purge(a)
  \/ ApiCrash
  \/ Tick

Spec == Init /\ [][Next]_vars

(* A verification has a timeout and its result is stored at once.          *)
Fairness(q) == WF_vars(Complete(q))

FairSpec == Spec /\ \A q \in Requests : Fairness(q)

----------------------------------------------------------------------------
(* Properties.                                                             *)

\* The rows, the verifications under way and the histories.
TypeOK ==
  /\ kept \subseteq Analyses
  /\ row \in [Ops -> Rows \cup {NoRow}]
  /\ call \in [Requests -> Calls \cup {NoCall}]
  /\ told \subseteq Answers
  /\ audits \in [Ops -> Nat]
  /\ lost \subseteq Ops
  /\ crashes \in 0..MaxCrashes

\* "A recovered operation is never revived" (complete_verification): every
\* client that was told how an operation ended was told the same, and that
\* is what the row still says.
OneAnswer ==
  \A x \in told : row[x.op] # NoRow /\ row[x.op].status = x.outcome

\* "Terminal state and audit must become visible together": an operation has
\* ended exactly when its end is in the journal, and once only.
AuditedOnce ==
  \A o \in Ops : audits[o] = (IF row[o] = NoRow \/ Pending(o) THEN 0 ELSE 1)

\* "Raising inside the write transaction rolls back the new reserve": no two
\* verifications of one analysis are pending, with or without request ids.
OnePending ==
  \A x, y \in Ops :
    Pending(x) /\ Pending(y) /\ row[x].analysis = row[y].analysis => x = y

\* No recovery, late result or repeated request ends an operation twice, for
\* its clients or in the journal.
EndedOnce == OneAnswer /\ AuditedOnce

\* "Verification is still active; recovery is not available yet": no row is
\* declared interrupted while its subprocess is within its time.
ActiveIsNotInterrupted ==
  [][\A o \in Ops : \A q \in Requests :
       /\ Pending(o) /\ row'[o].status = "interrupted"
       /\ call[q] # NoCall /\ call[q].op = o
       => call[q].left = 0]_vars

\* A check ends, unless its process was killed; and then it can be recovered.
ChecksEnd == \A o \in Ops : Pending(o) ~> ~Pending(o) \/ o \in lost
=============================================================================
