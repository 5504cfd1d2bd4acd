------------------------------ MODULE Enrichments ------------------------------
(***************************************************************************)
(* Explicit requests to external providers about the evidence of an        *)
(* analysis (backend/investigation/enrichment_api.py): lookups, the        *)
(* submission of a file or URL, polls of an accepted submission and health *)
(* checks, under a shared quota.                                           *)
(*                                                                         *)
(* Each handler reserves in a transaction and commits, then awaits the     *)
(* provider, then stores the result with no look at what became of the row *)
(* meanwhile.  That is right only if no other request can be under way for *)
(* the same row, which rests on the clock: poll_after is ahead of now for  *)
(* longer than a provider may take.                                        *)
(*                                                                         *)
(* Time is kept as differences, as in JobQueue: wait = poll_after - now,   *)
(* slot = requested_at + 60 - now, left = the deadline of a request - now. *)
(***************************************************************************)
EXTENDS Integers, FiniteSets, Providers

CONSTANTS
  Ops,         \* ids of enrichments
  Targets,     \* (analysis, provider, kind, value): one provider
  Keys,        \* request_ids clients generate
  Requests,    \* slots for requests the API is serving
  Quota,       \* slots of the provider: 4 or 10 per minute
  Minute,      \* length of the quota's window
  PollGap,     \* the 30 of poll_after
  Deadline,    \* ProviderHTTP.timeout, and the time to store a result
  MaxPolls,    \* the 40 of the polling limit
  MaxCrashes,  \* bound: how often the API is killed or loses a result
  NoRow, NoKey, NoCall, NoOp

ASSUME TimesAssumption ==
  /\ Minute \in Nat /\ PollGap \in Nat /\ Deadline \in Nat
  /\ Deadline < PollGap
  /\ 2 * Deadline < Minute
ASSUME BoundsAssumption == MaxPolls \in Nat /\ MaxCrashes \in Nat
ASSUME QuotaAssumption == IsFiniteSet(Quota)
ASSUME NoOpAssumption == NoOp \notin Ops /\ NoKey \notin Keys

VARIABLES
  provider, \* the one all this is about
  row,      \* rows of enrichments
  slot,     \* enrichment_attempts: time until each counts no more
  call,     \* the requests to the provider under way
  sent,     \* history: submissions made for each request_id
  polled,   \* history: time since the last poll of each operation
  crashes   \* bound on ResultLost and ApiCrash

vars == <<provider, row, slot, call, sent, polled, crashes>>

Statuses == {"pending", "available", "unknown", "unavailable", "error"}

\* external: external_id is not null.  visibility: the metadata of the result.
Rows == [target : Targets, action : {"lookup", "submit"}, status : Statuses,
         external : BOOLEAN, key : Keys \cup {NoKey}, wait : 0..PollGap,
         polls : 0..MaxPolls, visibility : {"absent", "asked", "other"}]
Calls == [op : Ops \cup {NoOp}, kind : {"lookup", "submit", "poll", "health"},
          left : 0..2 * Deadline]

ASSUME NoRowAssumption == NoRow \notin Rows /\ NoCall \notin Calls

Init ==
  /\ provider \in Names
  /\ row = [o \in Ops |-> NoRow]
  /\ slot = [s \in Quota |-> 0]
  /\ call = [q \in Requests |-> NoCall]
  /\ sent = [k \in Keys |-> 0]
  /\ polled = [o \in Ops |-> PollGap]
  /\ crashes = 0

----------------------------------------------------------------------------
(* Reservations.                                                           *)

\* reserve_rate: refused when every slot is taken; an attempt counts while
\* requested_at > clock - 60.
ReserveRate(s) ==
  /\ slot[s] = 0
  /\ slot' = [slot EXCEPT ![s] = Minute]

\* A urlscan lookup that finds a scan makes a second HTTP request for it.
Lasts(kind) == IF kind = "lookup" THEN 2 * Deadline ELSE Deadline

Ask(q, o, kind) ==
  /\ call[q] = NoCall
  /\ call' = [call EXCEPT ![q] = [op |-> o, kind |-> kind, left |-> Lasts(kind)]]

PendingWithKey(k) ==
  {o \in Ops : row[o] # NoRow /\ k # NoKey /\ row[o].key = k /\ row[o].status = "pending"}

\* The operation reserve() finds for a request_id it has seen: it is returned
\* or, for a different request, refused; either way nothing changes.
Previous(k) == {o \in Ops : row[o] # NoRow /\ k # NoKey /\ row[o].key = k}

\* A submission of this target is pending already.
SubmissionPending(t) ==
  \E o \in Ops : /\ row[o] # NoRow
                 /\ row[o].target = t
                 /\ row[o].action = "submit"
                 /\ row[o].status = "pending"

\* reserve() of a lookup or a submission, and the request that follows.  Only
\* submissions carry a key.
Reserve(q, o, t, action, k, s) ==
  /\ row[o] = NoRow
  /\ action = "lookup" => k = NoKey
  /\ Previous(k) = {}
  /\ action = "submit" => ~SubmissionPending(t)
  /\ ReserveRate(s)
  /\ row' = [row EXCEPT ![o] =
               [target |-> t, action |-> action, status |-> "pending",
                external |-> FALSE, key |-> k, wait |-> PollGap, polls |-> 0,
                visibility |-> "absent"]]
  /\ Ask(q, o, action)
  /\ sent' = IF k = NoKey THEN sent ELSE [sent EXCEPT ![k] = @ + 1]
  /\ UNCHANGED <<provider, polled, crashes>>

PollableAgain == {"pending", "error", "available"}

Pollable == {"pending", "error"}

PollsLeft(o) == row[o].polls < MaxPolls

WaitForgotten(r) == r.wait

\* poll_after=now+30, before the provider is asked.
WaitAfterPoll(r) == PollGap

Polled(r) == [r EXCEPT !.wait = WaitAfterPoll(r), !.polls = @ + 1]

\* poll_analysis, up to the request.
Poll(q, o, s) ==
  /\ row[o] # NoRow
  /\ row[o].external
  /\ row[o].status \in Pollable
  /\ row[o].wait = 0
  /\ PollsLeft(o)
  /\ ReserveRate(s)
  /\ row' = [row EXCEPT ![o] = Polled(@)]
  /\ polled' = [polled EXCEPT ![o] = 0]
  /\ Ask(q, o, "poll")
  /\ UNCHANGED <<provider, sent, crashes>>

FreeHealthCheck(s) == UNCHANGED slot

HealthRate(s) == ReserveRate(s)

\* integration_health: no operation, but a request of the same quota.
HealthCheck(q, s) ==
  /\ HealthRate(s)
  /\ Ask(q, NoOp, "health")
  /\ UNCHANGED <<provider, row, sent, polled, crashes>>

----------------------------------------------------------------------------
(* Results.                                                                *)

\* The row once its result is stored.  Metadata is merged, and a submission
\* has asked for a visibility; whatever the result says, another one is an
\* error.
Answered(r, a) ==
  LET visibility == IF a.visibility = "silent" THEN r.visibility ELSE a.visibility
      status == IF r.action = "submit" /\ visibility = "other" THEN "error" ELSE a.status
  IN [r EXCEPT !.status = status,
               !.external = @ \/ a.external,
               !.visibility = visibility,
               !.wait = IF status = "pending" THEN PollGap ELSE 0]

\* execute() and save_result()
SaveResult(q) ==
  /\ call[q] # NoCall
  /\ call[q].op # NoOp
  /\ \E a \in Answers :
       /\ a.from = provider
       /\ a.to = call[q].kind
       /\ row' = [row EXCEPT ![call[q].op] = Answered(@, a.result)]
  /\ call' = [call EXCEPT ![q] = NoCall]
  /\ UNCHANGED <<provider, slot, sent, polled, crashes>>

\* integration_health stores into a table of its own.
SaveHealth(q) ==
  /\ call[q] # NoCall
  /\ call[q].op = NoOp
  /\ call' = [call EXCEPT ![q] = NoCall]
  /\ UNCHANGED <<provider, row, slot, sent, polled, crashes>>

\* save_result or the health check raises (a write lock that is not free in
\* time, a full disk): nothing is stored, and the request is over.
ResultLost(q) ==
  /\ call[q] # NoCall
  /\ crashes < MaxCrashes
  /\ crashes' = crashes + 1
  /\ call' = [call EXCEPT ![q] = NoCall]
  /\ UNCHANGED <<provider, row, slot, sent, polled>>

\* The web process is killed: the operations stay as they were reserved.
ApiCrash ==
  /\ crashes < MaxCrashes
  /\ crashes' = crashes + 1
  /\ \E q \in Requests : call[q] # NoCall
  /\ call' = [q \in Requests |-> NoCall]
  /\ UNCHANGED <<provider, row, slot, sent, polled>>

Less(n) == IF n > 0 THEN n - 1 ELSE 0

\* Time passes, but no request outlives its deadline.
Tick ==
  /\ \A q \in Requests : call[q] # NoCall => call[q].left > 0
  /\ \/ \E s \in Quota : slot[s] > 0
     \/ \E o \in Ops : row[o] # NoRow /\ row[o].wait > 0
  /\ slot' = [s \in Quota |-> Less(slot[s])]
  /\ row' = [o \in Ops |-> IF row[o] = NoRow THEN NoRow
                           ELSE [row[o] EXCEPT !.wait = Less(@)]]
  /\ call' = [q \in Requests |-> IF call[q] = NoCall THEN NoCall
                                 ELSE [call[q] EXCEPT !.left = Less(@)]]
  /\ polled' = [o \in Ops |-> IF polled[o] < PollGap THEN polled[o] + 1 ELSE PollGap]
  /\ UNCHANGED <<provider, sent, crashes>>

Next ==
  \/ \E q \in Requests, s \in Quota :
       \/ \E o \in Ops, t \in Targets, action \in {"lookup", "submit"},
             k \in Keys \cup {NoKey} : Reserve(q, o, t, action, k, s)
       \/ \E o \in Ops : Poll(q, o, s)
       \/ HealthCheck(q, s)
  \/ \E q \in Requests : SaveResult(q) \/ SaveHealth(q) \/ ResultLost(q)
  \/ ApiCrash
  \/ Tick

Spec == Init /\ [][Next]_vars

----------------------------------------------------------------------------
(* Properties.                                                             *)

\* The columns of the tables, the requests under way and the histories.
TypeOK ==
  /\ provider \in Names
  /\ row \in [Ops -> Rows \cup {NoRow}]
  /\ slot \in [Quota -> 0..Minute]
  /\ call \in [Requests -> Calls \cup {NoCall}]
  /\ sent \in [Keys -> Nat]
  /\ polled \in [Ops -> 0..PollGap]
  /\ crashes \in 0..MaxCrashes

\* save_result overwrites whatever it finds: no two requests, of any kind,
\* are ever under way for one operation.
OneCallPerOperation ==
  \A q, r \in Requests :
    call[q] # NoCall /\ call[r] # NoCall /\ call[q].op = call[r].op
      /\ call[q].op # NoOp => q = r

\* "Generate one UUID per explicit user action" (docs/ENRICHMENTS.md):
\* however often a client repeats it, evidence leaves once for one key.
SentOncePerKey == \A k \in Keys : sent[k] <= 1

\* "Failures and health checks count": the provider never serves more
\* requests of ours at once than it allows us in a minute.
WithinQuota ==
  Cardinality({q \in Requests : call[q] # NoCall}) <= Cardinality(Quota)

\* A report, and the news that there is none, stays: no late or repeated
\* request replaces it.
ReportsAreKept ==
  [][\A o \in Ops :
       row[o] # NoRow /\ row[o].status \in {"available", "unknown", "unavailable"}
         => [row'[o] EXCEPT !.wait = 0] = [row[o] EXCEPT !.wait = 0]]_vars

\* What an abstract operation is here: an id without a row is absent.
Status(o) == IF row[o] = NoRow THEN "absent" ELSE row[o].status

Subject(o) ==
  IF row[o] = NoRow THEN NoRow
  ELSE [target |-> row[o].target, action |-> row[o].action, key |-> row[o].key]

News(o) ==
  IF row[o] = NoRow THEN [external |-> FALSE, visibility |-> "absent"]
  ELSE [external |-> row[o].external, visibility |-> row[o].visibility]

Polls(o) == IF row[o] = NoRow THEN 0 ELSE row[o].polls

Asking(o) == {q \in Requests : call[q] # NoCall /\ call[q].op = o}

Promise == INSTANCE ProviderDialogue WITH
  status <- [o \in Ops |-> Status(o)],
  subject <- [o \in Ops |-> Subject(o)],
  news <- [o \in Ops |-> News(o)],
  polls <- [o \in Ops |-> Polls(o)],
  asking <- [o \in Ops |-> Asking(o)]

\* save_result overwrites whatever it finds, and all the same an operation is
\* one dialogue: a question at a time, whatever the clock and other clients
\* do; no late or repeated request replaces a report or what was asked.
RefinesDialogue == Promise!DialogueSpec

\* "Polls are spaced at least 30 seconds apart" (docs/ENRICHMENTS.md).
PollsAreSpaced ==
  [][\A o \in Ops :
       row[o] # NoRow /\ row'[o].polls > row[o].polls => polled[o] = PollGap]_vars

=============================================================================
