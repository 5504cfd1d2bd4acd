-------------------------- MODULE EnrichmentsProofs --------------------------
(***************************************************************************)
(* Proofs about Enrichments for any number of operations, clients and      *)
(* quota slots, any limit of polls, and any deadline of a request that is  *)
(* shorter than the gap between polls: the invariant of the requests under *)
(* way, their quota, and that an operation refines ProviderDialogue.       *)
(***************************************************************************)
EXTENDS Enrichments, FiniteSetTheorems, TLAPS

\* A request for an operation finds the row it will overwrite as it left it:
\* of a lookup or submission nobody knows the external id to poll with yet,
\* and a poll ends before the next one is allowed.
CallsAreGuarded ==
  \A q \in Requests : call[q] # NoCall /\ call[q].op # NoOp =>
    /\ row[call[q].op] # NoRow
    /\ row[call[q].op].status \in {"pending", "error"}
    /\ call[q].kind \in {"lookup", "submit", "poll"}
    /\ IF call[q].kind = "poll"
       THEN row[call[q].op].external /\ row[call[q].op].wait > call[q].left
       ELSE ~row[call[q].op].external

\* A request_id that was used once is in a row for ever.
UsedKeysAreKept ==
  \A k \in Keys :
    \/ sent[k] = 0
    \/ sent[k] = 1 /\ \E o \in Ops : row[o] # NoRow /\ row[o].key = k

\* The inductive invariant.
RequestInv ==
  /\ TypeOK
  /\ OneCallPerOperation
  /\ CallsAreGuarded
  /\ UsedKeysAreKept

\* What a row and a call are made of, once they are there.
LEMMA RowType ==
  ASSUME TypeOK, NEW o \in Ops, row[o] # NoRow
  PROVE  /\ row[o] \in Rows
         /\ row[o].target \in Targets
         /\ row[o].status \in Statuses
         /\ row[o].external \in BOOLEAN
         /\ row[o].key \in Keys \cup {NoKey}
         /\ row[o].wait \in 0..PollGap
         /\ row[o].polls \in 0..MaxPolls
BY DEF TypeOK, Rows

LEMMA CallType ==
  ASSUME TypeOK, NEW q \in Requests, call[q] # NoCall
  PROVE  /\ call[q] \in Calls
         /\ call[q].op \in Ops \cup {NoOp}
         /\ call[q].kind \in {"lookup", "submit", "poll", "health"}
         /\ call[q].left \in 0..2 * Deadline
BY DEF TypeOK, Calls

LEMMA AskedCall ==
  ASSUME NEW o \in Ops \cup {NoOp}, NEW kind \in {"lookup", "submit", "poll", "health"}
  PROVE  /\ [op |-> o, kind |-> kind, left |-> Lasts(kind)] \in Calls
         /\ [op |-> o, kind |-> kind, left |-> Lasts(kind)] # NoCall
<1>1. Lasts(kind) \in 0..2 * Deadline
  BY TimesAssumption DEF Lasts
<1> QED
  BY <1>1, NoRowAssumption DEF Calls

\* The rows the actions write.
Fresh(t, action, k) ==
  [target |-> t, action |-> action, status |-> "pending",
   external |-> FALSE, key |-> k, wait |-> PollGap, polls |-> 0,
   visibility |-> "absent"]

Waited(r) == [r EXCEPT !.wait = Less(@)]

LEMMA FreshRow ==
  ASSUME NEW t \in Targets, NEW action \in {"lookup", "submit"},
         NEW k \in Keys \cup {NoKey}
  PROVE  Fresh(t, action, k) \in Rows /\ Fresh(t, action, k) # NoRow
<1>1. PollGap \in 0..PollGap /\ 0 \in 0..MaxPolls /\ "pending" \in Statuses
  BY TimesAssumption, BoundsAssumption DEF Statuses
<1>2. Fresh(t, action, k) \in Rows
  BY <1>1 DEF Fresh, Rows
<1> QED
  BY <1>2, NoRowAssumption

LEMMA PolledRow ==
  ASSUME NEW r \in Rows, r.polls < MaxPolls
  PROVE  /\ Polled(r) \in Rows /\ Polled(r) # NoRow
         /\ Polled(r).wait = PollGap
         /\ Polled(r).status = r.status
         /\ Polled(r).external = r.external
         /\ Polled(r).key = r.key
<1>1. PollGap \in 0..PollGap /\ r.polls + 1 \in 0..MaxPolls
  BY TimesAssumption, BoundsAssumption DEF Rows
<1> QED
  BY <1>1, NoRowAssumption DEF Polled, WaitAfterPoll, Rows

LEMMA ReportType ==
  ASSUME NEW status \in {"pending", "available", "unknown", "unavailable", "error"},
         NEW external \in BOOLEAN,
         NEW visibility \in {"silent", "absent", "asked", "other"}
  PROVE  Result(status, external, visibility) \in Results
BY DEF Result, Results

\* Whatever comes back, an adapter makes a result of it.
LEMMA AnswerType ==
  ASSUME NEW a \in Answers
  PROVE  a.result \in Results
<1>1. PICK name \in Names, kind \in {"lookup", "submit", "poll"},
           reply \in Replies, second \in Replies :
        a = [from |-> name, to |-> kind, result |-> Answer(name, kind, reply, second)]
  BY DEF Answers
<1>2. ProviderError \in Results
  BY ReportType DEF ProviderError
<1>3. \A r \in Replies : r \in Documents \/ r \in {NotFound, Gone, Failed}
  BY DEF Replies
<1>4. \A r \in Documents : r.visibility \in {"absent", "asked", "other"}
  BY DEF Documents
<1>5. VirusTotalLookup(reply) \in Results
  BY <1>2, ReportType DEF VirusTotalLookup, VirusTotalReport
<1>6. VirusTotalSubmit(reply) \in Results
  BY <1>2, ReportType DEF VirusTotalSubmit
<1>7. VirusTotalPoll(reply) \in Results
  BY <1>2, ReportType DEF VirusTotalPoll, VirusTotalReport
<1>8. ASSUME NEW r \in Replies PROVE UrlscanPoll(r) \in Results
  BY <1>2, <1>3, <1>4, ReportType DEF UrlscanPoll, UrlscanReport
<1>9. UrlscanLookup(reply, second) \in Results
  BY <1>2, <1>8, ReportType DEF UrlscanLookup
<1>10. UrlscanSubmit(reply) \in Results
  BY <1>2, ReportType DEF UrlscanSubmit
<1> QED
  BY <1>1, <1>5, <1>6, <1>7, <1>8, <1>9, <1>10 DEF Answer

LEMMA AnsweredRow ==
  ASSUME NEW r \in Rows, NEW a \in Results
  PROVE  /\ Answered(r, a) \in Rows
         /\ Answered(r, a) # NoRow
         /\ Answered(r, a).key = r.key
<1> DEFINE v == IF a.visibility = "silent" THEN r.visibility ELSE a.visibility
           t == IF r.action = "submit" /\ v = "other" THEN "error" ELSE a.status
           w == IF t = "pending" THEN PollGap ELSE 0
           e == r.external \/ a.external
<1>1. w \in 0..PollGap
  BY TimesAssumption
<1>2. e \in BOOLEAN
  OBVIOUS
<1>3. v \in {"absent", "asked", "other"}
  BY DEF Rows, Results
<1>4. t \in Statuses
  BY DEF Results, Statuses
<1>5. Answered(r, a) =
        [r EXCEPT !.status = t, !.external = e, !.visibility = v, !.wait = w]
  BY DEF Answered, Rows
<1> HIDE DEF w, e, v, t
<1>6. [r EXCEPT !.status = t, !.external = e, !.visibility = v, !.wait = w] \in Rows
  BY <1>1, <1>2, <1>3, <1>4 DEF Rows
<1>7. [r EXCEPT !.status = t, !.external = e, !.visibility = v, !.wait = w].key = r.key
  BY DEF Rows
<1> QED
  BY <1>5, <1>6, <1>7, NoRowAssumption

LEMMA WaitedRow ==
  ASSUME NEW r \in Rows
  PROVE  /\ Waited(r) \in Rows /\ Waited(r) # NoRow
         /\ Waited(r).wait = Less(r.wait)
         /\ Waited(r).status = r.status
         /\ Waited(r).external = r.external
         /\ Waited(r).key = r.key
<1>1. Less(r.wait) \in 0..PollGap
  BY TimesAssumption DEF Less, Rows
<1> QED
  BY <1>1, NoRowAssumption DEF Waited, Rows

----------------------------------------------------------------------------
(* What each action does, in terms of those rows.                          *)

LEMMA ReserveDoes ==
  ASSUME NEW q \in Requests, NEW o \in Ops, NEW t \in Targets,
         NEW action \in {"lookup", "submit"}, NEW k \in Keys \cup {NoKey},
         NEW s \in Quota, Reserve(q, o, t, action, k, s)
  PROVE  /\ row[o] = NoRow /\ call[q] = NoCall
         /\ row' = [row EXCEPT ![o] = Fresh(t, action, k)]
         /\ call' = [call EXCEPT ![q] =
                       [op |-> o, kind |-> action, left |-> Lasts(action)]]
BY DEF Reserve, Ask, Fresh

LEMMA PollDoes ==
  ASSUME TypeOK, NEW q \in Requests, NEW o \in Ops, NEW s \in Quota, Poll(q, o, s)
  PROVE  /\ row[o] \in Rows /\ row[o] # NoRow /\ row[o].external
         /\ row[o].status \in {"pending", "error"}
         /\ row[o].wait = 0 /\ row[o].polls < MaxPolls
         /\ call[q] = NoCall
         /\ row' = [row EXCEPT ![o] = Polled(row[o])]
         /\ call' = [call EXCEPT ![q] = [op |-> o, kind |-> "poll", left |-> Deadline]]
<1>1. row[o] \in Rows
  BY RowType DEF Poll
<1>2. row' = [row EXCEPT ![o] = Polled(row[o])]
  BY DEF Poll
<1> QED
  BY <1>1, <1>2 DEF Poll, Pollable, PollsLeft, Ask, Lasts

LEMMA SaveResultDoes ==
  ASSUME TypeOK, NEW q \in Requests, SaveResult(q), CallsAreGuarded
  PROVE  /\ call[q] # NoCall /\ call[q].op \in Ops /\ row[call[q].op] \in Rows
         /\ row[call[q].op] # NoRow
         /\ call' = [call EXCEPT ![q] = NoCall]
         /\ \E a \in Results :
              row' = [row EXCEPT ![call[q].op] = Answered(row[call[q].op], a)]
<1> DEFINE o == call[q].op
<1>1. call[q] # NoCall /\ o \in Ops
  BY CallType DEF SaveResult
<1>2. row[o] # NoRow /\ row[o] \in Rows /\ call[q].kind \in {"lookup", "submit", "poll"}
  BY <1>1, RowType DEF CallsAreGuarded, SaveResult
<1>3. PICK a \in Answers : row' = [row EXCEPT ![o] = Answered(row[o], a.result)]
  BY DEF SaveResult
<1>4. a.result \in Results
  BY AnswerType
<1> QED
  BY <1>1, <1>2, <1>3, <1>4 DEF SaveResult

LEMMA TickDoes ==
  ASSUME TypeOK, Tick
  PROVE  /\ \A q \in Requests : call[q] # NoCall => call[q].left > 0
         /\ row' = [o \in Ops |-> IF row[o] = NoRow THEN NoRow ELSE Waited(row[o])]
         /\ \A q \in Requests :
              /\ call[q] = NoCall => call'[q] = NoCall
              /\ call[q] # NoCall =>
                   /\ call'[q] \in Calls /\ call'[q] # NoCall
                   /\ call'[q].op = call[q].op /\ call'[q].kind = call[q].kind
                   /\ call'[q].left = call[q].left - 1
<1>1. ASSUME NEW q \in Requests, call[q] # NoCall
      PROVE  /\ call'[q] \in Calls /\ call'[q] # NoCall
             /\ call'[q].op = call[q].op /\ call'[q].kind = call[q].kind
             /\ call'[q].left = call[q].left - 1
  <2> DEFINE c == call[q]
             l == Less(c.left)
  <2>1. c \in Calls /\ c.left \in 0..2 * Deadline /\ c.left > 0
    BY <1>1, CallType DEF Tick
  <2>2. l = c.left - 1 /\ l \in 0..2 * Deadline
    BY <2>1, TimesAssumption DEF Less
  <2>3. call'[q] = [c EXCEPT !.left = l]
    BY <1>1 DEF Tick
  <2> HIDE DEF c, l
  <2>4. [c EXCEPT !.left = l] \in Calls
    BY <2>1, <2>2 DEF Calls
  <2>5. /\ [c EXCEPT !.left = l].op = c.op /\ [c EXCEPT !.left = l].kind = c.kind
        /\ [c EXCEPT !.left = l].left = l
    BY <2>1 DEF Calls
  <2> QED
    BY <2>2, <2>3, <2>4, <2>5, NoRowAssumption DEF c
<1>2. \A q \in Requests : call[q] # NoCall => call[q].left > 0
  BY DEF Tick
<1>3. row' = [o \in Ops |-> IF row[o] = NoRow THEN NoRow ELSE Waited(row[o])]
  BY DEF Tick, Waited
<1>4. \A q \in Requests : call[q] = NoCall => call'[q] = NoCall
  BY DEF Tick
<1> QED
  BY <1>1, <1>2, <1>3, <1>4

----------------------------------------------------------------------------
(* The actions keep the invariant.                                         *)

LEMMA InitRequestInv == Init => RequestInv
BY TimesAssumption, BoundsAssumption
   DEF Init, RequestInv, TypeOK, OneCallPerOperation, CallsAreGuarded, UsedKeysAreKept

LEMMA ReserveKeeps ==
  ASSUME RequestInv, NEW q \in Requests, NEW o \in Ops, NEW t \in Targets,
         NEW action \in {"lookup", "submit"}, NEW k \in Keys \cup {NoKey},
         NEW s \in Quota, Reserve(q, o, t, action, k, s)
  PROVE  RequestInv'
<1> DEFINE new == Fresh(t, action, k)
           asked == [op |-> o, kind |-> action, left |-> Lasts(action)]
<1>1. /\ row[o] = NoRow /\ call[q] = NoCall
      /\ row' = [row EXCEPT ![o] = new]
      /\ call' = [call EXCEPT ![q] = asked]
  BY ReserveDoes
<1>2. /\ new \in Rows /\ new # NoRow /\ new.status = "pending"
      /\ ~new.external /\ new.key = k
  BY FreshRow DEF Fresh
<1>3. asked \in Calls /\ asked # NoCall /\ asked.op = o /\ asked.kind = action
  BY AskedCall
<1>4. /\ sent' = IF k = NoKey THEN sent ELSE [sent EXCEPT ![k] = @ + 1]
      /\ slot' = [slot EXCEPT ![s] = Minute]
      /\ polled' = polled /\ crashes' = crashes /\ provider' = provider
      /\ Previous(k) = {}
  BY DEF Reserve, ReserveRate
<1> HIDE DEF new, asked
<1>5. TypeOK'
  BY <1>1, <1>2, <1>3, <1>4, TimesAssumption DEF RequestInv, TypeOK
<1>6. \A r \in Requests : call[r] # NoCall => call[r].op # o
  BY <1>1, NoOpAssumption DEF RequestInv, CallsAreGuarded
<1>7. OneCallPerOperation'
  BY <1>1, <1>3, <1>6 DEF RequestInv, OneCallPerOperation, TypeOK
<1>8. CallsAreGuarded'
  <2> SUFFICES ASSUME NEW r \in Requests, call'[r] # NoCall, call'[r].op # NoOp
               PROVE  /\ row'[call'[r].op] # NoRow
                      /\ row'[call'[r].op].status \in {"pending", "error"}
                      /\ call'[r].kind \in {"lookup", "submit", "poll"}
                      /\ IF call'[r].kind = "poll"
                         THEN /\ row'[call'[r].op].external
                              /\ row'[call'[r].op].wait > call'[r].left
                         ELSE ~row'[call'[r].op].external
    BY DEF CallsAreGuarded
  <2>1. CASE r = q
    BY <2>1, <1>1, <1>2, <1>3 DEF RequestInv, TypeOK
  <2>2. CASE r # q
    <3>1. call'[r] = call[r] /\ call[r].op # o
      BY <2>2, <1>1, <1>6 DEF RequestInv, TypeOK
    <3>2. call[r].op \in Ops /\ row'[call[r].op] = row[call[r].op]
      BY <3>1, <1>1, CallType DEF RequestInv, TypeOK
    <3> QED
      BY <3>1, <3>2 DEF RequestInv, CallsAreGuarded
  <2> QED
    BY <2>1, <2>2
<1>9. UsedKeysAreKept'
  <2> SUFFICES ASSUME NEW x \in Keys
               PROVE  \/ sent'[x] = 0
                      \/ sent'[x] = 1 /\ \E y \in Ops : row'[y] # NoRow /\ row'[y].key = x
    BY DEF UsedKeysAreKept
  <2>1. CASE x = k
    <3>1. k # NoKey /\ k \in Keys
      BY <2>1, NoOpAssumption
    <3>2. sent[k] = 0
      BY <3>1, <1>4 DEF Previous, RequestInv, UsedKeysAreKept
    <3>3. sent'[k] = 1
      BY <3>1, <3>2, <1>4 DEF RequestInv, TypeOK
    <3>4. row'[o] # NoRow /\ row'[o].key = k
      BY <1>1, <1>2 DEF RequestInv, TypeOK
    <3> QED
      BY <2>1, <3>3, <3>4
  <2>2. CASE x # k
    <3>1. sent'[x] = sent[x]
      BY <2>2, <1>4 DEF RequestInv, TypeOK
    <3>2. \A y \in Ops : row[y] # NoRow => row'[y] = row[y]
      BY <1>1 DEF RequestInv, TypeOK
    <3> QED
      BY <3>1, <3>2 DEF RequestInv, UsedKeysAreKept
  <2> QED
    BY <2>1, <2>2
<1> QED
  BY <1>5, <1>7, <1>8, <1>9 DEF RequestInv

LEMMA PollKeeps ==
  ASSUME RequestInv, NEW q \in Requests, NEW o \in Ops, NEW s \in Quota, Poll(q, o, s)
  PROVE  RequestInv'
<1> DEFINE new == Polled(row[o])
           asked == [op |-> o, kind |-> "poll", left |-> Deadline]
<1>1. /\ row[o] \in Rows /\ row[o] # NoRow /\ row[o].external
      /\ row[o].status \in {"pending", "error"}
      /\ row[o].wait = 0 /\ row[o].polls < MaxPolls
      /\ call[q] = NoCall
      /\ row' = [row EXCEPT ![o] = new]
      /\ call' = [call EXCEPT ![q] = asked]
  BY PollDoes DEF RequestInv
<1>2. /\ new \in Rows /\ new # NoRow /\ new.wait = PollGap
      /\ new.status = row[o].status /\ new.external = row[o].external
      /\ new.key = row[o].key
  BY <1>1, PolledRow
<1>3. asked \in Calls /\ asked # NoCall
  BY AskedCall DEF Lasts
<1>4. asked.op = o /\ asked.kind = "poll" /\ asked.left = Deadline
  OBVIOUS
<1>5. /\ slot' = [slot EXCEPT ![s] = Minute]
      /\ polled' = [polled EXCEPT ![o] = 0]
      /\ sent' = sent /\ crashes' = crashes /\ provider' = provider
  BY DEF Poll, ReserveRate
<1> HIDE DEF new, asked
<1>6. TypeOK'
  BY <1>1, <1>2, <1>3, <1>5, TimesAssumption DEF RequestInv, TypeOK
<1>7. \A r \in Requests : call[r] # NoCall => call[r].op # o
  <2> SUFFICES ASSUME NEW r \in Requests, call[r] # NoCall, call[r].op = o
               PROVE  FALSE
    OBVIOUS
  <2>1. call[r].kind = "poll" /\ row[o].wait > call[r].left
    BY <1>1, NoOpAssumption DEF RequestInv, CallsAreGuarded
  <2>2. call[r].left \in 0..2 * Deadline
    BY CallType DEF RequestInv
  <2> QED
    BY <1>1, <2>1, <2>2, TimesAssumption
<1>8. OneCallPerOperation'
  BY <1>1, <1>3, <1>4, <1>7 DEF RequestInv, OneCallPerOperation, TypeOK
<1>9. CallsAreGuarded'
  <2> SUFFICES ASSUME NEW r \in Requests, call'[r] # NoCall, call'[r].op # NoOp
               PROVE  /\ row'[call'[r].op] # NoRow
                      /\ row'[call'[r].op].status \in {"pending", "error"}
                      /\ call'[r].kind \in {"lookup", "submit", "poll"}
                      /\ IF call'[r].kind = "poll"
                         THEN /\ row'[call'[r].op].external
                              /\ row'[call'[r].op].wait > call'[r].left
                         ELSE ~row'[call'[r].op].external
    BY DEF CallsAreGuarded
  <2>1. CASE r = q
    <3>1. call'[r] = asked /\ row'[o] = new
      BY <2>1, <1>1 DEF RequestInv, TypeOK
    <3> QED
      BY <3>1, <1>1, <1>2, <1>4, TimesAssumption
  <2>2. CASE r # q
    <3>1. call'[r] = call[r] /\ call[r].op # o
      BY <2>2, <1>1, <1>7 DEF RequestInv, TypeOK
    <3>2. call[r].op \in Ops /\ row'[call[r].op] = row[call[r].op]
      BY <3>1, <1>1, CallType DEF RequestInv, TypeOK
    <3> QED
      BY <3>1, <3>2 DEF RequestInv, CallsAreGuarded
  <2> QED
    BY <2>1, <2>2
<1>10. UsedKeysAreKept'
  <2>1. \A y \in Ops : row[y] # NoRow => row'[y] # NoRow /\ row'[y].key = row[y].key
    BY <1>1, <1>2 DEF RequestInv, TypeOK
  <2> QED
    BY <2>1, <1>5 DEF RequestInv, UsedKeysAreKept
<1> QED
  BY <1>6, <1>8, <1>9, <1>10 DEF RequestInv

LEMMA SaveResultKeeps ==
  ASSUME RequestInv, NEW q \in Requests, SaveResult(q)
  PROVE  RequestInv'
<1> DEFINE o == call[q].op
<1>1. /\ call[q] # NoCall /\ o \in Ops /\ row[o] \in Rows /\ row[o] # NoRow
      /\ call' = [call EXCEPT ![q] = NoCall]
  BY SaveResultDoes DEF RequestInv
<1>2. PICK a \in Results : row' = [row EXCEPT ![o] = Answered(row[o], a)]
  BY SaveResultDoes DEF RequestInv
<1> DEFINE new == Answered(row[o], a)
<1>3. new \in Rows /\ new # NoRow /\ new.key = row[o].key
  BY <1>1, AnsweredRow
<1>4. /\ slot' = slot /\ sent' = sent /\ polled' = polled
      /\ crashes' = crashes /\ provider' = provider
  BY DEF SaveResult
<1>5. \A r \in Requests : r # q /\ call[r] # NoCall => call[r].op # o
  BY <1>1, NoOpAssumption DEF RequestInv, OneCallPerOperation
<1> HIDE DEF new, o
<1>6. row' = [row EXCEPT ![o] = new]
  BY <1>2 DEF new
<1>7. TypeOK'
  BY <1>1, <1>3, <1>4, <1>6 DEF RequestInv, TypeOK
<1>8. OneCallPerOperation'
  BY <1>1 DEF RequestInv, OneCallPerOperation, TypeOK
<1>9. CallsAreGuarded'
  <2> SUFFICES ASSUME NEW r \in Requests, call'[r] # NoCall, call'[r].op # NoOp
               PROVE  /\ row'[call'[r].op] # NoRow
                      /\ row'[call'[r].op].status \in {"pending", "error"}
                      /\ call'[r].kind \in {"lookup", "submit", "poll"}
                      /\ IF call'[r].kind = "poll"
                         THEN /\ row'[call'[r].op].external
                              /\ row'[call'[r].op].wait > call'[r].left
                         ELSE ~row'[call'[r].op].external
    BY DEF CallsAreGuarded
  <2>1. r # q /\ call'[r] = call[r]
    BY <1>1 DEF RequestInv, TypeOK
  <2>2. call[r].op \in Ops /\ call[r].op # o
    BY <2>1, <1>5, CallType DEF RequestInv
  <2>3. row'[call[r].op] = row[call[r].op]
    BY <2>2, <1>6 DEF RequestInv, TypeOK
  <2> QED
    BY <2>1, <2>3 DEF RequestInv, CallsAreGuarded
<1>10. UsedKeysAreKept'
  <2>1. \A y \in Ops : row[y] # NoRow => row'[y] # NoRow /\ row'[y].key = row[y].key
    BY <1>1, <1>3, <1>6 DEF RequestInv, TypeOK
  <2> QED
    BY <2>1, <1>4 DEF RequestInv, UsedKeysAreKept
<1> QED
  BY <1>7, <1>8, <1>9, <1>10 DEF RequestInv

LEMMA HealthKeeps ==
  ASSUME RequestInv, NEW q \in Requests,
         SaveHealth(q) \/ \E s \in Quota : HealthCheck(q, s)
  PROVE  RequestInv'
<1>1. CASE SaveHealth(q)
  BY <1>1 DEF SaveHealth, RequestInv, TypeOK, OneCallPerOperation, CallsAreGuarded,
              UsedKeysAreKept
<1>2. ASSUME NEW s \in Quota, HealthCheck(q, s)
      PROVE  RequestInv'
  <2> DEFINE asked == [op |-> NoOp, kind |-> "health", left |-> Deadline]
  <2>1. asked \in Calls /\ asked # NoCall
    BY AskedCall DEF Lasts
  <2>2. asked.op = NoOp
    OBVIOUS
  <2>3. /\ call[q] = NoCall /\ call' = [call EXCEPT ![q] = asked]
        /\ slot' = [slot EXCEPT ![s] = Minute]
        /\ row' = row /\ sent' = sent /\ polled' = polled
        /\ crashes' = crashes /\ provider' = provider
    BY <1>2 DEF HealthCheck, HealthRate, ReserveRate, Ask, Lasts
  <2> HIDE DEF asked
  <2>4. TypeOK'
    BY <2>1, <2>3, TimesAssumption DEF RequestInv, TypeOK
  <2>5. OneCallPerOperation'
    BY <2>2, <2>3 DEF RequestInv, TypeOK, OneCallPerOperation
  <2>6. CallsAreGuarded'
    BY <2>2, <2>3 DEF RequestInv, TypeOK, CallsAreGuarded
  <2>7. UsedKeysAreKept'
    BY <2>3 DEF RequestInv, UsedKeysAreKept
  <2> QED
    BY <2>4, <2>5, <2>6, <2>7 DEF RequestInv
<1> QED
  BY <1>1, <1>2

LEMMA CrashKeeps ==
  ASSUME RequestInv, ApiCrash
  PROVE  RequestInv'
BY BoundsAssumption
   DEF ApiCrash, RequestInv, TypeOK, OneCallPerOperation, CallsAreGuarded, UsedKeysAreKept

LEMMA LossKeeps ==
  ASSUME RequestInv, NEW q \in Requests, ResultLost(q)
  PROVE  RequestInv'
BY BoundsAssumption
   DEF ResultLost, RequestInv, TypeOK, OneCallPerOperation, CallsAreGuarded, UsedKeysAreKept

LEMMA TickKeeps ==
  ASSUME RequestInv, Tick
  PROVE  RequestInv'
<1>1. /\ \A q \in Requests : call[q] # NoCall => call[q].left > 0
      /\ row' = [o \in Ops |-> IF row[o] = NoRow THEN NoRow ELSE Waited(row[o])]
  BY TickDoes DEF RequestInv
<1>2. \A q \in Requests :
        /\ call[q] = NoCall => call'[q] = NoCall
        /\ call[q] # NoCall =>
             /\ call'[q] \in Calls /\ call'[q] # NoCall
             /\ call'[q].op = call[q].op /\ call'[q].kind = call[q].kind
             /\ call'[q].left = call[q].left - 1
  BY TickDoes DEF RequestInv
<1>3. \A o \in Ops : row[o] = NoRow => row'[o] = NoRow
  BY <1>1
<1>4. \A o \in Ops : row[o] # NoRow =>
        /\ row'[o] \in Rows /\ row'[o] # NoRow
        /\ row'[o].wait = Less(row[o].wait)
        /\ row'[o].status = row[o].status
        /\ row'[o].external = row[o].external
        /\ row'[o].key = row[o].key
  BY <1>1, RowType, WaitedRow DEF RequestInv
<1>5. TypeOK'
  <2>1. row' \in [Ops -> Rows \cup {NoRow}]
    BY <1>1, <1>3, <1>4
  <2>2. call' \in [Requests -> Calls \cup {NoCall}]
    BY <1>2 DEF Tick
  <2>3. slot' \in [Quota -> 0..Minute]
    BY TimesAssumption DEF Tick, RequestInv, TypeOK, Less
  <2>4. polled' \in [Ops -> 0..PollGap]
    BY TimesAssumption DEF Tick, RequestInv, TypeOK
  <2> QED
    BY <2>1, <2>2, <2>3, <2>4 DEF Tick, RequestInv, TypeOK
<1>6. OneCallPerOperation'
  BY <1>2 DEF RequestInv, OneCallPerOperation
<1>7. CallsAreGuarded'
  <2> SUFFICES ASSUME NEW r \in Requests, call'[r] # NoCall, call'[r].op # NoOp
               PROVE  /\ row'[call'[r].op] # NoRow
                      /\ row'[call'[r].op].status \in {"pending", "error"}
                      /\ call'[r].kind \in {"lookup", "submit", "poll"}
                      /\ IF call'[r].kind = "poll"
                         THEN /\ row'[call'[r].op].external
                              /\ row'[call'[r].op].wait > call'[r].left
                         ELSE ~row'[call'[r].op].external
    BY DEF CallsAreGuarded
  <2> DEFINE o == call[r].op
  <2>1. call[r] # NoCall /\ o # NoOp /\ call'[r].op = o /\ call'[r].kind = call[r].kind
    BY <1>2
  <2>2. o \in Ops /\ call[r].left \in 0..2 * Deadline
    BY <2>1, CallType DEF RequestInv
  <2>3. /\ row[o] # NoRow /\ row[o].status \in {"pending", "error"}
        /\ call[r].kind \in {"lookup", "submit", "poll"}
        /\ IF call[r].kind = "poll"
           THEN row[o].external /\ row[o].wait > call[r].left
           ELSE ~row[o].external
    BY <2>1 DEF RequestInv, CallsAreGuarded
  <2>4. row[o].wait \in 0..PollGap
    BY <2>2, <2>3, RowType DEF RequestInv
  <2>5. call[r].kind = "poll" => row'[o].wait > call'[r].left
    BY <1>1, <1>2, <1>4, <2>1, <2>2, <2>3, <2>4, TimesAssumption DEF Less
  <2> QED
    BY <1>4, <2>1, <2>2, <2>3, <2>5
<1>8. UsedKeysAreKept'
  <2>1. sent' = sent
    BY DEF Tick
  <2> QED
    BY <1>4, <2>1 DEF RequestInv, UsedKeysAreKept
<1> QED
  BY <1>5, <1>6, <1>7, <1>8 DEF RequestInv

LEMMA NextRequestInv == RequestInv /\ [Next]_vars => RequestInv'
<1> SUFFICES ASSUME RequestInv, [Next]_vars PROVE RequestInv'
  OBVIOUS
<1>1. CASE UNCHANGED vars
  BY <1>1 DEF vars, RequestInv, TypeOK, OneCallPerOperation, CallsAreGuarded, UsedKeysAreKept
<1> QED
  BY <1>1, ReserveKeeps, PollKeeps, SaveResultKeeps, HealthKeeps, CrashKeeps,
     LossKeeps, TickKeeps
     DEF Next

----------------------------------------------------------------------------
(* Theorems.                                                               *)

\* reserve, poll_analysis and save_result never meet in one row, and a
\* request_id is never forgotten.
THEOREM RequestsCorrect == Spec => []RequestInv
BY InitRequestInv, NextRequestInv, PTL DEF Spec

\* Type correctness for any deadlines, gaps and limits.
THEOREM TypeCorrect == Spec => []TypeOK
<1>1. RequestInv => TypeOK
  BY DEF RequestInv
<1> QED
  BY <1>1, RequestsCorrect, PTL

\* What save_result overwrites without looking is its own reservation.
THEOREM CallsDoNotMeet == Spec => []OneCallPerOperation
<1>1. RequestInv => OneCallPerOperation
  BY DEF RequestInv
<1> QED
  BY <1>1, RequestsCorrect, PTL

\* However often reserve is asked with one request_id, evidence leaves once.
THEOREM EvidenceLeavesOnce == Spec => []SentOncePerKey
<1>1. RequestInv => SentOncePerKey
  BY DEF RequestInv, UsedKeysAreKept, SentOncePerKey
<1> QED
  BY <1>1, RequestsCorrect, PTL

LEMMA ReportsStay ==
  ASSUME RequestInv, [Next]_vars, NEW o \in Ops, row[o] # NoRow,
         row[o].status \in {"available", "unknown", "unavailable"}
  PROVE  [row'[o] EXCEPT !.wait = 0] = [row[o] EXCEPT !.wait = 0]
<1>1. ASSUME row'[o] = row[o]
      PROVE  [row'[o] EXCEPT !.wait = 0] = [row[o] EXCEPT !.wait = 0]
  BY <1>1
<1>2. ASSUME NEW q \in Requests, NEW x \in Ops, NEW t \in Targets,
             NEW action \in {"lookup", "submit"}, NEW k \in Keys \cup {NoKey},
             NEW s \in Quota, Reserve(q, x, t, action, k, s)
      PROVE  row'[o] = row[o]
  BY ZenonT(40), <1>2, ReserveDoes DEF RequestInv, TypeOK
<1>3. ASSUME NEW q \in Requests, NEW x \in Ops, NEW s \in Quota, Poll(q, x, s)
      PROVE  row'[o] = row[o]
  <2>1. row[x].status \in {"pending", "error"} /\ row' = [row EXCEPT ![x] = Polled(row[x])]
    BY <1>3, PollDoes DEF RequestInv
  <2> QED
    BY <2>1 DEF RequestInv, TypeOK
<1>4. ASSUME NEW q \in Requests, SaveResult(q)
      PROVE  row'[o] = row[o]
  <2>1. call[q] # NoCall /\ call[q].op \in Ops
    BY <1>4, SaveResultDoes DEF RequestInv
  <2>2. row[call[q].op].status \in {"pending", "error"}
    BY <2>1, NoOpAssumption DEF RequestInv, CallsAreGuarded
  <2>3. PICK a \in Results :
          row' = [row EXCEPT ![call[q].op] = Answered(row[call[q].op], a)]
    BY <1>4, SaveResultDoes DEF RequestInv
  <2> QED
    BY <2>1, <2>2, <2>3 DEF RequestInv, TypeOK
<1>5. CASE Tick
  <2> DEFINE r == row[o]
             w == Less(r.wait)
  <2>1. row'[o] = Waited(r)
    BY <1>5, TickDoes DEF RequestInv
  <2>2. r \in Rows
    BY RowType DEF RequestInv
  <2> HIDE DEF r, w
  <2>3. [[r EXCEPT !.wait = w] EXCEPT !.wait = 0] = [r EXCEPT !.wait = 0]
    BY <2>2 DEF Rows
  <2> QED
    BY <2>1, <2>3 DEF r, w, Waited
<1>6. CASE ~Tick
  <2>1. CASE ApiCrash \/ UNCHANGED vars
    BY <2>1, <1>1 DEF ApiCrash, vars
  <2>2. ASSUME NEW q \in Requests,
               \/ SaveHealth(q) \/ ResultLost(q)
               \/ \E s \in Quota : HealthCheck(q, s)
        PROVE  row'[o] = row[o]
    BY <2>2 DEF SaveHealth, ResultLost, HealthCheck
  <2> QED
    BY <1>1, <1>2, <1>3, <1>4, <1>6, <2>1, <2>2 DEF Next
<1> QED
  BY <1>5, <1>6

\* A report, or the news that there is none, is never replaced.
THEOREM ReportsStayForever == Spec => ReportsAreKept
<1>1. RequestInv /\ [Next]_vars =>
        (\A o \in Ops :
           row[o] # NoRow /\ row[o].status \in {"available", "unknown", "unavailable"}
             => [row'[o] EXCEPT !.wait = 0] = [row[o] EXCEPT !.wait = 0])
  BY ReportsStay
<1> QED
  BY <1>1, RequestsCorrect, PTL DEF Spec, ReportsAreKept

----------------------------------------------------------------------------
(* The quota.  Each request under way has an attempt of its own that still *)
(* counts: it was made when the request was reserved, and the request ends *)
(* before the minute of the attempt does.                                  *)

UnderWay == {q \in Requests : call[q] # NoCall}

Charged(f) ==
  /\ f \in [UnderWay -> Quota]
  /\ \A q \in UnderWay : slot[f[q]] + 2 * Deadline >= Minute + call[q].left
  /\ \A q, r \in UnderWay : f[q] = f[r] => q = r

SlotsAreCharged == \E f : Charged(f)

LEMMA ChargedSlotsCount ==
  ASSUME TypeOK, NEW f, Charged(f), NEW q \in UnderWay
  PROVE  f[q] \in Quota /\ slot[f[q]] \in Nat /\ slot[f[q]] > 0
<1>1. f[q] \in Quota
  BY DEF Charged
<1>2. slot[f[q]] \in Nat /\ call[q].left \in Nat
  BY <1>1, CallType, TimesAssumption DEF TypeOK, UnderWay
<1> QED
  BY <1>1, <1>2, TimesAssumption DEF Charged

\* A request takes a slot in which nothing counts any more.
LEMMA AskIsCharged ==
  ASSUME TypeOK, SlotsAreCharged, NEW q \in Requests, NEW s \in Quota,
         NEW c \in Calls, call[q] = NoCall, slot[s] = 0,
         slot' = [slot EXCEPT ![s] = Minute], call' = [call EXCEPT ![q] = c]
  PROVE  SlotsAreCharged'
<1>1. PICK f : Charged(f)
  BY DEF SlotsAreCharged
<1>2. UnderWay' = UnderWay \cup {q} /\ q \notin UnderWay
  BY NoRowAssumption DEF UnderWay, TypeOK
<1> DEFINE g == [r \in UnderWay \cup {q} |-> IF r = q THEN s ELSE f[r]]
<1>3. \A r \in UnderWay : f[r] \in Quota /\ f[r] # s
  BY <1>1, ChargedSlotsCount
<1>4. \A r \in UnderWay : g[r] = f[r] /\ slot'[f[r]] = slot[f[r]] /\ call'[r] = call[r]
  BY <1>2, <1>3 DEF TypeOK, UnderWay
<1>5. g[q] = s /\ slot'[s] = Minute /\ call'[q] = c /\ c.left \in 0..2 * Deadline
  BY DEF TypeOK, Calls
<1>6. g \in [UnderWay \cup {q} -> Quota]
  BY <1>3
<1>7. \A r \in UnderWay \cup {q} :
        slot'[g[r]] + 2 * Deadline >= Minute + call'[r].left
  <2>1. \A r \in UnderWay : slot'[g[r]] + 2 * Deadline >= Minute + call'[r].left
    BY <1>1, <1>4 DEF Charged
  <2>2. slot'[g[q]] + 2 * Deadline >= Minute + call'[q].left
    BY <1>5, TimesAssumption
  <2> QED
    BY <2>1, <2>2
<1>8. \A r, x \in UnderWay \cup {q} : g[r] = g[x] => r = x
  BY <1>1, <1>3, <1>4, <1>5 DEF Charged
<1> HIDE DEF g
<1>9. \E h : /\ h \in [UnderWay' -> Quota]
             /\ \A r \in UnderWay' :
                  slot'[h[r]] + 2 * Deadline >= Minute + call'[r].left
             /\ \A r, x \in UnderWay' : h[r] = h[x] => r = x
  BY <1>2, <1>6, <1>7, <1>8
<1> QED
  BY <1>9 DEF SlotsAreCharged, Charged

\* Requests that end leave the others charged.
LEMMA EndIsCharged ==
  ASSUME TypeOK, SlotsAreCharged, slot' = slot,
         \A q \in Requests : call'[q] # NoCall => call'[q] = call[q]
  PROVE  SlotsAreCharged'
<1>1. PICK f : Charged(f)
  BY DEF SlotsAreCharged
<1>2. UnderWay' \subseteq UnderWay /\ \A q \in UnderWay' : call'[q] = call[q]
  BY DEF UnderWay
<1> DEFINE g == [q \in UnderWay' |-> f[q]]
<1>3. g \in [UnderWay' -> Quota]
  BY <1>1, <1>2 DEF Charged
<1>4. \A q \in UnderWay' : g[q] = f[q]
  OBVIOUS
<1> HIDE DEF g
<1>5. /\ \A q \in UnderWay' : slot'[g[q]] + 2 * Deadline >= Minute + call'[q].left
      /\ \A q, r \in UnderWay' : g[q] = g[r] => q = r
  BY <1>1, <1>2, <1>4 DEF Charged
<1>6. \E h : /\ h \in [UnderWay' -> Quota]
             /\ \A q \in UnderWay' :
                  slot'[h[q]] + 2 * Deadline >= Minute + call'[q].left
             /\ \A q, r \in UnderWay' : h[q] = h[r] => q = r
  BY <1>3, <1>5
<1> QED
  BY <1>6 DEF SlotsAreCharged, Charged

\* A request and its attempt grow old together.
LEMMA TickIsCharged ==
  ASSUME TypeOK, SlotsAreCharged, Tick
  PROVE  SlotsAreCharged'
<1>1. PICK f : Charged(f)
  BY DEF SlotsAreCharged
<1>2. UnderWay' = UnderWay /\ \A q \in UnderWay : call'[q].left = call[q].left - 1
  BY TickDoes DEF UnderWay
<1>3. ASSUME NEW q \in UnderWay
      PROVE  slot'[f[q]] + 2 * Deadline >= Minute + call'[q].left
  <2>1. f[q] \in Quota /\ slot[f[q]] \in Nat /\ slot[f[q]] > 0
    BY <1>1, ChargedSlotsCount
  <2>2. slot'[f[q]] = slot[f[q]] - 1
    BY <2>1 DEF Tick, Less
  <2>3. call[q].left \in Nat
    BY CallType, TimesAssumption DEF UnderWay
  <2> QED
    BY <1>1, <1>2, <2>1, <2>2, <2>3, TimesAssumption DEF Charged
<1>4. Charged(f)'
  BY <1>1, <1>2, <1>3 DEF Charged
<1> QED
  BY <1>4 DEF SlotsAreCharged

LEMMA NextIsCharged ==
  ASSUME RequestInv, SlotsAreCharged, [Next]_vars
  PROVE  SlotsAreCharged'
<1>1. TypeOK
  BY DEF RequestInv
<1>2. ASSUME NEW q \in Requests, NEW s \in Quota, NEW o \in Ops \cup {NoOp},
             NEW kind \in {"lookup", "submit", "poll", "health"},
             ReserveRate(s), Ask(q, o, kind)
      PROVE  SlotsAreCharged'
  BY <1>1, <1>2, AskedCall, AskIsCharged DEF ReserveRate, Ask
<1>3. ASSUME NEW q \in Requests, NEW s \in Quota,
             \/ \E o \in Ops, t \in Targets, action \in {"lookup", "submit"},
                   k \in Keys \cup {NoKey} : Reserve(q, o, t, action, k, s)
             \/ \E o \in Ops : Poll(q, o, s)
             \/ HealthCheck(q, s)
      PROVE  SlotsAreCharged'
  BY <1>2, <1>3 DEF Reserve, Poll, HealthCheck, HealthRate
<1>4. ASSUME NEW q \in Requests, SaveResult(q) \/ SaveHealth(q) \/ ResultLost(q)
      PROVE  SlotsAreCharged'
  BY <1>1, <1>4, EndIsCharged DEF SaveResult, SaveHealth, ResultLost, TypeOK
<1>5. CASE ApiCrash
  BY <1>1, <1>5, EndIsCharged DEF ApiCrash
<1>6. CASE UNCHANGED vars
  BY <1>1, <1>6, EndIsCharged DEF vars
<1> QED
  BY <1>1, <1>3, <1>4, <1>5, <1>6, TickIsCharged DEF Next

\* The provider never serves more requests of ours than it allows in a minute.
THEOREM QuotaIsKept == Spec => []WithinQuota
<1>1. Init => RequestInv /\ SlotsAreCharged
  <2> SUFFICES ASSUME Init PROVE SlotsAreCharged
    BY InitRequestInv
  <2>1. UnderWay = {}
    BY DEF Init, UnderWay
  <2>2. Charged([q \in {} |-> q])
    BY <2>1 DEF Charged
  <2> QED
    BY <2>2 DEF SlotsAreCharged
<1>2. RequestInv /\ SlotsAreCharged /\ [Next]_vars => (RequestInv /\ SlotsAreCharged)'
  BY NextRequestInv, NextIsCharged
<1>3. RequestInv /\ SlotsAreCharged => WithinQuota
  <2> SUFFICES ASSUME NEW f, Charged(f) PROVE WithinQuota
    BY DEF SlotsAreCharged
  <2>1. f \in Injection(UnderWay, Quota)
    BY DEF Charged, Injection, IsInjective
  <2>2. Cardinality(UnderWay) <= Cardinality(Quota)
    BY <2>1, FS_Injection, QuotaAssumption
  <2> QED
    BY <2>2 DEF WithinQuota, UnderWay
<1> QED
  BY <1>1, <1>2, <1>3, PTL DEF Spec

----------------------------------------------------------------------------
(* The refinement: an operation is a dialogue with the provider.           *)

\* What the rows written by the handlers keep of the ones they replace.
LEMMA PolledKeeps ==
  ASSUME NEW r \in Rows, r.polls < MaxPolls
  PROVE  /\ Polled(r).polls = r.polls + 1 /\ Polled(r).visibility = r.visibility
         /\ Polled(r).target = r.target /\ Polled(r).action = r.action
BY DEF Polled, WaitAfterPoll, Rows

LEMMA WaitedKeeps ==
  ASSUME NEW r \in Rows
  PROVE  /\ Waited(r).polls = r.polls /\ Waited(r).visibility = r.visibility
         /\ Waited(r).target = r.target /\ Waited(r).action = r.action
BY DEF Waited, Rows

LEMMA AnsweredKeeps ==
  ASSUME NEW r \in Rows, NEW a \in Results
  PROVE  /\ Answered(r, a).polls = r.polls
         /\ Answered(r, a).target = r.target /\ Answered(r, a).action = r.action
         /\ r.external => Answered(r, a).external
         /\ Answered(r, a).status \in Statuses
<1> DEFINE v == IF a.visibility = "silent" THEN r.visibility ELSE a.visibility
           t == IF r.action = "submit" /\ v = "other" THEN "error" ELSE a.status
           w == IF t = "pending" THEN PollGap ELSE 0
           e == r.external \/ a.external
           new == [r EXCEPT !.status = t, !.external = e, !.visibility = v, !.wait = w]
<1>1. Answered(r, a) = new
  BY DEF Answered, Rows
<1>2. t \in Statuses /\ (r.external => e)
  BY DEF Results, Statuses
<1> HIDE DEF w, e, v, t
<1>3. /\ new.polls = r.polls /\ new.target = r.target /\ new.action = r.action
      /\ new.external = e /\ new.status = t
  BY DEF Rows
<1> QED
  BY <1>1, <1>2, <1>3

\* The row of an operation says the same before and after.
RowRests(o) == /\ Status(o)' = Status(o) /\ Subject(o)' = Subject(o)
               /\ News(o)' = News(o) /\ Polls(o)' = Polls(o)

AskingRests(o) == Asking(o)' = Asking(o)

\* The abstract actions, in terms of the rows and requests.
LEMMA Mapped ==
  ASSUME NEW o \in Ops
  PROVE  /\ Promise!Stay(o) <=> RowRests(o) /\ AskingRests(o)
         /\ Promise!AsksOnce(o) <=>
              Asking(o) = {} /\ \E q \in Requests : Asking(o)' = {q}
BY DEF Promise!Stay, Promise!SaysTheSame, Promise!KeepsSubject, Promise!AsksOnce,
       RowRests, AskingRests

LEMMA SameRowRests ==
  ASSUME NEW o \in Ops, row'[o] = row[o]
  PROVE  RowRests(o)
BY DEF RowRests, Status, Subject, News, Polls

\* A request that comes or goes for one operation is none of the others'.
LEMMA OthersAsking ==
  ASSUME TypeOK, NEW q \in Requests, NEW c, call' = [call EXCEPT ![q] = c],
         NEW o \in Ops, c # NoCall => c.op # o, call[q] # NoCall => call[q].op # o
  PROVE  AskingRests(o)
BY DEF TypeOK, AskingRests, Asking

\* Nobody asks for an operation without a row, or for one that may be polled.
LEMMA NobodyAsks ==
  ASSUME RequestInv, NEW o \in Ops, row[o] = NoRow \/ (row[o].external /\ row[o].wait = 0)
  PROVE  Asking(o) = {}
<1> SUFFICES ASSUME NEW q \in Requests, call[q] # NoCall, call[q].op = o
             PROVE  FALSE
  BY DEF Asking
<1>1. call[q].left \in Nat
  BY CallType, TimesAssumption DEF RequestInv
<1>2. /\ row[o] # NoRow
      /\ IF call[q].kind = "poll"
         THEN row[o].external /\ row[o].wait > call[q].left
         ELSE ~row[o].external
  BY NoOpAssumption DEF RequestInv, CallsAreGuarded
<1>3. row[o].external /\ row[o].wait = 0
  BY <1>2
<1> QED
  BY <1>1, <1>2, <1>3

\* A request goes out for an operation nobody asks for.
LEMMA AskingBegins ==
  ASSUME RequestInv, NEW q \in Requests, NEW o \in Ops, NEW c, c # NoCall, c.op = o,
         call[q] = NoCall, call' = [call EXCEPT ![q] = c], Asking(o) = {}
  PROVE  Promise!AsksOnce(o) /\ \A x \in Ops \ {o} : AskingRests(x)
<1>1. Asking(o)' = {q}
  BY DEF Asking, RequestInv, TypeOK
<1>2. \A x \in Ops \ {o} : AskingRests(x)
  BY OthersAsking DEF RequestInv
<1> QED
  BY <1>1, <1>2, Mapped

LEMMA ReserveIsPromised ==
  ASSUME RequestInv, NEW q \in Requests, NEW o \in Ops, NEW t \in Targets,
         NEW action \in {"lookup", "submit"}, NEW k \in Keys \cup {NoKey},
         NEW s \in Quota, Reserve(q, o, t, action, k, s)
  PROVE  Promise!DialogueNext
<1> DEFINE asked == [op |-> o, kind |-> action, left |-> Lasts(action)]
           new == Fresh(t, action, k)
<1>1. /\ row[o] = NoRow /\ call[q] = NoCall
      /\ row' = [row EXCEPT ![o] = new] /\ call' = [call EXCEPT ![q] = asked]
  BY ReserveDoes
<1>2. asked # NoCall /\ asked.op = o
  BY AskedCall
<1>3. /\ new # NoRow /\ new.status = "pending"
      /\ ~new.external /\ new.polls = 0
  BY FreshRow DEF Fresh
<1> HIDE DEF asked, new
<1>4. Promise!AsksOnce(o) /\ \A x \in Ops \ {o} : AskingRests(x)
  BY <1>1, <1>2, NobodyAsks, AskingBegins
<1>5. row'[o] = new /\ \A x \in Ops \ {o} : row'[x] = row[x]
  BY <1>1 DEF RequestInv, TypeOK
<1>6. Status(o) = "absent"
  BY <1>1 DEF Status
<1>7. Status(o)' = "pending" /\ ~News(o)'.external /\ Polls(o)' = 0
  BY <1>3, <1>5 DEF Status, News, Polls
<1>8. Promise!Begin(o)
  BY <1>4, <1>6, <1>7 DEF Promise!Begin
<1>9. \A x \in Ops \ {o} : Promise!Stay(x)
  BY <1>4, <1>5, SameRowRests, Mapped
<1> QED
  BY <1>8, <1>9 DEF Promise!DialogueNext

LEMMA PollIsPromised ==
  ASSUME RequestInv, NEW q \in Requests, NEW o \in Ops, NEW s \in Quota, Poll(q, o, s)
  PROVE  Promise!DialogueNext
<1> DEFINE asked == [op |-> o, kind |-> "poll", left |-> Deadline]
           new == Polled(row[o])
<1>1. /\ row[o] \in Rows /\ row[o] # NoRow /\ row[o].external
      /\ row[o].status \in {"pending", "error"}
      /\ row[o].wait = 0 /\ row[o].polls < MaxPolls
      /\ call[q] = NoCall
      /\ row' = [row EXCEPT ![o] = new] /\ call' = [call EXCEPT ![q] = asked]
  BY PollDoes DEF RequestInv
<1>2. asked # NoCall /\ asked.op = o
  BY AskedCall DEF Lasts
<1>3. /\ new # NoRow /\ new.status = row[o].status /\ new.external = row[o].external
      /\ new.key = row[o].key
      /\ new.polls = row[o].polls + 1 /\ new.visibility = row[o].visibility
      /\ new.target = row[o].target /\ new.action = row[o].action
  BY <1>1, PolledRow, PolledKeeps
<1> HIDE DEF asked, new
<1>4. Promise!AsksOnce(o) /\ \A x \in Ops \ {o} : AskingRests(x)
  BY <1>1, <1>2, NobodyAsks, AskingBegins
<1>5. row'[o] = new /\ \A x \in Ops \ {o} : row'[x] = row[x]
  BY <1>1 DEF RequestInv, TypeOK
<1>6. /\ Status(o) \in {"pending", "error"} /\ News(o).external
      /\ Polls(o) < MaxPolls
  BY <1>1 DEF Status, News, Polls
<1>7. /\ Status(o)' = Status(o) /\ News(o)' = News(o) /\ Subject(o)' = Subject(o)
      /\ Polls(o)' = Polls(o) + 1
  BY <1>1, <1>3, <1>5 DEF Status, News, Subject, Polls
<1>8. Promise!AskAgain(o)
  BY <1>4, <1>6, <1>7 DEF Promise!AskAgain, Promise!SaysTheSame, Promise!KeepsSubject
<1>9. \A x \in Ops \ {o} : Promise!Stay(x)
  BY <1>4, <1>5, SameRowRests, Mapped
<1> QED
  BY <1>8, <1>9 DEF Promise!DialogueNext

LEMMA ResultIsPromised ==
  ASSUME RequestInv, NEW q \in Requests, SaveResult(q)
  PROVE  Promise!DialogueNext
<1> DEFINE o == call[q].op
<1>1. /\ call[q] # NoCall /\ o \in Ops /\ row[o] \in Rows /\ row[o] # NoRow
      /\ call' = [call EXCEPT ![q] = NoCall]
  BY SaveResultDoes DEF RequestInv
<1>2. PICK a \in Results : row' = [row EXCEPT ![o] = Answered(row[o], a)]
  BY SaveResultDoes DEF RequestInv
<1>3. row[o].status \in {"pending", "error"}
  BY <1>1, NoOpAssumption DEF RequestInv, CallsAreGuarded
<1>4. PICK x \in Ops : x = call[q].op
  BY <1>1
<1> DEFINE new == Answered(row[x], a)
<1>5. /\ new # NoRow /\ new.key = row[x].key
      /\ new.polls = row[x].polls
      /\ new.target = row[x].target /\ new.action = row[x].action
      /\ row[x].external => new.external
      /\ new.status # "absent"
  BY <1>1, <1>4, AnsweredRow, AnsweredKeeps DEF Statuses
<1> HIDE DEF new
<1>6. row'[x] = new /\ \A y \in Ops \ {x} : row'[y] = row[y]
  BY <1>2, <1>4 DEF RequestInv, TypeOK, new
<1>7. Asking(x) = {q}
  BY <1>1, <1>4, NoOpAssumption DEF Asking, RequestInv, OneCallPerOperation
<1>8. Asking(x)' = {}
  BY <1>1, <1>7 DEF Asking, RequestInv, TypeOK
<1>9. \A y \in Ops \ {x} : AskingRests(y)
  BY <1>1, <1>4, OthersAsking DEF RequestInv
<1>10. Status(x) \in {"pending", "error"} /\ Status(x)' # "absent"
  BY <1>1, <1>3, <1>4, <1>5, <1>6 DEF Status
<1>11. /\ News(x).external => News(x)'.external
       /\ Polls(x)' = Polls(x) /\ Subject(x)' = Subject(x)
  BY <1>1, <1>4, <1>5, <1>6 DEF News, Polls, Subject
<1>12. Promise!Learn(x)
  BY <1>7, <1>8, <1>10, <1>11 DEF Promise!Learn, Promise!KeepsSubject
<1>13. \A y \in Ops \ {x} : Promise!Stay(y)
  BY <1>6, <1>9, SameRowRests, Mapped
<1> QED
  BY <1>12, <1>13 DEF Promise!DialogueNext

LEMMA CrashIsPromised ==
  ASSUME RequestInv, ApiCrash
  PROVE  Promise!DialogueNext
<1>1. ASSUME NEW o \in Ops
      PROVE  Promise!Lose(o)
  <2>1. RowRests(o)
    BY SameRowRests DEF ApiCrash
  <2>2. Asking(o)' = {}
    BY DEF ApiCrash, Asking
  <2> QED
    BY <2>1, <2>2 DEF Promise!Lose, Promise!SaysTheSame, Promise!KeepsSubject, RowRests
<1> QED
  BY <1>1 DEF Promise!DialogueNext

\* A result that is not stored is a question lost, those of other operations
\* stay.
LEMMA LossIsPromised ==
  ASSUME RequestInv, NEW q \in Requests, ResultLost(q)
  PROVE  Promise!DialogueNext
<1>1. call[q] # NoCall /\ call' = [call EXCEPT ![q] = NoCall] /\ row' = row
  BY DEF ResultLost
<1>2. ASSUME NEW o \in Ops
      PROVE  Promise!Lose(o) \/ Promise!Stay(o)
  <2>1. RowRests(o)
    BY <1>1, SameRowRests
  <2>2. CASE call[q].op = o
    <3>1. Asking(o)' = {}
      BY <1>1, <2>2, NoOpAssumption DEF RequestInv, TypeOK, OneCallPerOperation, Asking
    <3> QED
      BY <2>1, <3>1 DEF Promise!Lose, Promise!SaysTheSame, Promise!KeepsSubject, RowRests
  <2>3. CASE call[q].op # o
    <3>1. Asking(o)' = Asking(o)
      BY <1>1, <2>3 DEF RequestInv, TypeOK, Asking
    <3> QED
      BY <2>1, <3>1 DEF Promise!Stay, Promise!SaysTheSame, Promise!KeepsSubject, RowRests
  <2> QED
    BY <2>2, <2>3
<1> QED
  BY <1>2 DEF Promise!DialogueNext

\* Time, health checks and what they store are hidden.
LEMMA HiddenSteps ==
  ASSUME RequestInv,
         \/ Tick
         \/ \E q \in Requests : SaveHealth(q) \/ \E s \in Quota : HealthCheck(q, s)
         \/ UNCHANGED vars
  PROVE  \A o \in Ops : RowRests(o) /\ AskingRests(o)
<1>1. CASE Tick
  <2>1. ASSUME NEW o \in Ops
        PROVE  RowRests(o)
    <3>1. CASE row[o] = NoRow
      BY <1>1, <3>1, SameRowRests, TickDoes DEF RequestInv
    <3>2. CASE row[o] # NoRow
      <4>1. row[o] \in Rows /\ row'[o] = Waited(row[o])
        BY <1>1, <3>2, TickDoes, RowType DEF RequestInv
      <4> QED
        BY <3>2, <4>1, WaitedRow, WaitedKeeps DEF RowRests, Status, Subject, News, Polls
    <3> QED
      BY <3>1, <3>2
  <2>2. \A o \in Ops : AskingRests(o)
    BY <1>1, TickDoes DEF RequestInv, AskingRests, Asking
  <2> QED
    BY <2>1, <2>2
<1>2. ASSUME NEW q \in Requests, SaveHealth(q)
      PROVE  \A o \in Ops : RowRests(o) /\ AskingRests(o)
  <2>1. /\ row' = row /\ call' = [call EXCEPT ![q] = NoCall]
        /\ call[q] # NoCall /\ call[q].op \notin Ops
    BY <1>2, NoOpAssumption DEF SaveHealth
  <2> QED
    BY <2>1, SameRowRests, OthersAsking DEF RequestInv
<1>3. ASSUME NEW q \in Requests, NEW s \in Quota, HealthCheck(q, s)
      PROVE  \A o \in Ops : RowRests(o) /\ AskingRests(o)
  <2> DEFINE asked == [op |-> NoOp, kind |-> "health", left |-> Lasts("health")]
  <2>1. row' = row /\ call[q] = NoCall /\ call' = [call EXCEPT ![q] = asked]
    BY <1>3 DEF HealthCheck, Ask
  <2>2. asked.op \notin Ops
    BY NoOpAssumption
  <2> HIDE DEF asked
  <2> QED
    BY <2>1, <2>2, SameRowRests, OthersAsking DEF RequestInv
<1>4. CASE UNCHANGED vars
  BY <1>4, SameRowRests DEF vars, AskingRests, Asking
<1> QED
  BY <1>1, <1>2, <1>3, <1>4

LEMMA NextIsPromised ==
  ASSUME RequestInv, [Next]_vars
  PROVE  [Promise!DialogueNext]_(Promise!dialogueVars)
<1>1. CASE \E q \in Requests, s \in Quota :
             \/ \E o \in Ops, t \in Targets, action \in {"lookup", "submit"},
                   k \in Keys \cup {NoKey} : Reserve(q, o, t, action, k, s)
             \/ \E o \in Ops : Poll(q, o, s)
  BY <1>1, ReserveIsPromised, PollIsPromised
<1>2. CASE (\E q \in Requests : SaveResult(q) \/ ResultLost(q)) \/ ApiCrash
  BY <1>2, ResultIsPromised, LossIsPromised, CrashIsPromised
<1>3. CASE \/ Tick
           \/ \E q \in Requests : SaveHealth(q) \/ \E s \in Quota : HealthCheck(q, s)
           \/ UNCHANGED vars
  <2>1. \A o \in Ops : RowRests(o) /\ AskingRests(o)
    BY <1>3, HiddenSteps
  <2> QED
    BY <2>1 DEF RowRests, AskingRests, Promise!dialogueVars
<1> QED
  BY <1>1, <1>2, <1>3 DEF Next

\* No operation has a row, and nobody asks.
LEMMA InitIsPromised == Init => Promise!DialogueInit
BY DEF Init, Promise!DialogueInit, Status, Asking

\* For any number of operations, clients and quota slots, with the clock,
\* repeated requests, failures and kills: the handlers of an operation
\* implement ProviderDialogue.
THEOREM OperationsAreDialogues == Spec => RefinesDialogue
<1>1. RequestInv /\ [Next]_vars => [Promise!DialogueNext]_(Promise!dialogueVars)
  BY NextIsPromised
<1> QED
  BY <1>1, InitIsPromised, RequestsCorrect, PTL
  DEF Spec, RefinesDialogue, Promise!DialogueSpec
=============================================================================
