--------------------------- MODULE DkimChecksProofs ---------------------------
(***************************************************************************)
(* Proofs about DkimChecks for any number of analyses, clients and checks, *)
(* and any delay that is longer than the timeout of a verification: its    *)
(* invariant, its properties, and that checks end.                         *)
(***************************************************************************)
EXTENDS DkimChecks, TLAPS

\* A call has a row, and while it has time left its row cannot be recovered.
CallsAreProtected ==
  \A q \in Requests : call[q] # NoCall =>
    /\ row[call[q].op] # NoRow
    /\ Pending(call[q].op) /\ call[q].left > 0 =>
         row[call[q].op].wait > call[q].left

\* The inductive invariant.
CheckInv ==
  /\ TypeOK
  /\ OneAnswer
  /\ AuditedOnce
  /\ OnePending
  /\ CallsAreProtected

\* What a row and a call are made of, once they are there.
LEMMA RowType ==
  ASSUME TypeOK, NEW o \in Ops, row[o] # NoRow
  PROVE  /\ row[o] \in Rows
         /\ row[o].analysis \in Analyses
         /\ row[o].status \in {"pending"} \cup Outcomes
         /\ row[o].key \in Keys \cup {NoKey}
         /\ row[o].wait \in 0..RecoveryDelay
BY DEF TypeOK, Rows

LEMMA CallType ==
  ASSUME TypeOK, NEW q \in Requests, call[q] # NoCall
  PROVE  call[q] \in Calls /\ call[q].op \in Ops /\ call[q].left \in 0..Timeout
BY DEF TypeOK, Calls

----------------------------------------------------------------------------
(* Type correctness.                                                       *)

LEMMA EndedRow ==
  ASSUME TypeOK, NEW o \in Ops, row[o] # NoRow, NEW outcome \in Outcomes
  PROVE  /\ [row[o] EXCEPT !.status = outcome, !.wait = 0] \in Rows
         /\ [row[o] EXCEPT !.status = outcome, !.wait = 0].status = outcome
         /\ [row[o] EXCEPT !.status = outcome, !.wait = 0].analysis = row[o].analysis
<1> DEFINE r == row[o]
<1>1. r \in Rows
  BY RowType
<1> HIDE DEF r
<1>2. 0 \in 0..RecoveryDelay
  BY TimesAssumption
<1>3. [r EXCEPT !.status = outcome, !.wait = 0] \in Rows
  BY <1>1, <1>2 DEF Rows
<1>4. /\ [r EXCEPT !.status = outcome, !.wait = 0].status = outcome
      /\ [r EXCEPT !.status = outcome, !.wait = 0].analysis = r.analysis
  BY <1>1 DEF Rows
<1> QED
  BY <1>3, <1>4 DEF r

LEMMA PersistTypeOK ==
  ASSUME TypeOK, NEW o \in Ops, row[o] # NoRow, NEW outcome \in Outcomes,
         PersistTerminal(o, outcome)
  PROVE  /\ row' \in [Ops -> Rows \cup {NoRow}]
         /\ told' \subseteq Answers
         /\ audits' \in [Ops -> Nat]
<1>1. told' \subseteq Answers
  BY DEF TypeOK, PersistTerminal, Tell
<1>2. row' \in [Ops -> Rows \cup {NoRow}]
  <2>1. CASE MayEnd(o)
    <3> DEFINE ended == [row[o] EXCEPT !.status = outcome, !.wait = 0]
    <3>1. ended \in Rows
      BY EndedRow
    <3>2. row' = [row EXCEPT ![o] = ended]
      BY <2>1 DEF PersistTerminal
    <3> HIDE DEF ended
    <3> QED
      BY <3>1, <3>2 DEF TypeOK
  <2>2. CASE ~MayEnd(o)
    BY <2>2 DEF TypeOK, PersistTerminal
  <2> QED
    BY <2>1, <2>2
<1>3. audits' \in [Ops -> Nat]
  BY DEF TypeOK, PersistTerminal
<1> QED
  BY <1>1, <1>2, <1>3

LEMMA InitTypeOK == Init => TypeOK
BY BoundsAssumption DEF Init, TypeOK

LEMMA NextTypeOK == TypeOK /\ [Next]_vars => TypeOK'
<1> SUFFICES ASSUME TypeOK, [Next]_vars PROVE TypeOK'
  OBVIOUS
<1>1. ASSUME NEW q \in Requests, NEW o \in Ops, NEW a \in Analyses,
             NEW k \in Keys \cup {NoKey}, Verify(q, o, a, k)
      PROVE  TypeOK'
  <2> DEFINE new == [analysis |-> a, status |-> "pending", key |-> k,
                     wait |-> RecoverableAfter]
             asked == [op |-> o, left |-> Timeout]
  <2>1. new \in Rows
    BY TimesAssumption DEF Rows, RecoverableAfter
  <2>2. asked \in Calls
    BY TimesAssumption DEF Calls
  <2> QED
    BY <1>1, <2>1, <2>2 DEF TypeOK, Verify
<1>2. ASSUME NEW o \in Ops, NEW a \in Analyses, NEW k \in Keys \cup {NoKey},
             Repeat(o, a, k)
      PROVE  TypeOK'
  BY <1>2 DEF TypeOK, Repeat, Tell
<1>3. ASSUME NEW q \in Requests, Complete(q)
      PROVE  TypeOK'
  <2>1. call[q].op \in Ops /\ call' \in [Requests -> Calls \cup {NoCall}]
    BY <1>3, CallType DEF TypeOK, Complete
  <2>2. CASE Exists(call[q].op)
    <3>1. row[call[q].op] # NoRow /\ PersistTerminal(call[q].op, "checked")
      BY <1>3, <2>2 DEF Complete, Exists
    <3> QED
      BY <1>3, <2>1, <3>1, PersistTypeOK DEF TypeOK, Complete, Outcomes
  <2>3. CASE ~Exists(call[q].op)
    BY <1>3, <2>1, <2>3 DEF TypeOK, Complete
  <2> QED
    BY <2>2, <2>3
<1>4. ASSUME NEW o \in Ops, Recover(o)
      PROVE  TypeOK'
  <2>1. row[o] # NoRow /\ PersistTerminal(o, "interrupted")
    BY <1>4 DEF Recover, Exists
  <2> QED
    BY <1>4, <2>1, PersistTypeOK DEF TypeOK, Recover, Outcomes
<1>5. ASSUME NEW a \in Analyses, Purge(a)
      PROVE  TypeOK'
  BY <1>5 DEF TypeOK, Purge
<1>6. ASSUME ApiCrash
      PROVE  TypeOK'
  <2>1. lost' \subseteq Ops
    BY <1>6, CallType DEF TypeOK, ApiCrash
  <2> QED
    BY <1>6, <2>1, BoundsAssumption DEF TypeOK, ApiCrash
<1>7. ASSUME Tick
      PROVE  TypeOK'
  <2>1. \A o \in Ops : row[o] # NoRow => [row[o] EXCEPT !.wait = Less(@)] \in Rows
    BY RowType, TimesAssumption DEF Rows, Less
  <2>2. \A q \in Requests : call[q] # NoCall => [call[q] EXCEPT !.left = Less(@)] \in Calls
    BY CallType, TimesAssumption DEF Calls, Less
  <2> QED
    BY <1>7, <2>1, <2>2 DEF TypeOK, Tick
<1>8. CASE UNCHANGED vars
  BY <1>8 DEF TypeOK, vars
<1> QED
  BY <1>1, <1>2, <1>3, <1>4, <1>5, <1>6, <1>7, <1>8 DEF Next

\* Type correctness for any delays and any number of clients.
THEOREM TypeCorrect == Spec => []TypeOK
BY InitTypeOK, NextTypeOK, PTL DEF Spec

----------------------------------------------------------------------------
(* What a step does to one operation.                                      *)

\* An operation is as it was, has been reserved, or has ended; only the end
\* is written to the journal.
Unmoved(o) ==
  /\ audits'[o] = audits[o]
  /\ \/ row[o] = NoRow /\ row'[o] = NoRow
     \/ /\ row[o] # NoRow /\ row'[o] # NoRow
        /\ row'[o].analysis = row[o].analysis
        /\ row'[o].status = row[o].status

Reserved(o) ==
  /\ audits'[o] = audits[o]
  /\ row[o] = NoRow
  /\ row'[o] # NoRow /\ row'[o].status = "pending"
  /\ ~PendingFor(row'[o].analysis, NoKey)

Ended(o) ==
  /\ audits'[o] = audits[o] + 1
  /\ Pending(o)
  /\ row'[o] # NoRow
  /\ row'[o].analysis = row[o].analysis
  /\ row'[o].status \in Outcomes

LEMMA PersistEnds ==
  ASSUME TypeOK, NEW o \in Ops, row[o] # NoRow, NEW outcome \in Outcomes,
         PersistTerminal(o, outcome)
  PROVE  /\ \A x \in Ops \ {o} : Unmoved(x)
         /\ Unmoved(o) \/ Ended(o)
         /\ told' \subseteq told \cup {[op |-> o, outcome |-> row'[o].status]}
<1>1. CASE MayEnd(o)
  <2> DEFINE ended == [row[o] EXCEPT !.status = outcome, !.wait = 0]
  <2>2. ended \in Rows /\ ended.status = outcome /\ ended.analysis = row[o].analysis
    BY EndedRow
  <2>3. row' = [row EXCEPT ![o] = ended] /\ audits' = [audits EXCEPT ![o] = @ + 1]
    BY <1>1 DEF PersistTerminal
  <2>4. row'[o] = ended /\ audits'[o] = audits[o] + 1 /\ ended # NoRow
    BY <2>2, <2>3, NoRowAssumption DEF TypeOK
  <2>5. Ended(o)
    BY <1>1, <2>2, <2>4 DEF Ended, MayEnd
  <2>6. \A x \in Ops \ {o} : row'[x] = row[x] /\ audits'[x] = audits[x]
    BY <2>3 DEF TypeOK
  <2>7. \A x \in Ops \ {o} : Unmoved(x)
    BY <2>6 DEF Unmoved
  <2>8. told' \subseteq told \cup {[op |-> o, outcome |-> row'[o].status]}
    BY <1>1, <2>2, <2>4 DEF PersistTerminal, Tell
  <2> QED
    BY <2>5, <2>7, <2>8
<1>2. CASE ~MayEnd(o)
  <2>1. row' = row /\ audits' = audits /\ Tell(o, row[o].status)
    BY <1>2 DEF PersistTerminal
  <2> QED
    BY <2>1 DEF Unmoved, Tell
<1> QED
  BY <1>1, <1>2

\* And whatever is told of an operation is what its row says then.
ToldTruly ==
  \A x \in told' : x \in told \/ (row'[x.op] # NoRow /\ row'[x.op].status = x.outcome)

LEMMA StepOfOperation ==
  ASSUME TypeOK, [Next]_vars
  PROVE  /\ \A o \in Ops : Unmoved(o) \/ Reserved(o) \/ Ended(o)
         /\ \A x, y \in Ops : Reserved(x) /\ Reserved(y) => x = y
         /\ ToldTruly
<1> DEFINE Goal == /\ \A o \in Ops : Unmoved(o) \/ Reserved(o) \/ Ended(o)
                   /\ \A x, y \in Ops : Reserved(x) /\ Reserved(y) => x = y
                   /\ ToldTruly
           Same == row' = row /\ audits' = audits
<1> SUFFICES Goal
  OBVIOUS
<1>0. Same /\ ToldTruly => Goal
  BY DEF Unmoved, Reserved
<1>1. ASSUME NEW q \in Requests, NEW o \in Ops, NEW a \in Analyses,
             NEW k \in Keys \cup {NoKey}, Verify(q, o, a, k)
      PROVE  Goal
  <2> DEFINE new == [analysis |-> a, status |-> "pending", key |-> k,
                     wait |-> RecoverableAfter]
  <2>1. new \in Rows
    BY TimesAssumption DEF Rows, RecoverableAfter
  <2>2. row'[o] = new /\ new # NoRow /\ row[o] = NoRow
    BY <1>1, <2>1, NoRowAssumption DEF Verify, TypeOK
  <2>3. ~PendingFor(a, NoKey)
    BY <1>1 DEF Verify, PendingFor
  <2>4. Reserved(o)
    BY <1>1, <2>2, <2>3 DEF Reserved, Verify
  <2>5. \A x \in Ops \ {o} : row'[x] = row[x] /\ audits'[x] = audits[x]
    BY <1>1 DEF Verify, TypeOK
  <2>6. \A x \in Ops \ {o} : Unmoved(x) /\ ~Reserved(x)
    BY <2>5 DEF Unmoved, Reserved
  <2>7. ToldTruly
    BY <1>1 DEF Verify, ToldTruly
  <2> QED
    BY <2>4, <2>6, <2>7
<1>2. ASSUME NEW o \in Ops, NEW a \in Analyses, NEW k \in Keys \cup {NoKey},
             Repeat(o, a, k)
      PROVE  Goal
  <2>1. Same /\ row[o] # NoRow
    BY <1>2 DEF Repeat, Previous, Exists
  <2>2. ToldTruly
    BY <1>2, <2>1 DEF Repeat, Tell, ToldTruly
  <2> QED
    BY <1>0, <2>1, <2>2
<1>3. ASSUME NEW o \in Ops, NEW outcome \in Outcomes, row[o] # NoRow,
             PersistTerminal(o, outcome)
      PROVE  Goal
  <2>1. /\ \A x \in Ops : Unmoved(x) \/ Ended(x)
        /\ told' \subseteq told \cup {[op |-> o, outcome |-> row'[o].status]}
        /\ row'[o] # NoRow
    BY <1>3, PersistEnds DEF Unmoved, Ended
  <2>2. \A x \in Ops : ~Reserved(x)
    BY <2>1 DEF Unmoved, Ended, Reserved, Pending
  <2>3. ToldTruly
    BY <2>1 DEF ToldTruly
  <2> QED
    BY <2>1, <2>2, <2>3
<1>4. ASSUME NEW q \in Requests, Complete(q)
      PROVE  Goal
  <2>1. CASE Exists(call[q].op)
    BY <1>3, <1>4, <2>1, CallType DEF Complete, Exists, Outcomes
  <2>2. CASE ~Exists(call[q].op)
    BY <1>0, <1>4, <2>2 DEF Complete, ToldTruly
  <2> QED
    BY <2>1, <2>2
<1>5. ASSUME NEW o \in Ops, Recover(o)
      PROVE  Goal
  BY <1>3, <1>5 DEF Recover, Exists, Outcomes
<1>6. CASE \/ \E a \in Analyses : Purge(a)
           \/ ApiCrash
           \/ UNCHANGED vars
  BY <1>0, <1>6 DEF Purge, ApiCrash, vars, ToldTruly
<1>7. CASE Tick
  <2>1. \A o \in Ops : row[o] # NoRow =>
          /\ [row[o] EXCEPT !.wait = Less(@)] \in Rows
          /\ [row[o] EXCEPT !.wait = Less(@)].status = row[o].status
          /\ [row[o] EXCEPT !.wait = Less(@)].analysis = row[o].analysis
    BY RowType, TimesAssumption DEF Rows, Less
  <2>2. \A o \in Ops : Unmoved(o)
    BY <1>7, <2>1, NoRowAssumption DEF Unmoved, Tick
  <2>3. \A o \in Ops : ~Reserved(o)
    BY <2>2 DEF Unmoved, Reserved
  <2>4. ToldTruly
    BY <1>7 DEF Tick, ToldTruly
  <2> QED
    BY <2>2, <2>3, <2>4
<1> QED
  BY <1>1, <1>2, <1>4, <1>5, <1>6, <1>7 DEF Next

----------------------------------------------------------------------------
(* The inductive invariant.                                                *)

LEMMA NextAnswers == CheckInv /\ [Next]_vars => (OneAnswer /\ AuditedOnce)'
<1> SUFFICES ASSUME CheckInv, [Next]_vars PROVE (OneAnswer /\ AuditedOnce)'
  OBVIOUS
<1>1. /\ \A o \in Ops : Unmoved(o) \/ Reserved(o) \/ Ended(o)
      /\ ToldTruly
  BY StepOfOperation DEF CheckInv
<1>2. \A x \in told : x.op \in Ops /\ x.outcome \in Outcomes /\ x.outcome # "pending"
  BY DEF CheckInv, TypeOK, Answers, Outcomes
<1>3. OneAnswer'
  <2>1. SUFFICES ASSUME NEW x \in told'
                 PROVE  row'[x.op] # NoRow /\ row'[x.op].status = x.outcome
    BY DEF OneAnswer
  <2>2. CASE x \notin told
    BY <1>1, <2>2 DEF ToldTruly
  <2>3. CASE x \in told
    <3>1. row[x.op] # NoRow /\ row[x.op].status = x.outcome /\ ~Pending(x.op)
      BY <1>2, <2>3 DEF CheckInv, OneAnswer, Pending
    <3>2. Unmoved(x.op)
      BY <1>1, <1>2, <2>3, <3>1 DEF Reserved, Ended
    <3> QED
      BY <3>1, <3>2 DEF Unmoved
  <2> QED
    BY <2>2, <2>3
<1>4. ASSUME NEW o \in Ops
      PROVE  audits'[o] = (IF row'[o] = NoRow \/ Pending(o)' THEN 0 ELSE 1)
  <2>1. audits[o] = (IF row[o] = NoRow \/ Pending(o) THEN 0 ELSE 1)
    BY DEF CheckInv, AuditedOnce
  <2>2. CASE Unmoved(o)
    BY <2>1, <2>2 DEF Unmoved, Pending
  <2>3. CASE Reserved(o)
    BY <2>1, <2>3 DEF Reserved, Pending
  <2>4. CASE Ended(o)
    BY <2>1, <2>4 DEF Ended, Pending, Outcomes
  <2> QED
    BY <1>1, <2>2, <2>3, <2>4
<1>5. AuditedOnce'
  BY <1>4 DEF AuditedOnce
<1> QED
  BY <1>3, <1>5

LEMMA NextOnePending == CheckInv /\ [Next]_vars => OnePending'
<1> SUFFICES ASSUME CheckInv, [Next]_vars, NEW x \in Ops, NEW y \in Ops,
                    Pending(x)', Pending(y)', row'[x].analysis = row'[y].analysis
             PROVE  x = y
  BY DEF OnePending
<1>1. /\ \A o \in Ops : Unmoved(o) \/ Reserved(o) \/ Ended(o)
      /\ Reserved(x) /\ Reserved(y) => x = y
  BY StepOfOperation DEF CheckInv
<1>2. /\ Unmoved(x) \/ Reserved(x)
      /\ Unmoved(y) \/ Reserved(y)
  BY <1>1 DEF Ended, Pending, Outcomes
<1>3. ASSUME NEW u \in Ops, NEW v \in Ops, Reserved(u), Unmoved(v), Pending(v)',
             row'[u].analysis = row'[v].analysis
      PROVE  FALSE
  BY <1>3 DEF Reserved, Unmoved, Pending, PendingFor
<1>4. CASE Unmoved(x) /\ Unmoved(y)
  BY <1>4 DEF CheckInv, OnePending, Unmoved, Pending
<1> QED
  BY <1>1, <1>2, <1>3, <1>4

LEMMA NextProtected == CheckInv /\ [Next]_vars => CallsAreProtected'
<1> SUFFICES ASSUME CheckInv, [Next]_vars, NEW q \in Requests, call'[q] # NoCall
             PROVE  /\ row'[call'[q].op] # NoRow
                    /\ row'[call'[q].op].status = "pending" /\ call'[q].left > 0 =>
                         row'[call'[q].op].wait > call'[q].left
  BY DEF CallsAreProtected, Pending
<1> DEFINE Goal == /\ row'[call'[q].op] # NoRow
                   /\ row'[call'[q].op].status = "pending" /\ call'[q].left > 0 =>
                        row'[call'[q].op].wait > call'[q].left
           Here == call[q] # NoCall /\ call'[q] = call[q] /\ call[q].op \in Ops
<1> USE DEF CheckInv
<1>1. \A o \in Ops : Unmoved(o) \/ Reserved(o) \/ Ended(o)
  BY StepOfOperation
<1>2. ASSUME Here, row'[call[q].op] = row[call[q].op]
      PROVE  Goal
  BY <1>2 DEF CallsAreProtected, Pending
<1>3. ASSUME Here, row'[call[q].op] # NoRow, row'[call[q].op].status # "pending"
      PROVE  Goal
  BY <1>3
<1>4. ASSUME NEW r \in Requests, NEW o \in Ops, NEW a \in Analyses,
             NEW k \in Keys \cup {NoKey}, Verify(r, o, a, k)
      PROVE  Goal
  <2> DEFINE new == [analysis |-> a, status |-> "pending", key |-> k,
                     wait |-> RecoverableAfter]
             asked == [op |-> o, left |-> Timeout]
  <2>1. row'[o] = new /\ new \in Rows /\ new # NoRow /\ row[o] = NoRow
    BY <1>4, TimesAssumption, NoRowAssumption DEF Verify, TypeOK, Rows, RecoverableAfter
  <2>2. CASE q = r
    <3>1. call'[q] = asked
      BY <1>4, <2>2 DEF Verify, TypeOK
    <3>2. new.wait > asked.left
      BY TimesAssumption DEF RecoverableAfter
    <3> QED
      BY <2>1, <3>1, <3>2
  <2>3. CASE q # r
    <3>1. Here
      BY <1>4, <2>3, CallType DEF Verify, TypeOK
    <3>2. call[q].op # o
      BY <2>1, <3>1 DEF CallsAreProtected
    <3>3. row'[call[q].op] = row[call[q].op]
      BY <1>4, <3>1, <3>2 DEF Verify, TypeOK
    <3> QED
      BY <1>2, <3>1, <3>3
  <2> QED
    BY <2>2, <2>3
<1>5. ASSUME Here, NEW o \in Ops, row[o] # NoRow, NEW outcome \in Outcomes,
             PersistTerminal(o, outcome)
      PROVE  Goal
  <2>1. row[call[q].op] # NoRow
    BY <1>5 DEF CallsAreProtected
  <2>2. CASE row' = row
    BY <1>2, <1>5, <2>2
  <2>3. CASE MayEnd(o)
    <3> DEFINE ended == [row[o] EXCEPT !.status = outcome, !.wait = 0]
    <3>1. ended \in Rows /\ ended.status = outcome /\ ended # NoRow
      BY ZenonT(40), <1>5, EndedRow, NoRowAssumption
    <3>2. row' = [row EXCEPT ![o] = ended]
      BY <1>5, <2>3 DEF PersistTerminal
    <3>3. CASE call[q].op = o
      <4>1. row'[o] = ended
        BY <3>2 DEF TypeOK
      <4>2. row'[o].status # "pending"
        BY <3>1, <4>1 DEF Outcomes
      <4> QED
        BY <1>3, <1>5, <3>1, <3>3, <4>1, <4>2
    <3>4. CASE call[q].op # o
      BY <1>2, <1>5, <3>2, <3>4 DEF TypeOK
    <3> QED
      BY <3>3, <3>4
  <2> QED
    BY <1>5, <2>2, <2>3 DEF PersistTerminal
<1>6. ASSUME NEW r \in Requests, Complete(r)
      PROVE  Goal
  <2>1. Here
    BY <1>6, CallType DEF Complete, TypeOK
  <2>2. CASE Exists(call[r].op)
    BY <1>5, <1>6, <2>1, <2>2, CallType DEF Complete, Exists, Outcomes
  <2>3. CASE ~Exists(call[r].op)
    BY <1>2, <1>6, <2>1, <2>3 DEF Complete
  <2> QED
    BY <2>2, <2>3
<1>7. ASSUME NEW o \in Ops, Recover(o)
      PROVE  Goal
  <2>1. Here
    BY <1>7, CallType DEF Recover
  <2> QED
    BY <1>5, <1>7, <2>1 DEF Recover, Exists, Outcomes
<1>8. CASE \/ \E o \in Ops, a \in Analyses, k \in Keys \cup {NoKey} : Repeat(o, a, k)
           \/ \E a \in Analyses : Purge(a)
           \/ UNCHANGED vars
  <2>1. row' = row /\ call' = call
    BY <1>8 DEF Repeat, Purge, vars
  <2> QED
    BY <1>2, <2>1, CallType
<1>9. ~ApiCrash
  BY DEF ApiCrash
<1>10. CASE Tick
  <2>1. call[q] # NoCall /\ call'[q] = [call[q] EXCEPT !.left = Less(@)]
    BY <1>10 DEF Tick
  <2> DEFINE o == call[q].op
             n == call[q].left
  <2>2. call[q] \in Calls /\ o \in Ops /\ n \in Nat /\ call'[q].op = o
    BY <2>1, CallType, TimesAssumption DEF Calls
  <2>3. call'[q].left = Less(n)
    BY <2>1, <2>2 DEF Calls
  <2>4. row[o] # NoRow
    BY <2>1 DEF CallsAreProtected
  <2>5. row[o] \in Rows /\ row[o].wait \in Nat
    BY <2>2, <2>4, RowType, TimesAssumption
  <2>6. row'[o] = [row[o] EXCEPT !.wait = Less(@)]
    BY <1>10, <2>2, <2>4 DEF Tick
  <2>7. row'[o].wait = Less(row[o].wait) /\ row'[o].status = row[o].status /\ row'[o] # NoRow
    <3>1. [row[o] EXCEPT !.wait = Less(@)] \in Rows
      BY <2>2, <2>4, RowType, TimesAssumption DEF Rows, Less
    <3> QED
      BY <2>5, <2>6, <3>1, NoRowAssumption DEF Rows
  <2>8. ASSUME row'[o].status = "pending", Less(n) > 0
        PROVE  Less(row[o].wait) > Less(n)
    <3>1. Pending(o) /\ n > 0
      BY <2>2, <2>4, <2>7, <2>8 DEF Pending, Less
    <3>2. row[o].wait > n
      BY <2>1, <3>1 DEF CallsAreProtected
    <3> QED
      BY <2>2, <2>5, <3>1, <3>2 DEF Less
  <2> QED
    BY <2>2, <2>3, <2>7, <2>8
<1> QED
  BY <1>4, <1>6, <1>7, <1>8, <1>9, <1>10 DEF Next

\* The invariant for any number of analyses, clients and checks.
THEOREM ChecksCorrect == Spec => []CheckInv
<1>1. Init => CheckInv
  BY InitTypeOK DEF Init, CheckInv, OneAnswer, AuditedOnce, OnePending, Pending,
                    CallsAreProtected
<1>2. CheckInv /\ [Next]_vars => CheckInv'
  BY NextTypeOK, NextAnswers, NextOnePending, NextProtected DEF CheckInv
<1> QED
  BY <1>1, <1>2, PTL DEF Spec

----------------------------------------------------------------------------
(* The properties.                                                         *)

\* An operation ends once, for its clients and in the journal.
THEOREM EndsOnce == Spec => []EndedOnce
<1>1. CheckInv => EndedOnce
  BY DEF CheckInv, EndedOnce
<1> QED
  BY <1>1, ChecksCorrect, PTL

\* Two checks of one analysis are never pending.
THEOREM PendingIsUnique == Spec => []OnePending
<1>1. CheckInv => OnePending
  BY DEF CheckInv
<1> QED
  BY <1>1, ChecksCorrect, PTL

\* No check is declared interrupted while its subprocess has time left.
THEOREM RecoveryWaits == Spec => ActiveIsNotInterrupted
<1>1. CheckInv /\ [Next]_vars =>
        \A o \in Ops : \A q \in Requests :
          /\ Pending(o) /\ row'[o].status = "interrupted"
          /\ call[q] # NoCall /\ call[q].op = o
          => call[q].left = 0
  <2> SUFFICES ASSUME CheckInv, [Next]_vars, NEW o \in Ops, NEW q \in Requests,
                      Pending(o), row'[o].status = "interrupted",
                      call[q] # NoCall, call[q].op = o
               PROVE  call[q].left = 0
    OBVIOUS
  <2>1. ASSUME NEW x \in Ops, Recover(x)
        PROVE  call[q].left = 0
    <3>1. CASE x = o
      <4>1. row[o].wait = 0
        BY <2>1, <3>1 DEF Recover
      <4>2. call[q].left \in Nat
        BY CallType, TimesAssumption DEF CheckInv
      <4> QED
        BY <4>1, <4>2 DEF CheckInv, CallsAreProtected
    <3>2. CASE x # o
      BY <2>1, <3>2 DEF Recover, PersistTerminal, CheckInv, TypeOK, Pending
    <3> QED
      BY <3>1, <3>2
  <2>2. ASSUME NEW r \in Requests, Complete(r)
        PROVE  FALSE
    <3>1. CASE row' = row
      BY <3>1 DEF Pending
    <3>2. CASE Exists(call[r].op) /\ MayEnd(call[r].op)
      <4> DEFINE x == call[r].op
                 ended == [row[x] EXCEPT !.status = "checked", !.wait = 0]
      <4>1. x \in Ops /\ row[x] # NoRow /\ PersistTerminal(x, "checked")
        BY <2>2, <3>2, CallType DEF Complete, Exists, CheckInv
      <4>2. ended.status = "checked" /\ row' = [row EXCEPT ![x] = ended]
        BY <3>2, <4>1, EndedRow DEF PersistTerminal, Outcomes, CheckInv
      <4> HIDE DEF ended
      <4>3. row'[o] = row[o] \/ row'[o] = ended
        BY <4>2 DEF CheckInv, TypeOK
      <4> QED
        BY <4>2, <4>3 DEF Pending
    <3> QED
      BY <2>2, <3>1, <3>2 DEF Complete, PersistTerminal
  <2>3. ASSUME row'[o].status = row[o].status
        PROVE  FALSE
    BY <2>3 DEF Pending
  <2>4. ASSUME NEW r \in Requests, NEW x \in Ops, NEW a \in Analyses,
               NEW k \in Keys \cup {NoKey}, Verify(r, x, a, k)
        PROVE  FALSE
    <3>1. x # o
      BY <2>4 DEF Verify, Pending
    <3> QED
      BY <2>3, <2>4, <3>1 DEF Verify, CheckInv, TypeOK
  <2>5. ASSUME Tick
        PROVE  FALSE
    <3>1. row[o] \in Rows /\ row'[o] = [row[o] EXCEPT !.wait = Less(@)]
      BY <2>5, RowType DEF Tick, Pending, CheckInv
    <3> QED
      BY <2>3, <3>1 DEF Rows
  <2>6. CASE \/ \E x \in Ops, a \in Analyses, k \in Keys \cup {NoKey} : Repeat(x, a, k)
             \/ \E a \in Analyses : Purge(a)
             \/ ApiCrash
             \/ UNCHANGED vars
    BY <2>3, <2>6 DEF Repeat, Purge, ApiCrash, vars
  <2> QED
    BY <2>1, <2>2, <2>4, <2>5, <2>6 DEF Next
<1> QED
  BY <1>1, ChecksCorrect, PTL DEF Spec, ActiveIsNotInterrupted

----------------------------------------------------------------------------
(* Progress.  No check is pending without a verification under way, unless *)
(* its process was killed; so whoever answers the requests ends the checks.*)

Idle(q) == call[q] = NoCall

Serves(q, o) == call[q] # NoCall /\ call[q].op = o

Settled(o) == ~Pending(o) \/ o \in lost

\* Retention does not take the analysis of a pending check away.
PendingIsKept == \A o \in Ops : Pending(o) => row[o].analysis \in kept

\* A pending check has a request that serves it, or it was lost.
PendingIsServed == \A o \in Ops : Settled(o) \/ \E q \in Requests : Serves(q, o)

\* Only a request of its own reserves a row, and the request serves it then.
LEMMA ReservedIsServed ==
  ASSUME CheckInv, [Next]_vars, NEW o \in Ops, Reserved(o)
  PROVE  row'[o].analysis \in kept /\ kept' = kept /\ \E q \in Requests : Serves(q, o)'
<1>1. ASSUME NEW q \in Requests, NEW x \in Ops, NEW a \in Analyses,
             NEW k \in Keys \cup {NoKey}, Verify(q, x, a, k)
      PROVE  row'[o].analysis \in kept /\ kept' = kept /\ Serves(q, o)'
  <2> DEFINE asked == [op |-> x, left |-> Timeout]
             new == [analysis |-> a, status |-> "pending", key |-> k,
                     wait |-> RecoverableAfter]
  <2>1. x = o
    BY <1>1 DEF Verify, Reserved, CheckInv, TypeOK
  <2>2. /\ asked \in Calls /\ call' = [call EXCEPT ![q] = asked]
        /\ new.analysis = a /\ row' = [row EXCEPT ![x] = new]
        /\ a \in kept /\ kept' = kept
    BY <1>1, TimesAssumption DEF Verify, Calls
  <2>3. asked.op = o /\ asked # NoCall
    BY <2>1, <2>2, NoRowAssumption
  <2> HIDE DEF asked, new
  <2> QED
    BY <2>1, <2>2, <2>3 DEF Serves, CheckInv, TypeOK
<1>2. ASSUME row[o] = NoRow => row'[o] = NoRow
      PROVE  FALSE
  BY <1>2 DEF Reserved
<1>3. ASSUME NEW x \in Ops, row[x] # NoRow, NEW outcome \in Outcomes,
             PersistTerminal(x, outcome)
      PROVE  FALSE
  BY <1>3, PersistEnds DEF CheckInv, Unmoved, Ended, Reserved
<1>4. ASSUME NEW q \in Requests, Complete(q)
      PROVE  FALSE
  BY <1>2, <1>3, <1>4, CallType DEF Complete, Exists, Outcomes, CheckInv
<1>5. ASSUME NEW x \in Ops, Recover(x)
      PROVE  FALSE
  BY <1>3, <1>5 DEF Recover, Exists, Outcomes
<1>6. ~Tick
  BY <1>2 DEF Tick
<1>7. CASE \/ \E x \in Ops, a \in Analyses, k \in Keys \cup {NoKey} : Repeat(x, a, k)
           \/ \E a \in Analyses : Purge(a)
           \/ ApiCrash
           \/ UNCHANGED vars
  BY <1>2, <1>7 DEF Repeat, Purge, ApiCrash, vars
<1> QED
  BY <1>1, <1>4, <1>5, <1>6, <1>7 DEF Next

LEMMA NextKept == CheckInv /\ PendingIsKept /\ [Next]_vars => PendingIsKept'
<1> SUFFICES ASSUME CheckInv, PendingIsKept, [Next]_vars, NEW o \in Ops, Pending(o)'
             PROVE  row'[o].analysis \in kept'
  BY DEF PendingIsKept
<1>1. CASE Reserved(o)
  BY <1>1, ReservedIsServed
<1>2. CASE ~Reserved(o)
  <2>1. Pending(o) /\ row'[o].analysis = row[o].analysis
    BY <1>2, StepOfOperation DEF CheckInv, Unmoved, Ended, Pending, Outcomes
  <2>2. row[o].analysis \in kept
    BY <2>1 DEF PendingIsKept
  <2>3. ASSUME NEW a \in Analyses, Purge(a)
        PROVE  row[o].analysis # a
    BY <2>1, <2>3 DEF Purge, PendingFor
  <2>4. \/ kept' = kept
        \/ \E a \in Analyses : Purge(a)
    BY DEF Next, Verify, Repeat, Complete, Recover, ApiCrash, Tick, vars
  <2> QED
    BY <2>1, <2>2, <2>3, <2>4 DEF Purge
<1> QED
  BY <1>1, <1>2

\* The request that serves a check goes on, or the check has ended or is lost.
LEMMA ServerStays ==
  ASSUME CheckInv, PendingIsKept, [Next]_vars, NEW q \in Requests, NEW o \in Ops,
         Serves(q, o)
  PROVE  Serves(q, o)' \/ Settled(o)'
<1> SUFFICES ASSUME Pending(o)'
             PROVE  Serves(q, o)' \/ o \in lost'
  BY DEF Settled
<1>1. CASE call'[q] = call[q]
  BY <1>1 DEF Serves
<1>2. ASSUME NEW r \in Requests, NEW x \in Ops, NEW a \in Analyses,
             NEW k \in Keys \cup {NoKey}, Verify(r, x, a, k)
      PROVE  call'[q] = call[q]
  BY <1>2 DEF Verify, Serves, CheckInv, TypeOK
<1>3. ASSUME NEW r \in Requests, Complete(r)
      PROVE  call'[q] = call[q]
  <2>1. CASE r = q
    <3>1. row[o] # NoRow
      BY DEF CheckInv, CallsAreProtected, Serves
    <3>2. CASE Exists(o)
      <4>1. PersistTerminal(o, "checked") /\ call[q].op = o
        BY <1>3, <2>1, <3>2 DEF Complete, Serves
      <4>2. CASE MayEnd(o)
        <5> DEFINE ended == [row[o] EXCEPT !.status = "checked", !.wait = 0]
        <5>1. ended.status = "checked" /\ row' = [row EXCEPT ![o] = ended]
          BY <3>1, <4>1, <4>2, EndedRow DEF PersistTerminal, Outcomes, CheckInv
        <5> HIDE DEF ended
        <5> QED
          BY <5>1 DEF Pending, CheckInv, TypeOK
      <4>3. CASE ~MayEnd(o)
        BY <4>1, <4>3 DEF PersistTerminal, MayEnd, Pending
      <4> QED
        BY <4>2, <4>3
    <3>3. CASE ~Exists(o)
      <4>1. ~Pending(o) /\ row' = row
        BY <1>3, <2>1, <3>1, <3>3 DEF Complete, Serves, PendingIsKept, Exists
      <4> QED
        BY <4>1 DEF Pending
    <3> QED
      BY <3>2, <3>3
  <2>2. CASE r # q
    BY <1>3, <2>2 DEF Complete, CheckInv, TypeOK
  <2> QED
    BY <2>1, <2>2
<1>4. CASE ApiCrash
  BY <1>4 DEF ApiCrash, Serves
<1>5. CASE Tick
  <2>1. call[q] \in Calls /\ call'[q] = [call[q] EXCEPT !.left = Less(@)]
    BY <1>5, CallType DEF Tick, Serves, CheckInv
  <2>2. Less(call[q].left) \in 0..Timeout
    BY <2>1, TimesAssumption DEF Calls, Less
  <2>3. call'[q] \in Calls /\ call'[q].op = call[q].op
    BY <2>1, <2>2 DEF Calls
  <2> QED
    BY <2>3, NoRowAssumption DEF Serves
<1>6. CASE \/ \E x \in Ops, a \in Analyses, k \in Keys \cup {NoKey} : Repeat(x, a, k)
           \/ \E x \in Ops : Recover(x)
           \/ \E a \in Analyses : Purge(a)
           \/ UNCHANGED vars
  BY <1>1, <1>6 DEF Repeat, Recover, Purge, vars
<1> QED
  BY <1>1, <1>2, <1>3, <1>4, <1>5, <1>6 DEF Next

LEMMA NextServed ==
  CheckInv /\ PendingIsKept /\ PendingIsServed /\ [Next]_vars => PendingIsServed'
<1> SUFFICES ASSUME CheckInv, PendingIsKept, PendingIsServed, [Next]_vars, NEW o \in Ops
             PROVE  Settled(o)' \/ \E q \in Requests : Serves(q, o)'
  BY DEF PendingIsServed
<1>1. CASE \E q \in Requests : Serves(q, o)
  BY <1>1, ServerStays
<1>2. CASE o \in lost
  BY <1>2 DEF Settled, Next, Verify, Repeat, Complete, Recover, Purge, ApiCrash, Tick, vars
<1>3. CASE Reserved(o)
  BY <1>3, ReservedIsServed
<1>4. CASE ~Pending(o) /\ ~Reserved(o)
  <2>1. Unmoved(o)
    BY <1>4, StepOfOperation DEF CheckInv, Ended
  <2> QED
    BY <1>4, <2>1 DEF Unmoved, Pending, Settled
<1> QED
  BY <1>1, <1>2, <1>3, <1>4 DEF PendingIsServed, Settled

\* What the proof of progress knows of every reachable state.
ServedInv == CheckInv /\ PendingIsKept /\ PendingIsServed

LEMMA ServedAlways == Spec => []ServedInv
<1>1. Init => ServedInv
  BY InitTypeOK DEF Init, CheckInv, OneAnswer, AuditedOnce, OnePending, Pending,
                    CallsAreProtected, ServedInv, PendingIsKept, PendingIsServed, Settled
<1>2. ServedInv /\ [Next]_vars => ServedInv'
  BY NextTypeOK, NextAnswers, NextOnePending, NextProtected, NextKept, NextServed
  DEF CheckInv, ServedInv
<1> QED
  BY <1>1, <1>2, PTL DEF Spec

\* A check is pending only while a request serves it, unless it was lost.
THEOREM NoCheckIsForgotten == Spec => []PendingIsServed
<1>1. ServedInv => PendingIsServed
  BY DEF ServedInv
<1> QED
  BY <1>1, ServedAlways, PTL

\* The one premise that speaks of ENABLED: a verification that is under way
\* can be completed.
Completable(q) == [](Idle(q) \/ ENABLED <<Complete(q)>>_vars)

EndsItsCheck(q, o) == [](Serves(q, o) => <>Settled(o))

\* A request that is scheduled fairly ends the check it serves.
LEMMA RequestEndsCheck ==
  ASSUME NEW q \in Requests, NEW o \in Ops
  PROVE  Spec /\ Fairness(q) /\ Completable(q) => EndsItsCheck(q, o)
<1>1. Spec => []ServedInv
  BY ServedAlways
<1>2. ServedInv /\ <<Complete(q)>>_vars => Idle(q)'
  BY DEF Complete, ServedInv, CheckInv, TypeOK, Idle
<1>3. ServedInv /\ [Next]_vars /\ Serves(q, o) => Serves(q, o)' \/ Settled(o)'
  BY ServerStays DEF ServedInv
<1>4. Serves(q, o) => ~Idle(q)
  BY DEF Serves, Idle
<1> QED
  BY <1>1, <1>2, <1>3, <1>4, PTL DEF Spec, Completable, Fairness, EndsItsCheck

\* A check ends, or its process was killed, whenever requests are scheduled as
\* FairSpec says and one that is under way can be completed.
THEOREM ChecksAreEnded ==
  FairSpec /\ (\A q \in Requests : Completable(q)) => ChecksEnd
<1>1. ASSUME NEW o \in Ops
      PROVE  Spec /\ [](\A q \in Requests : Serves(q, o) => <>Settled(o))
               => (Pending(o) ~> ~Pending(o) \/ o \in lost)
  <2>1. (\A q \in Requests : Serves(q, o) => <>Settled(o))
          => ((\E q \in Requests : Serves(q, o)) => <>Settled(o))
    OBVIOUS
  <2>2. ServedInv => Settled(o) \/ \E q \in Requests : Serves(q, o)
    BY DEF ServedInv, PendingIsServed
  <2>3. Settled(o) => ~Pending(o) \/ o \in lost
    BY DEF Settled
  <2> QED
    BY <2>1, <2>2, <2>3, ServedAlways, PTL
<1>2. ASSUME NEW o \in Ops, FairSpec, \A q \in Requests : Completable(q)
      PROVE  Pending(o) ~> ~Pending(o) \/ o \in lost
  <2>1. \A q \in Requests : EndsItsCheck(q, o)
    BY <1>2, RequestEndsCheck DEF FairSpec
  <2>2. [](\A q \in Requests : Serves(q, o) => <>Settled(o))
    BY <2>1 DEF EndsItsCheck
  <2> QED
    BY <1>1, <1>2, <2>2 DEF FairSpec
<1> QED
  BY <1>2 DEF ChecksEnd
=============================================================================
