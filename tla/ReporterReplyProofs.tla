------------------------- MODULE ReporterReplyProofs -------------------------
(***************************************************************************)
(* Theorems about ReporterReply, for any number of replies, analysts and   *)
(* send requests, any texts and any bounds.                                *)
(*                                                                         *)
(* The inductive invariant relates the three copies of a reply's revision: *)
(* a page and a send request never know a revision the row has not reached *)
(* yet, and one that knows the newest also knows the newest text.  A       *)
(* request at the newest revision therefore still owns the reply, and two  *)
(* requests for one reply never carry the same revision.  Deliveries are   *)
(* counted against a budget: what was delivered, what may still be, and    *)
(* what an unsent draft may add never exceed one per verdict.              *)
(*                                                                         *)
(* From the same invariant the replies refine Correspondence, and no reply *)
(* stays "sending" while the request that owns it is served.               *)
(***************************************************************************)
EXTENDS ReporterReply, FiniteSetTheorems, SequenceTheorems, TLAPS

\* A row no analyst created has the defaults, and only verdicts carry a proof.
RowsAreKept ==
  /\ \A r \in Replies \ drafted : row[r].status = "draft"
  /\ \A r \in Replies : row[r].reconciled => row[r].status \in {"accepted", "failed"}

\* A page is never ahead of its row, and at the same revision it shows the row.
PagesAreBehind ==
  \A c \in Analysts :
    seen[c] # NoPreview =>
      /\ seen[c].reply \in drafted
      /\ seen[c].revision <= row[seen[c].reply].revision
      /\ seen[c].revision = row[seen[c].reply].revision =>
           seen[c].text = row[seen[c].reply].text

\* A request is behind its row by its own mark at least; behind by that alone,
\* it still owns the reply.
RequestsAreBehind ==
  \A q \in Requests :
    call[q] # NoCall =>
      /\ call[q].reply \in drafted
      /\ call[q].text = call[q].shown
      /\ call[q].revision < row[call[q].reply].revision
      /\ call[q].revision + 1 = row[call[q].reply].revision =>
           /\ row[call[q].reply].status = "sending"
           /\ row[call[q].reply].text = call[q].text

\* What a transmission leaves in the transport's books.
Logged(r, t, v) ==
  \E i \in DOMAIN mail[r] : mail[r][i].text = t /\ mail[r][i].revision = v

\* The transport only accepts what it delivered.
AcceptedIsLogged ==
  \A q \in Requests :
    call[q] # NoCall /\ call[q].state = "accepted" =>
      Logged(call[q].reply, call[q].text, call[q].revision)

\* One request per revision of a reply.
RequestsDiffer ==
  \A q, p \in Requests :
    call[q] # NoCall /\ call[p] # NoCall /\ q # p
      /\ call[q].reply = call[p].reply => call[q].revision # call[p].revision

IInv ==
  /\ TypeOK /\ RowsAreKept /\ PagesAreBehind /\ RequestsAreBehind
  /\ AcceptedIsLogged /\ RequestsDiffer /\ PreviewIsSent /\ AcceptedAsDelivered

----------------------------------------------------------------------------
\* The defaults of the table are a row.
LEMMA BlankIsRow ==
  \A t \in Texts, a \in Analyses \cup {NoAnalysis} : Blank(t, a) \in Rows
BY BoundsAssumption DEF Blank, Rows, Versions

\* A reply that nobody has drafted, mailed or asked for fits the invariant.
LEMMA InitIInv == Init => IInv
<1> SUFFICES ASSUME Init PROVE IInv
  OBVIOUS
<1>1. TypeOK
  BY BlankIsRow, BoundsAssumption DEF Init, TypeOK
<1>2. \A r \in Replies : row[r].status = "draft" /\ ~row[r].reconciled
  BY DEF Init, Blank
<1>3. RowsAreKept /\ AcceptedAsDelivered
  BY <1>2 DEF RowsAreKept, AcceptedAsDelivered
<1>4. PagesAreBehind /\ RequestsAreBehind /\ AcceptedIsLogged /\ RequestsDiffer
  BY DEF Init, PagesAreBehind, RequestsAreBehind, AcceptedIsLogged, RequestsDiffer
<1>5. PreviewIsSent
  BY DEF Init, PreviewIsSent
<1> QED
  BY <1>1, <1>3, <1>4, <1>5 DEF IInv

\* A reply is created: its row was a draft nobody had seen.
LEMMA CreateKeepsIInv ==
  ASSUME IInv, NEW r \in Replies, NEW t \in Texts,
         NEW a \in Analyses \cup {NoAnalysis}, CreateReply(r, t, a)
  PROVE  IInv'
<1> DEFINE new == Blank(t, a)
<1>1. /\ new \in Rows /\ new.status = "draft" /\ ~new.reconciled
  BY BlankIsRow DEF Blank
<1>2. /\ r \notin drafted /\ drafted' = drafted \cup {r}
      /\ row' = [row EXCEPT ![r] = new]
      /\ UNCHANGED <<decision, seen, call, mail, refuted, orphaned, losses>>
  BY DEF CreateReply
<1> HIDE DEF new
<1> USE DEF IInv
<1>3. TypeOK'
  BY <1>1, <1>2 DEF TypeOK
<1>4. RowsAreKept'
  BY <1>1, <1>2 DEF RowsAreKept, TypeOK
<1>5. PagesAreBehind'
  BY <1>2 DEF PagesAreBehind, TypeOK
<1>6. RequestsAreBehind'
  BY <1>2 DEF RequestsAreBehind, TypeOK
<1>7. AcceptedIsLogged' /\ RequestsDiffer' /\ PreviewIsSent'
  BY <1>2 DEF AcceptedIsLogged, Logged, RequestsDiffer, PreviewIsSent
<1>8. AcceptedAsDelivered'
  BY <1>1, <1>2 DEF AcceptedAsDelivered, TypeOK
<1> QED
  BY <1>3, <1>4, <1>5, <1>6, <1>7, <1>8

\* A page is loaded: it shows the row as it is.
LEMMA PreviewKeepsIInv ==
  ASSUME IInv, NEW c \in Analysts, NEW r \in Replies, Preview(c, r)
  PROVE  IInv'
<1> DEFINE page == [reply |-> r, revision |-> row[r].revision, text |-> row[r].text]
<1>1. row[r].revision \in Versions /\ row[r].text \in Texts
  BY DEF IInv, TypeOK, Rows
<1>2. /\ page \in Previews /\ page.reply = r /\ page # NoPreview
      /\ page.revision = row[r].revision /\ page.text = row[r].text
  BY <1>1, NoPreviewAssumption DEF Previews
<1>3. /\ r \in drafted /\ seen' = [seen EXCEPT ![c] = page]
      /\ UNCHANGED <<drafted, row, decision, call, mail, refuted, orphaned, losses>>
  BY DEF Preview
<1> HIDE DEF page
<1> USE DEF IInv
<1>4. TypeOK'
  BY <1>2, <1>3 DEF TypeOK
<1>5. PagesAreBehind'
  BY <1>1, <1>2, <1>3 DEF PagesAreBehind, TypeOK, Versions
<1>6. RowsAreKept' /\ RequestsAreBehind' /\ AcceptedIsLogged' /\ RequestsDiffer'
  BY <1>3 DEF RowsAreKept, RequestsAreBehind, AcceptedIsLogged, Logged, RequestsDiffer
<1>7. PreviewIsSent' /\ AcceptedAsDelivered'
  BY <1>3 DEF PreviewIsSent, AcceptedAsDelivered
<1> QED
  BY <1>4, <1>5, <1>6, <1>7

\* A drafted row takes a new revision and no request comes or goes: pages and
\* requests fall behind.  This is an edit or a reconciliation.
LEMMA BumpKeepsIInv ==
  ASSUME IInv, NEW r \in drafted, NEW new \in Rows,
         new.revision = row[r].revision + 1,
         new.reconciled => new.status \in {"accepted", "failed"},
         new.status = "accepted" => new.reconciled,
         row' = [row EXCEPT ![r] = new],
         refuted' \in [Replies -> Nat],
         UNCHANGED <<drafted, decision, seen, call, mail, orphaned, losses>>
  PROVE  IInv'
<1> USE DEF IInv
<1>1. r \in Replies /\ row[r].revision \in Nat
  BY DEF TypeOK, Rows, Versions
<1>2. TypeOK'
  BY <1>1 DEF TypeOK
<1>3. RowsAreKept'
  BY <1>1 DEF RowsAreKept, TypeOK
<1>4. PagesAreBehind'
  <2> SUFFICES ASSUME NEW c \in Analysts, seen[c] # NoPreview
               PROVE  /\ seen[c].reply \in drafted
                      /\ seen[c].revision <= row'[seen[c].reply].revision
                      /\ seen[c].revision = row'[seen[c].reply].revision =>
                           seen[c].text = row'[seen[c].reply].text
    BY DEF PagesAreBehind
  <2>1. seen[c] \in Previews
    BY DEF TypeOK
  <2>2. seen[c].revision \in Nat /\ seen[c].reply \in Replies
    BY <2>1 DEF Previews, Versions
  <2>3. CASE seen[c].reply = r
    <3>1. row'[seen[c].reply] = new
      BY <2>3, <1>1 DEF TypeOK
    <3> QED
      BY <3>1, <2>2, <2>3, <1>1 DEF PagesAreBehind
  <2>4. CASE seen[c].reply # r
    <3>1. row'[seen[c].reply] = row[seen[c].reply]
      BY <2>2, <2>4 DEF TypeOK
    <3> QED
      BY <3>1 DEF PagesAreBehind
  <2> QED
    BY <2>3, <2>4
<1>5. RequestsAreBehind'
  <2> SUFFICES ASSUME NEW q \in Requests, call[q] # NoCall
               PROVE  /\ call[q].reply \in drafted
                      /\ call[q].text = call[q].shown
                      /\ call[q].revision < row'[call[q].reply].revision
                      /\ call[q].revision + 1 = row'[call[q].reply].revision =>
                           /\ row'[call[q].reply].status = "sending"
                           /\ row'[call[q].reply].text = call[q].text
    BY DEF RequestsAreBehind
  <2>1. call[q] \in Calls
    BY DEF TypeOK
  <2>2. call[q].revision \in Nat /\ call[q].reply \in Replies
    BY <2>1 DEF Calls, Versions
  <2>3. CASE call[q].reply = r
    <3>1. row'[call[q].reply] = new
      BY <2>3, <1>1 DEF TypeOK
    <3> QED
      BY <3>1, <2>2, <2>3, <1>1 DEF RequestsAreBehind
  <2>4. CASE call[q].reply # r
    <3>1. row'[call[q].reply] = row[call[q].reply]
      BY <2>2, <2>4 DEF TypeOK
    <3> QED
      BY <3>1 DEF RequestsAreBehind
  <2> QED
    BY <2>3, <2>4
<1>6. AcceptedIsLogged' /\ RequestsDiffer' /\ PreviewIsSent'
  BY DEF AcceptedIsLogged, Logged, RequestsDiffer, PreviewIsSent
<1>7. AcceptedAsDelivered'
  BY <1>1 DEF AcceptedAsDelivered, TypeOK
<1> QED
  BY <1>2, <1>3, <1>4, <1>5, <1>6, <1>7

\* An edit replaces the row by a draft of the next revision.
LEMMA UpdateKeepsIInv ==
  ASSUME IInv, NEW c \in Analysts, NEW r \in Replies, NEW t \in Texts,
         NEW a \in Analyses \cup {NoAnalysis}, UpdateReply(c, r, t, a)
  PROVE  IInv'
<1> DEFINE new == [status |-> "draft", revision |-> Bumped(r), text |-> t,
                   analysis |-> a, reconciled |-> FALSE]
<1>1. new \in Rows /\ new.revision = row[r].revision + 1
  BY DEF UpdateReply, Rows, Bumped
<1>2. refuted' \in [Replies -> Nat]
  BY DEF IInv, TypeOK, UpdateReply
<1>3. r \in drafted /\ row' = [row EXCEPT ![r] = new]
      /\ UNCHANGED <<drafted, decision, seen, call, mail, orphaned, losses>>
  BY DEF UpdateReply
<1>4. new.status = "draft" /\ ~new.reconciled
  OBVIOUS
<1> HIDE DEF new
<1> QED
  BY <1>1, <1>2, <1>3, <1>4, BumpKeepsIInv

\* A verdict does the same, and carries its proof.
LEMMA ReconcileKeepsIInv ==
  ASSUME IInv, NEW c \in Analysts, NEW r \in Replies,
         NEW outcome \in {"accepted", "failed"}, Reconcile(c, r, outcome)
  PROVE  IInv'
<1> DEFINE new == [row[r] EXCEPT !.status = outcome, !.reconciled = TRUE,
                                 !.revision = Bumped(r)]
<1>1. row[r] \in Rows
  BY DEF IInv, TypeOK
<1>2. Bumped(r) \in Versions /\ Bumped(r) = row[r].revision + 1
  BY DEF Reconcile, Bumped
<1>3. new \in Rows /\ new.revision = row[r].revision + 1
      /\ new.status = outcome /\ new.reconciled
  BY <1>1, <1>2 DEF Rows
<1>4. refuted' \in [Replies -> Nat]
  BY DEF IInv, TypeOK, Reconcile
<1>5. r \in drafted /\ row' = [row EXCEPT ![r] = new]
      /\ UNCHANGED <<drafted, decision, seen, call, mail, orphaned, losses>>
  BY DEF Reconcile
<1> HIDE DEF new
<1> QED
  BY <1>3, <1>4, <1>5, BumpKeepsIInv

\* A send marks the draft and hands a copy of it to a request.
LEMMA RequestKeepsIInv ==
  ASSUME IInv, NEW q \in Requests, NEW c \in Analysts, NEW r \in Replies,
         RequestSend(q, c, r)
  PROVE  IInv'
<1> DEFINE new == [row[r] EXCEPT !.status = "sending",
                                 !.revision = row[r].revision + 1]
           k == [reply |-> r, revision |-> row[r].revision, text |-> row[r].text,
                 shown |-> seen[c].text, state |-> "asked"]
<1>1. row[r] \in Rows /\ seen[c] \in Previews
  BY DEF IInv, TypeOK, RequestSend, UpToDate
<1>2. /\ seen[c] # NoPreview /\ seen[c].reply = r
      /\ seen[c].revision = row[r].revision
  BY DEF RequestSend, UpToDate
<1>3. seen[c].text = row[r].text
  BY <1>2 DEF IInv, PagesAreBehind
<1>4. /\ row[r].revision \in Nat /\ row[r].revision \in Versions
      /\ row[r].revision < MaxRevision /\ row[r].status = "draft" /\ r \in drafted
  BY <1>1 DEF RequestSend, Rows, Versions, Sendable
<1>5. /\ new \in Rows /\ new.status = "sending" /\ new.text = row[r].text
      /\ new.revision = row[r].revision + 1
      /\ new.reconciled = row[r].reconciled
  <2>1. row[r].revision + 1 \in Versions
    BY <1>4, BoundsAssumption DEF Versions
  <2> QED
    BY <1>1, <2>1 DEF Rows
<1>6. /\ k \in Calls /\ k.reply = r /\ k.revision = row[r].revision
      /\ k.text = row[r].text /\ k.text = k.shown /\ k.state = "asked"
  BY <1>1, <1>3, <1>4 DEF Calls, Rows
<1>7. k # NoCall
  BY <1>6, NoCallAssumption
<1>8. /\ call[q] = NoCall
      /\ row' = [row EXCEPT ![r] = new] /\ call' = [call EXCEPT ![q] = k]
      /\ UNCHANGED <<drafted, decision, seen, mail, refuted, orphaned, losses>>
  BY DEF RequestSend
<1> HIDE DEF new, k
<1>9. row' \in [Replies -> Rows] /\ row'[r] = new
      /\ \A x \in Replies : x # r => row'[x] = row[x]
  BY <1>5, <1>8 DEF IInv, TypeOK
<1>10. call' \in [Requests -> Calls \cup {NoCall}] /\ call'[q] = k
       /\ \A p \in Requests : p # q => call'[p] = call[p]
  BY <1>6, <1>8 DEF IInv, TypeOK
<1>11. TypeOK'
  BY <1>8, <1>9, <1>10 DEF IInv, TypeOK
<1>12. ~row[r].reconciled
  BY <1>1, <1>4 DEF IInv, RowsAreKept, Rows
<1>13. RowsAreKept'
  BY <1>4, <1>5, <1>8, <1>9, <1>12 DEF IInv, RowsAreKept
<1>14. PagesAreBehind'
  <2> SUFFICES ASSUME NEW d \in Analysts, seen[d] # NoPreview
               PROVE  /\ seen[d].reply \in drafted
                      /\ seen[d].revision <= row'[seen[d].reply].revision
                      /\ seen[d].revision = row'[seen[d].reply].revision =>
                           seen[d].text = row'[seen[d].reply].text
    BY <1>8 DEF PagesAreBehind
  <2>1. seen[d] \in Previews
    BY DEF IInv, TypeOK
  <2>2. seen[d].revision \in Nat /\ seen[d].reply \in Replies
    BY <2>1 DEF Previews, Versions
  <2>3. CASE seen[d].reply = r
    BY <2>2, <2>3, <1>4, <1>5, <1>9 DEF IInv, PagesAreBehind
  <2>4. CASE seen[d].reply # r
    BY <2>2, <2>4, <1>9 DEF IInv, PagesAreBehind
  <2> QED
    BY <2>3, <2>4
<1>15. RequestsAreBehind'
  <2> SUFFICES ASSUME NEW p \in Requests, call'[p] # NoCall
               PROVE  /\ call'[p].reply \in drafted
                      /\ call'[p].text = call'[p].shown
                      /\ call'[p].revision < row'[call'[p].reply].revision
                      /\ call'[p].revision + 1 = row'[call'[p].reply].revision =>
                           /\ row'[call'[p].reply].status = "sending"
                           /\ row'[call'[p].reply].text = call'[p].text
    BY <1>8 DEF RequestsAreBehind
  <2>1. CASE p = q
    BY <2>1, <1>4, <1>5, <1>6, <1>9, <1>10
  <2>2. CASE p # q
    <3>1. call'[p] = call[p] /\ call[p] \in Calls
      BY <2>2, <1>10 DEF IInv, TypeOK
    <3>2. call[p].revision \in Nat /\ call[p].reply \in Replies
      BY <3>1 DEF Calls, Versions
    <3>3. CASE call[p].reply = r
      BY <3>1, <3>2, <3>3, <1>4, <1>5, <1>9 DEF IInv, RequestsAreBehind
    <3>4. CASE call[p].reply # r
      BY <3>1, <3>2, <3>4, <1>9 DEF IInv, RequestsAreBehind
    <3> QED
      BY <3>3, <3>4
  <2> QED
    BY <2>1, <2>2
<1>16. AcceptedIsLogged'
  BY <1>6, <1>8, <1>10 DEF IInv, AcceptedIsLogged, Logged
<1>17. RequestsDiffer'
  <2>1. ASSUME NEW p \in Requests, p # q, call[p] # NoCall, call[p].reply = r
        PROVE  call[p].revision # k.revision
    <3>1. call[p] \in Calls
      BY <2>1 DEF IInv, TypeOK
    <3>2. call[p].revision \in Nat /\ call[p].revision < row[r].revision
      BY <2>1, <3>1 DEF IInv, RequestsAreBehind, Calls, Versions
    <3> QED
      BY <3>2, <1>4, <1>6
  <2> QED
    BY <2>1, <1>6, <1>10 DEF IInv, RequestsDiffer
<1>18. PreviewIsSent' /\ AcceptedAsDelivered'
  BY <1>5, <1>8, <1>9 DEF IInv, PreviewIsSent, AcceptedAsDelivered
<1> QED
  BY <1>11, <1>13, <1>14, <1>15, <1>16, <1>17, <1>18 DEF IInv

\* The transport answers: it logs what it delivers, and says no more than that.
LEMMA TransportKeepsIInv ==
  ASSUME IInv, NEW q \in Requests, Transport(q)
  PROVE  IInv'
<1> DEFINE k == call[q]
<1>1. /\ call[q] # NoCall /\ call[q].state = "asked"
      /\ UNCHANGED <<drafted, row, decision, seen, refuted, orphaned, losses>>
  BY DEF Transport
<1>2. call[q] \in Calls /\ call[q].reply \in Replies
  BY <1>1 DEF IInv, TypeOK, Calls
<1>3. PICK delivered \in BOOLEAN, said \in {"accepted", "uncertain"} :
        /\ said = "accepted" => delivered
        /\ call' = [call EXCEPT ![q].state = said]
        /\ mail' = IF delivered
                   THEN [mail EXCEPT ![call[q].reply] = Append(@, call[q])]
                   ELSE mail
  BY DEF Transport
<1>4. /\ call' \in [Requests -> Calls \cup {NoCall}]
      /\ call'[q] = [call[q] EXCEPT !.state = said]
      /\ \A p \in Requests : p # q => call'[p] = call[p]
  BY <1>1, <1>2, <1>3 DEF IInv, TypeOK, Calls
<1>5. /\ call'[q] # NoCall /\ call'[q].state = said
      /\ call'[q].reply = call[q].reply /\ call'[q].text = call[q].text
      /\ call'[q].shown = call[q].shown /\ call'[q].revision = call[q].revision
  BY <1>2, <1>4, NoCallAssumption DEF Calls
<1>6. \A p \in Requests : (call'[p] # NoCall) = (call[p] # NoCall)
  BY <1>1, <1>4, <1>5
<1>7. ASSUME NEW x \in Replies
      PROVE  /\ mail'[x] \in Seq(Calls) /\ Len(mail[x]) <= Len(mail'[x])
             /\ \A i \in DOMAIN mail[x] : i \in DOMAIN mail'[x] /\ mail'[x][i] = mail[x][i]
             /\ \A i \in DOMAIN mail'[x] :
                  mail'[x][i].text = mail'[x][i].shown
  <2>1. mail[x] \in Seq(Calls)
    BY DEF IInv, TypeOK
  <2>2. CASE delivered /\ x = call[q].reply
    <3>1. mail'[x] = Append(mail[x], call[q])
      BY <2>2, <1>2, <1>3 DEF IInv, TypeOK
    <3>2. call[q].text = call[q].shown
      BY <1>1 DEF IInv, RequestsAreBehind
    <3> QED
      BY <2>1, <3>1, <3>2, <1>2 DEF IInv, PreviewIsSent
  <2>3. CASE ~(delivered /\ x = call[q].reply)
    <3>1. mail'[x] = mail[x]
      BY <2>3, <1>2, <1>3 DEF IInv, TypeOK
    <3> QED
      BY <2>1, <3>1 DEF IInv, PreviewIsSent
  <2> QED
    BY <2>2, <2>3
<1>9. said = "accepted" =>
        \E i \in DOMAIN mail'[call[q].reply] :
          /\ mail'[call[q].reply][i].text = call[q].text
          /\ mail'[call[q].reply][i].revision = call[q].revision
  <2> SUFFICES ASSUME said = "accepted"
               PROVE  \E i \in DOMAIN mail'[call[q].reply] :
                        /\ mail'[call[q].reply][i].text = call[q].text
                        /\ mail'[call[q].reply][i].revision = call[q].revision
    OBVIOUS
  <2>1. mail'[call[q].reply] = Append(mail[call[q].reply], call[q])
    BY <1>2, <1>3 DEF IInv, TypeOK
  <2>2. mail[call[q].reply] \in Seq(Calls)
    BY <1>2 DEF IInv, TypeOK
  <2> DEFINE last == Len(mail[call[q].reply]) + 1
  <2>3. last \in DOMAIN mail'[call[q].reply] /\ mail'[call[q].reply][last] = call[q]
    BY <2>1, <2>2, <1>2
  <2> QED
    BY <2>3
<1>10. ASSUME NEW p \in Requests
       PROVE  /\ call'[p].reply = call[p].reply /\ call'[p].text = call[p].text
              /\ call'[p].shown = call[p].shown
              /\ call'[p].revision = call[p].revision
  BY <1>4, <1>5
<1>11. TypeOK'
  <2>1. mail' \in [Replies -> Seq(Calls)]
    BY <1>2, <1>3 DEF IInv, TypeOK
  <2> QED
    BY <1>1, <1>4, <2>1 DEF IInv, TypeOK
<1>12. RowsAreKept' /\ PagesAreBehind'
  BY <1>1 DEF IInv, RowsAreKept, PagesAreBehind
<1>13. RequestsAreBehind'
  BY <1>1, <1>6, <1>10 DEF IInv, RequestsAreBehind
<1>14. RequestsDiffer'
  BY <1>6, <1>10 DEF IInv, RequestsDiffer
<1>15. PreviewIsSent'
  BY <1>7 DEF PreviewIsSent
<1>16. AcceptedAsDelivered'
  <2>1. ASSUME NEW x \in Replies, row'[x].status = "accepted" /\ ~row'[x].reconciled
        PROVE  Logged(x, row[x].text, row[x].revision - 1)
    BY <1>1, <2>1 DEF IInv, AcceptedAsDelivered, Logged
  <2> QED
    BY <1>1, <1>7, <2>1 DEF AcceptedAsDelivered, Logged
<1>17. AcceptedIsLogged'
  <2> SUFFICES ASSUME NEW p \in Requests, call'[p] # NoCall, call'[p].state = "accepted"
               PROVE  \E i \in DOMAIN mail'[call[p].reply] :
                        /\ mail'[call[p].reply][i].text = call[p].text
                        /\ mail'[call[p].reply][i].revision = call[p].revision
    BY <1>10 DEF AcceptedIsLogged, Logged
  <2>1. CASE p = q
    BY <2>1, <1>5, <1>9
  <2>2. CASE p # q
    <3>1. call[p] # NoCall /\ call[p].state = "accepted" /\ call[p] \in Calls
      BY <2>2, <1>4 DEF IInv, TypeOK
    <3>2. Logged(call[p].reply, call[p].text, call[p].revision)
      BY <3>1 DEF IInv, AcceptedIsLogged
    <3>3. call[p].reply \in Replies
      BY <3>1 DEF Calls
    <3> QED
      BY <3>2, <3>3, <1>7 DEF Logged
  <2> QED
    BY <2>1, <2>2
<1> QED
  BY <1>11, <1>12, <1>13, <1>14, <1>15, <1>16, <1>17 DEF IInv

\* The second transaction stores a result the request still owns, or nothing.
LEMMA StoreKeepsIInv ==
  ASSUME IInv, NEW q \in Requests, StoreResult(q)
  PROVE  IInv'
<1> DEFINE r == call[q].reply
           new == [row[r] EXCEPT !.status = call[q].state]
<1>1. /\ call[q] # NoCall /\ call[q].state # "asked"
      /\ call' = [call EXCEPT ![q] = NoCall]
      /\ UNCHANGED <<drafted, decision, seen, mail, refuted, orphaned, losses>>
  BY DEF StoreResult
<1>2. /\ call[q] \in Calls /\ r \in Replies /\ r \in drafted
      /\ row[r] \in Rows /\ call[q].revision \in Nat
      /\ call[q].state \in {"accepted", "uncertain"}
  BY <1>1 DEF IInv, TypeOK, RequestsAreBehind, Calls, Versions
<1>3. /\ call' \in [Requests -> Calls \cup {NoCall}]
      /\ \A p \in Requests : call'[p] # NoCall => p # q /\ call'[p] = call[p]
  BY <1>1 DEF IInv, TypeOK
<1>4. AcceptedIsLogged' /\ RequestsDiffer' /\ PreviewIsSent'
  BY <1>1, <1>3 DEF IInv, AcceptedIsLogged, Logged, RequestsDiffer, PreviewIsSent
<1>5. CASE ~Unreconciled(call[q])
  <2>1. row' = row
    BY <1>5 DEF StoreResult
  <2> QED
    BY <1>1, <1>3, <1>4, <2>1
    DEF IInv, TypeOK, RowsAreKept, PagesAreBehind, RequestsAreBehind,
        AcceptedAsDelivered
<1>6. CASE Unreconciled(call[q])
  <2>1. row[r].status = "sending" /\ row[r].revision = call[q].revision + 1
    BY <1>6 DEF Unreconciled
  <2>2. row' = [row EXCEPT ![r] = new]
    BY <1>6, <1>2 DEF StoreResult, IInv, TypeOK
  <2>3. /\ new \in Rows /\ new.status = call[q].state
        /\ new.revision = row[r].revision /\ new.text = row[r].text
        /\ new.reconciled = row[r].reconciled
    BY <1>2 DEF Rows
  <2>4. ~row[r].reconciled
    BY <1>2, <2>1 DEF IInv, RowsAreKept
  <2>5. row[r].text = call[q].text
    BY <1>1, <2>1 DEF IInv, RequestsAreBehind
  <2> HIDE DEF new
  <2>6. row' \in [Replies -> Rows] /\ row'[r] = new
        /\ \A x \in Replies : x # r => row'[x] = row[x]
    BY <1>2, <2>2, <2>3 DEF IInv, TypeOK
  <2>7. TypeOK'
    BY <1>1, <1>3, <2>6 DEF IInv, TypeOK
  <2>8. RowsAreKept'
    BY <1>1, <1>2, <2>3, <2>4, <2>6 DEF IInv, RowsAreKept
  <2>9. \A x \in Replies : /\ row'[x].revision = row[x].revision
                           /\ row'[x].text = row[x].text
    BY <2>3, <2>6
  <2>10. PagesAreBehind'
    <3> SUFFICES ASSUME NEW c \in Analysts, seen[c] # NoPreview
                 PROVE  /\ seen[c].reply \in drafted
                        /\ seen[c].revision <= row'[seen[c].reply].revision
                        /\ seen[c].revision = row'[seen[c].reply].revision =>
                             seen[c].text = row'[seen[c].reply].text
      BY <1>1 DEF PagesAreBehind
    <3>1. seen[c] \in Previews
      BY DEF IInv, TypeOK
    <3>2. seen[c].reply \in Replies
      BY <3>1 DEF Previews
    <3> QED
      BY <3>2, <2>9 DEF IInv, PagesAreBehind
  <2>11. RequestsAreBehind'
    <3> SUFFICES ASSUME NEW p \in Requests, call'[p] # NoCall
                 PROVE  /\ call'[p].reply \in drafted
                        /\ call'[p].text = call'[p].shown
                        /\ call'[p].revision < row'[call'[p].reply].revision
                        /\ call'[p].revision + 1 = row'[call'[p].reply].revision =>
                             /\ row'[call'[p].reply].status = "sending"
                             /\ row'[call'[p].reply].text = call'[p].text
      BY <1>1 DEF RequestsAreBehind
    <3>1. p # q /\ call'[p] = call[p] /\ call[p] # NoCall /\ call[p] \in Calls
      BY <1>3 DEF IInv, TypeOK
    <3>2. call[p].revision \in Nat /\ call[p].reply \in Replies
      BY <3>1 DEF Calls, Versions
    <3>3. CASE call[p].reply = r
      <4>1. call[p].revision # call[q].revision
        BY <3>1, <3>3, <1>1 DEF IInv, RequestsDiffer
      <4> QED
        BY <4>1, <3>1, <3>2, <3>3, <2>1, <2>9, <1>2 DEF IInv, RequestsAreBehind
    <3>4. CASE call[p].reply # r
      BY <3>1, <3>2, <3>4, <2>6 DEF IInv, RequestsAreBehind
    <3> QED
      BY <3>3, <3>4
  <2>12. AcceptedAsDelivered'
    <3> SUFFICES ASSUME NEW x \in Replies,
                        row'[x].status = "accepted", ~row'[x].reconciled
                 PROVE  Logged(x, row'[x].text, row'[x].revision - 1)
      BY <1>1 DEF AcceptedAsDelivered, Logged
    <3>1. CASE x = r
      <4>1. Logged(r, call[q].text, call[q].revision)
        BY <3>1, <2>3, <2>6, <1>1 DEF IInv, AcceptedIsLogged
      <4>2. row'[x].revision - 1 = call[q].revision
        BY <3>1, <2>1, <2>9, <1>2
      <4> QED
        BY <3>1, <4>1, <4>2, <2>5, <2>9
    <3>2. CASE x # r
      BY <3>2, <2>6 DEF IInv, AcceptedAsDelivered, Logged
    <3> QED
      BY <3>1, <3>2
  <2> QED
    BY <1>4, <2>7, <2>8, <2>10, <2>11, <2>12 DEF IInv
<1> QED
  BY <1>5, <1>6

\* A lost request changes nothing the invariant speaks of but its own slot.
LEMMA LossKeepsIInv ==
  ASSUME IInv, (\E q \in Requests : ResultLost(q)) \/ ApiCrash
  PROVE  IInv'
<1>1. /\ call' \in [Requests -> Calls \cup {NoCall}]
      /\ \A p \in Requests : call'[p] # NoCall => call'[p] = call[p]
  BY DEF IInv, TypeOK, ResultLost, ApiCrash
<1>2. orphaned' \subseteq Replies
  <2>1. \A q \in Requests : call[q] # NoCall => call[q].reply \in Replies
    BY DEF IInv, TypeOK, Calls
  <2>2. orphaned \subseteq Replies
    BY DEF IInv, TypeOK
  <2>3. CASE \E q \in Requests : ResultLost(q)
    BY <2>1, <2>2, <2>3 DEF ResultLost
  <2>4. CASE ApiCrash
    BY <2>1, <2>2, <2>4 DEF ApiCrash
  <2> QED
    BY <2>3, <2>4
<1>3. losses' \in 0..MaxLosses
  BY BoundsAssumption DEF IInv, TypeOK, ResultLost, ApiCrash
<1>4. UNCHANGED <<drafted, row, decision, seen, mail, refuted>>
  BY DEF ResultLost, ApiCrash
<1>5. TypeOK'
  BY <1>1, <1>2, <1>3, <1>4 DEF IInv, TypeOK
<1>6. RowsAreKept' /\ PagesAreBehind' /\ PreviewIsSent' /\ AcceptedAsDelivered'
  BY <1>4 DEF IInv, RowsAreKept, PagesAreBehind, PreviewIsSent, AcceptedAsDelivered
<1>7. RequestsAreBehind'
  BY <1>1, <1>4 DEF IInv, RequestsAreBehind
<1>8. AcceptedIsLogged' /\ RequestsDiffer'
  BY <1>1, <1>4 DEF IInv, AcceptedIsLogged, Logged, RequestsDiffer
<1> QED
  BY <1>5, <1>6, <1>7, <1>8 DEF IInv

\* A decision is taken or reopened: no reply is touched.
LEMMA DecisionKeepsIInv ==
  ASSUME IInv, NEW a \in Analyses, Decide(a) \/ Reopen(a)
  PROVE  IInv'
<1>1. UNCHANGED <<drafted, row, seen, call, mail, refuted, orphaned, losses>>
  BY DEF Decide, Reopen
<1>2. decision' \in [Analyses -> {"none", "decided", "reopened"}]
  BY DEF IInv, TypeOK, Decide, Reopen
<1> QED
  BY <1>1, <1>2
  DEF IInv, TypeOK, RowsAreKept, PagesAreBehind, RequestsAreBehind,
      AcceptedIsLogged, Logged, RequestsDiffer, PreviewIsSent, AcceptedAsDelivered

----------------------------------------------------------------------------
\* The invariant is inductive.
LEMMA NextIInv == IInv /\ [Next]_vars => IInv'
<1> SUFFICES ASSUME IInv, [Next]_vars PROVE IInv'
  OBVIOUS
<1>1. CASE \E a \in Analyses : Decide(a) \/ Reopen(a)
  BY <1>1, DecisionKeepsIInv
<1>2. CASE \E r \in Replies, t \in Texts, a \in Analyses \cup {NoAnalysis} :
             \/ CreateReply(r, t, a)
             \/ \E c \in Analysts : UpdateReply(c, r, t, a)
  BY <1>2, CreateKeepsIInv, UpdateKeepsIInv
<1>3. CASE \E c \in Analysts, r \in Replies :
             \/ Preview(c, r)
             \/ \E q \in Requests : RequestSend(q, c, r)
             \/ \E outcome \in {"accepted", "failed"} : Reconcile(c, r, outcome)
  BY <1>3, PreviewKeepsIInv, RequestKeepsIInv, ReconcileKeepsIInv
<1>4. CASE \E q \in Requests : ServeSend(q) \/ ResultLost(q)
  BY <1>4, TransportKeepsIInv, StoreKeepsIInv, LossKeepsIInv DEF ServeSend
<1>5. CASE ApiCrash
  BY <1>5, LossKeepsIInv
<1>6. CASE UNCHANGED vars
  BY <1>6
  DEF vars, IInv, TypeOK, RowsAreKept, PagesAreBehind, RequestsAreBehind,
      AcceptedIsLogged, Logged, RequestsDiffer, PreviewIsSent, AcceptedAsDelivered
<1> QED
  BY <1>1, <1>2, <1>3, <1>4, <1>5, <1>6 DEF Next

\* The invariant of the specification.
THEOREM Inductive == Spec => []IInv
<1>1. Init => IInv
  BY InitIInv
<1>2. IInv /\ [Next]_vars => IInv'
  BY NextIInv
<1> QED
  BY <1>1, <1>2, PTL DEF Spec

\* Rows, pages, requests and the transport's books keep their types.
THEOREM TypesAreKept == Spec => []TypeOK
<1>1. IInv => TypeOK
  BY DEF IInv
<1> QED
  BY <1>1, Inductive, PTL

\* What the transport was given is what the page of the sender showed.
THEOREM SentAsPreviewed == Spec => []PreviewIsSent
<1>1. IInv => PreviewIsSent
  BY DEF IInv
<1> QED
  BY <1>1, Inductive, PTL

\* An accepted reply says what was delivered, whichever results came late.
THEOREM AcceptanceIsTrue == Spec => []AcceptedAsDelivered
<1>1. IInv => AcceptedAsDelivered
  BY DEF IInv
<1> QED
  BY <1>1, Inductive, PTL

----------------------------------------------------------------------------
(* Deliveries.  The bound of OneDeliveryPerVerdict is not inductive: a      *)
(* request under way may still deliver, and a draft may still be sent.      *)

\* What a reply may still be sent for without another verdict.
Open(r) == IF row[r].status \in {"draft", "failed"} THEN 1 ELSE 0

WithinBudget ==
  \A r \in Replies :
    Len(mail[r]) + Cardinality(Asked(r)) + Open(r) <= 1 + refuted[r]

\* The requests under way are finitely many.
LEMMA AskedIsFinite ==
  \A r \in Replies : IsFiniteSet(Asked(r)) /\ Cardinality(Asked(r)) \in Nat
BY RequestsAssumption, FS_Subset, FS_CardinalityType DEF Asked

\* Nothing is mailed and nobody has asked.
LEMMA InitBudget == Init => WithinBudget
<1> SUFFICES ASSUME Init, NEW r \in Replies
             PROVE  Len(mail[r]) + Cardinality(Asked(r)) + Open(r) <= 1 + refuted[r]
  BY DEF WithinBudget
<1>1. Asked(r) = {}
  BY DEF Init, Asked
<1>2. Cardinality(Asked(r)) = 0
  BY <1>1, FS_EmptySet
<1>3. Len(mail[r]) = 0 /\ refuted[r] = 0
  BY DEF Init
<1> QED
  BY <1>2, <1>3 DEF Open

\* A step that keeps the requests and the books keeps the budget, unless it
\* opens a reply without a verdict.
LEMMA QuietKeepsBudget ==
  ASSUME IInv, WithinBudget, UNCHANGED <<call, mail>>,
         \A r \in Replies : refuted'[r] \in Nat /\ Open(r)' \in Nat
                            /\ Open(r)' - Open(r) <= refuted'[r] - refuted[r]
  PROVE  WithinBudget'
<1> SUFFICES ASSUME NEW r \in Replies
             PROVE  (Len(mail[r]) + Cardinality(Asked(r)) + Open(r) <= 1 + refuted[r])'
  BY DEF WithinBudget
<1>1. Asked(r)' = Asked(r)
  BY DEF Asked
<1>2. /\ Len(mail[r]) \in Nat /\ refuted[r] \in Nat /\ Open(r) \in Nat
      /\ Cardinality(Asked(r)) \in Nat
  BY AskedIsFinite DEF IInv, TypeOK, Open
<1>3. Len(mail[r]) + Cardinality(Asked(r)) + Open(r) <= 1 + refuted[r]
  BY DEF WithinBudget
<1> QED
  BY SMTT(30), <1>1, <1>2, <1>3

\* A request that leaves, whatever its state, frees budget.
LEMMA LeavingKeepsBudget ==
  ASSUME IInv, WithinBudget, UNCHANGED <<mail, refuted>>,
         \A q \in Requests : call'[q] # NoCall => call'[q] = call[q],
         \A r \in Replies : Open(r)' \in Nat /\ Open(r)' <= Open(r)
  PROVE  WithinBudget'
<1> SUFFICES ASSUME NEW r \in Replies
             PROVE  (Len(mail[r]) + Cardinality(Asked(r)) + Open(r) <= 1 + refuted[r])'
  BY DEF WithinBudget
<1>1. Asked(r)' \subseteq Asked(r)
  BY DEF Asked
<1>2. Cardinality(Asked(r)') <= Cardinality(Asked(r)) /\ Cardinality(Asked(r)') \in Nat
  BY <1>1, AskedIsFinite, FS_Subset, FS_CardinalityType
<1>3. /\ Len(mail[r]) \in Nat /\ refuted[r] \in Nat /\ Open(r) \in Nat
      /\ Cardinality(Asked(r)) \in Nat
  BY AskedIsFinite DEF IInv, TypeOK, Open
<1>4. Len(mail[r]) + Cardinality(Asked(r)) + Open(r) <= 1 + refuted[r]
  BY DEF WithinBudget
<1> QED
  BY <1>2, <1>3, <1>4

\* A send moves one unit from the draft to its request.
LEMMA RequestKeepsBudget ==
  ASSUME IInv, WithinBudget,
         NEW q \in Requests, NEW c \in Analysts, NEW x \in Replies,
         RequestSend(q, c, x)
  PROVE  WithinBudget'
<1> SUFFICES ASSUME NEW r \in Replies
             PROVE  (Len(mail[r]) + Cardinality(Asked(r)) + Open(r) <= 1 + refuted[r])'
  BY DEF WithinBudget
<1>1. /\ Len(mail[r]) \in Nat /\ refuted[r] \in Nat /\ Open(r) \in Nat
      /\ Cardinality(Asked(r)) \in Nat
      /\ Len(mail[r]) + Cardinality(Asked(r)) + Open(r) <= 1 + refuted[r]
  BY AskedIsFinite DEF IInv, TypeOK, Open, WithinBudget
<1>2. /\ UNCHANGED <<mail, refuted>> /\ call[q] = NoCall
      /\ \A p \in Requests : p # q => call'[p] = call[p]
      /\ call'[q] # NoCall => call'[q].reply = x
      /\ \A y \in Replies : y # x => row'[y] = row[y]
      /\ row[x].status = "draft" /\ row'[x].status = "sending"
  <2>1. row[x] \in Rows
    BY DEF IInv, TypeOK
  <2>2. row'[x] = [row[x] EXCEPT !.status = "sending",
                                 !.revision = row[x].revision + 1]
    BY DEF RequestSend, IInv, TypeOK
  <2> QED
    BY <2>1, <2>2 DEF RequestSend, Sendable, IInv, TypeOK, Rows
<1>3. CASE r = x
  <2>1. Asked(r)' \subseteq Asked(r) \cup {q}
    BY <1>2 DEF Asked
  <2>2. q \notin Asked(r)
    BY <1>2 DEF Asked
  <2>3. /\ IsFiniteSet(Asked(r) \cup {q})
        /\ Cardinality(Asked(r) \cup {q}) = Cardinality(Asked(r)) + 1
    BY <2>2, AskedIsFinite, FS_AddElement
  <2>4. /\ Cardinality(Asked(r)') <= Cardinality(Asked(r)) + 1
        /\ Cardinality(Asked(r)') \in Nat
    BY <2>1, <2>3, FS_Subset, FS_CardinalityType
  <2>5. Open(r) = 1 /\ Open(r)' = 0
    BY <1>2, <1>3 DEF Open
  <2> QED
    BY <1>1, <1>2, <2>4, <2>5
<1>4. CASE r # x
  <2>1. Asked(r)' = Asked(r)
    BY <1>2, <1>4 DEF Asked
  <2>2. Open(r)' = Open(r)
    BY <1>2, <1>4 DEF Open
  <2> QED
    BY <1>1, <1>2, <2>1, <2>2
<1> QED
  BY <1>3, <1>4

\* The transport turns one request into at most one delivery.
LEMMA TransportKeepsBudget ==
  ASSUME IInv, WithinBudget, NEW q \in Requests, Transport(q)
  PROVE  WithinBudget'
<1> SUFFICES ASSUME NEW r \in Replies
             PROVE  (Len(mail[r]) + Cardinality(Asked(r)) + Open(r) <= 1 + refuted[r])'
  BY DEF WithinBudget
<1>1. /\ Len(mail[r]) \in Nat /\ refuted[r] \in Nat /\ Open(r) \in Nat
      /\ Cardinality(Asked(r)) \in Nat
      /\ Len(mail[r]) + Cardinality(Asked(r)) + Open(r) <= 1 + refuted[r]
  BY AskedIsFinite DEF IInv, TypeOK, Open, WithinBudget
<1>2. /\ UNCHANGED <<row, refuted>> /\ call[q] # NoCall /\ call[q] \in Calls
      /\ call[q].state = "asked"
      /\ \A p \in Requests : p # q => call'[p] = call[p]
  BY DEF Transport, IInv, TypeOK
<1>3. call'[q].state # "asked"
  <2>1. PICK said \in {"accepted", "uncertain"} :
          call' = [call EXCEPT ![q].state = said]
    BY DEF Transport
  <2>2. call'[q] = [call[q] EXCEPT !.state = said]
    BY <2>1 DEF IInv, TypeOK
  <2> QED
    BY <1>2, <2>2 DEF Calls
<1>4. Open(r)' = Open(r)
  BY <1>2 DEF Open
<1>5. CASE r = call[q].reply
  <2>1. Asked(r)' = Asked(r) \ {q} /\ q \in Asked(r)
    BY <1>2, <1>3, <1>5 DEF Asked
  <2>2. Cardinality(Asked(r)') = Cardinality(Asked(r)) - 1
    BY <2>1, AskedIsFinite, FS_RemoveElement
  <2>3. mail'[r] = mail[r] \/ mail'[r] = Append(mail[r], call[q])
    BY <1>5 DEF Transport, IInv, TypeOK
  <2>4. mail[r] \in Seq(Calls)
    BY DEF IInv, TypeOK
  <2>5. Len(mail'[r]) = Len(mail[r]) \/ Len(mail'[r]) = Len(mail[r]) + 1
    BY <1>2, <2>3, <2>4
  <2>6. refuted'[r] = refuted[r]
    BY <1>2
  <2> HIDE DEF Asked
  <2>7. Len(mail'[r]) + Cardinality(Asked(r)') + Open(r) <= 1 + refuted[r]
    BY SMTT(30), <1>1, <2>2, <2>5
  <2> QED
    BY <1>4, <2>6, <2>7
<1>6. CASE r # call[q].reply
  <2>1. Asked(r)' = Asked(r)
    BY <1>2, <1>3, <1>6 DEF Asked
  <2>2. mail'[r] = mail[r]
    BY <1>6 DEF Transport, IInv, TypeOK
  <2> QED
    BY <1>1, <1>2, <1>4, <2>1, <2>2
<1> QED
  BY <1>5, <1>6

\* A verdict that finds a transmission failed opens the reply, and counts.
LEMMA ReconcileKeepsBudget ==
  ASSUME IInv, WithinBudget, NEW c \in Analysts, NEW x \in Replies,
         NEW outcome \in {"accepted", "failed"}, Reconcile(c, x, outcome)
  PROVE  WithinBudget'
<1>1. row[x] \in Rows /\ row[x].status \in {"sending", "uncertain"}
  BY DEF IInv, TypeOK, Reconcile
<1>2. row'[x] = [row[x] EXCEPT !.status = outcome, !.reconciled = TRUE,
                               !.revision = Bumped(x)]
  BY DEF IInv, TypeOK, Reconcile
<1>3. row'[x].status = outcome /\ \A r \in Replies : r # x => row'[r] = row[r]
  BY <1>1, <1>2 DEF IInv, TypeOK, Reconcile, Rows
<1>4. /\ refuted \in [Replies -> Nat]
      /\ refuted' = [refuted EXCEPT ![x] = IF outcome = "failed" THEN @ + 1 ELSE @]
      /\ UNCHANGED <<call, mail>>
  BY DEF IInv, TypeOK, Reconcile
<1>5. ASSUME NEW r \in Replies
      PROVE  refuted'[r] \in Nat /\ Open(r)' \in Nat
             /\ Open(r)' - Open(r) <= refuted'[r] - refuted[r]
  <2>1. CASE r = x
    BY <2>1, <1>1, <1>3, <1>4 DEF Open
  <2>2. CASE r # x
    BY <2>2, <1>3, <1>4 DEF Open
  <2> QED
    BY <2>1, <2>2
<1> QED
  BY <1>4, <1>5, QuietKeepsBudget

\* A new draft takes the place of a blank row, an edited one that of a draft
\* or of a failure.
LEMMA DraftingKeepsBudget ==
  ASSUME IInv, WithinBudget, NEW x \in Replies,
         row[x].status \in {"draft", "failed"},
         \A r \in Replies : r # x => row'[r] = row[r],
         UNCHANGED <<call, mail, refuted>>
  PROVE  WithinBudget'
<1>1. ASSUME NEW r \in Replies
      PROVE  refuted'[r] \in Nat /\ Open(r)' \in Nat
             /\ Open(r)' - Open(r) <= refuted'[r] - refuted[r]
  <2>1. refuted'[r] = refuted[r] /\ refuted[r] \in Nat
    BY DEF IInv, TypeOK
  <2>2. CASE r = x
    BY <2>1, <2>2 DEF Open
  <2>3. CASE r # x
    <3>1. row'[r] = row[r]
      BY <2>3
    <3> QED
      BY <2>1, <3>1 DEF Open
  <2> QED
    BY <2>2, <2>3
<1> QED
  BY <1>1, QuietKeepsBudget

\* Storing a result closes the reply or leaves it as it is.
LEMMA StoreKeepsBudget ==
  ASSUME IInv, WithinBudget, NEW q \in Requests, StoreResult(q)
  PROVE  WithinBudget'
<1>1. /\ call[q] # NoCall /\ call[q] \in Calls /\ call[q].state # "asked"
      /\ call' = [call EXCEPT ![q] = NoCall] /\ UNCHANGED <<mail, refuted>>
  BY DEF StoreResult, IInv, TypeOK
<1>2. \A p \in Requests : call'[p] # NoCall => call'[p] = call[p]
  BY <1>1 DEF IInv, TypeOK
<1>3. call[q].state \in {"accepted", "uncertain"} /\ call[q].reply \in Replies
  BY <1>1 DEF Calls
<1>4. ASSUME NEW r \in Replies
      PROVE  row'[r] = row[r] \/ row'[r].status = call[q].state
  <2>1. row[r] \in Rows
    BY DEF IInv, TypeOK
  <2>2. CASE ~Unreconciled(call[q]) \/ r # call[q].reply
    BY <2>2 DEF StoreResult, IInv, TypeOK
  <2>3. CASE Unreconciled(call[q]) /\ r = call[q].reply
    <3>1. row'[r] = [row[r] EXCEPT !.status = call[q].state]
      BY <2>3 DEF StoreResult, IInv, TypeOK
    <3> QED
      BY <2>1, <3>1 DEF Rows
  <2> QED
    BY <2>2, <2>3
<1>5. \A r \in Replies : Open(r)' \in Nat /\ Open(r)' <= Open(r)
  BY <1>3, <1>4 DEF Open
<1> QED
  BY <1>1, <1>2, <1>5, LeavingKeepsBudget

\* A lost request may have delivered already, or never will.
LEMMA LossKeepsBudget ==
  ASSUME IInv, WithinBudget, (\E q \in Requests : ResultLost(q)) \/ ApiCrash
  PROVE  WithinBudget'
<1>1. \A p \in Requests : call'[p] # NoCall => call'[p] = call[p]
  BY DEF IInv, TypeOK, ResultLost, ApiCrash
<1>2. UNCHANGED <<row, mail, refuted>>
  BY DEF ResultLost, ApiCrash
<1>3. \A r \in Replies : Open(r)' \in Nat /\ Open(r)' <= Open(r)
  BY <1>2 DEF Open
<1> QED
  BY <1>1, <1>2, <1>3, LeavingKeepsBudget

\* Every step keeps the budget.
LEMMA NextBudget == IInv /\ WithinBudget /\ [Next]_vars => WithinBudget'
<1> SUFFICES ASSUME IInv, WithinBudget, [Next]_vars PROVE WithinBudget'
  OBVIOUS
<1>1. ASSUME UNCHANGED <<row, call, mail, refuted>>
      PROVE  WithinBudget'
  <2>1. \A r \in Replies : Open(r)' \in Nat /\ Open(r)' <= Open(r)
    BY <1>1 DEF Open
  <2> QED
    BY <1>1, <2>1, LeavingKeepsBudget
<1>2. CASE \E a \in Analyses : Decide(a) \/ Reopen(a)
  BY <1>1, <1>2 DEF Decide, Reopen
<1>3. ASSUME NEW r \in Replies, NEW t \in Texts, NEW a \in Analyses \cup {NoAnalysis},
             CreateReply(r, t, a) \/ \E c \in Analysts : UpdateReply(c, r, t, a)
      PROVE  WithinBudget'
  <2>1. row[r].status \in {"draft", "failed"}
    BY <1>3 DEF CreateReply, UpdateReply, IInv, RowsAreKept
  <2>2. UNCHANGED <<call, mail, refuted>>
    BY <1>3 DEF CreateReply, UpdateReply
  <2>3. \A x \in Replies : x # r => row'[x] = row[x]
    BY <1>3 DEF CreateReply, UpdateReply, IInv, TypeOK
  <2> QED
    BY <2>1, <2>2, <2>3, DraftingKeepsBudget
<1>4. CASE \E c \in Analysts, r \in Replies :
             \/ Preview(c, r)
             \/ \E q \in Requests : RequestSend(q, c, r)
             \/ \E outcome \in {"accepted", "failed"} : Reconcile(c, r, outcome)
  <2>1. ASSUME NEW c \in Analysts, NEW r \in Replies, Preview(c, r)
        PROVE  WithinBudget'
    BY <1>1, <2>1 DEF Preview
  <2> QED
    BY <1>4, <2>1, RequestKeepsBudget, ReconcileKeepsBudget
<1>5. CASE \E q \in Requests : ServeSend(q) \/ ResultLost(q)
  BY <1>5, TransportKeepsBudget, StoreKeepsBudget, LossKeepsBudget DEF ServeSend
<1>6. CASE ApiCrash
  BY <1>6, LossKeepsBudget
<1>7. CASE UNCHANGED vars
  BY <1>1, <1>7 DEF vars
<1> QED
  BY <1>2, <1>3, <1>4, <1>5, <1>6, <1>7 DEF Next

\* Crashes, timeouts and repeated requests never deliver a reply again; only a
\* verdict that a transmission failed allows one more.
THEOREM DeliveredOncePerVerdict == Spec => []OneDeliveryPerVerdict
<1>1. Init => IInv /\ WithinBudget
  BY InitIInv, InitBudget
<1>2. IInv /\ WithinBudget /\ [Next]_vars => (IInv /\ WithinBudget)'
  BY NextIInv, NextBudget
<1>3. IInv /\ WithinBudget => OneDeliveryPerVerdict
  <2> SUFFICES ASSUME IInv, WithinBudget, NEW r \in Replies
               PROVE  Len(mail[r]) <= 1 + refuted[r]
    BY DEF OneDeliveryPerVerdict
  <2>1. /\ Len(mail[r]) \in Nat /\ refuted[r] \in Nat /\ Open(r) \in Nat
        /\ Cardinality(Asked(r)) \in Nat
    BY AskedIsFinite DEF IInv, TypeOK, Open
  <2>2. Len(mail[r]) + Cardinality(Asked(r)) + Open(r) <= 1 + refuted[r]
    BY DEF WithinBudget
  <2> QED
    BY <2>1, <2>2
<1> QED
  BY <1>1, <1>2, <1>3, PTL DEF Spec

----------------------------------------------------------------------------
(* Action properties.                                                      *)

\* A text is only replaced by an analyst whose page shows that very text.
THEOREM EditsSeeTheText == Spec => NoLostEdit
<1>1. IInv /\ [Next]_vars =>
        (\A r \in drafted :
           row'[r].text # row[r].text =>
             \E c \in Analysts : /\ seen[c] # NoPreview
                                 /\ seen[c].reply = r
                                 /\ seen[c].text = row[r].text)
  <2> SUFFICES ASSUME IInv, [Next]_vars, NEW r \in drafted,
                      row'[r].text # row[r].text
               PROVE  \E c \in Analysts : /\ seen[c] # NoPreview
                                          /\ seen[c].reply = r
                                          /\ seen[c].text = row[r].text
    OBVIOUS
  <2>1. r \in Replies /\ row[r] \in Rows
    BY DEF IInv, TypeOK
  <2>2. CASE \E x \in Replies, t \in Texts, a \in Analyses \cup {NoAnalysis} :
               CreateReply(x, t, a)
    BY <2>1, <2>2 DEF CreateReply, IInv, TypeOK
  <2>3. CASE \E x \in Replies, t \in Texts, a \in Analyses \cup {NoAnalysis},
                c \in Analysts : UpdateReply(c, x, t, a)
    <3>1. PICK x \in Replies, t \in Texts, a \in Analyses \cup {NoAnalysis},
               c \in Analysts : UpdateReply(c, x, t, a)
      BY <2>3
    <3>2. x = r
      BY <2>1, <3>1 DEF UpdateReply, IInv, TypeOK
    <3> QED
      BY <3>1, <3>2 DEF UpdateReply, UpToDate, IInv, PagesAreBehind
  <2>4. ASSUME NEW q \in Requests, NEW c \in Analysts, NEW x \in Replies,
               RequestSend(q, c, x)
        PROVE  FALSE
    <3>1. row' = [row EXCEPT ![x] = [row[x] EXCEPT !.status = "sending",
                                        !.revision = row[x].revision + 1]]
      BY <2>4 DEF RequestSend
    <3>2. [row[x] EXCEPT !.status = "sending",
                         !.revision = row[x].revision + 1].text = row[x].text
      BY DEF IInv, TypeOK, Rows
    <3> QED
      BY <2>1, <3>1, <3>2 DEF IInv, TypeOK
  <2>5. ASSUME NEW outcome, NEW c \in Analysts, NEW x \in Replies,
               Reconcile(c, x, outcome)
        PROVE  FALSE
    <3>1. row' = [row EXCEPT ![x] = [row[x] EXCEPT !.status = outcome,
                                        !.reconciled = TRUE, !.revision = Bumped(x)]]
      BY <2>5 DEF Reconcile
    <3>2. [row[x] EXCEPT !.status = outcome, !.reconciled = TRUE,
                         !.revision = Bumped(x)].text = row[x].text
      BY DEF IInv, TypeOK, Rows
    <3> QED
      BY <2>1, <3>1, <3>2 DEF IInv, TypeOK
  <2>6. ASSUME NEW q \in Requests, StoreResult(q)
        PROVE  FALSE
    <3>1. call[q] \in Calls
      BY <2>6 DEF StoreResult, IInv, TypeOK
    <3>2. row' = row \/ row' = [row EXCEPT ![call[q].reply] =
                                 [row[call[q].reply] EXCEPT !.status = call[q].state]]
      BY <2>6, <3>1 DEF StoreResult, IInv, TypeOK
    <3>3. [row[call[q].reply] EXCEPT !.status = call[q].state].text
            = row[call[q].reply].text
      BY <3>1 DEF IInv, TypeOK, Rows, Calls
    <3> QED
      BY <2>1, <3>1, <3>2, <3>3 DEF IInv, TypeOK
  <2>7. CASE UNCHANGED row
    BY <2>7
  <2> QED
    BY <2>2, <2>3, <2>4, <2>5, <2>6, <2>7
    DEF Next, Decide, Reopen, Preview, ServeSend, Transport, ResultLost, ApiCrash, vars
<1> QED
  BY <1>1, Inductive, PTL DEF Spec, NoLostEdit

\* A verdict stands until an analyst edits the reply it found failed.
THEOREM VerdictsStand == Spec => VerdictStands
<1>1. IInv /\ [Next]_vars =>
        (\A r \in drafted :
           /\ row[r].status = "accepted" => row'[r] = row[r]
           /\ row[r].reconciled /\ row'[r] # row[r] =>
                row'[r].status = "draft" /\ row'[r].revision > row[r].revision)
  <2> SUFFICES ASSUME IInv, [Next]_vars, NEW r \in drafted, row'[r] # row[r],
                      row[r].status = "accepted" \/ row[r].reconciled
               PROVE  /\ row[r].status # "accepted"
                      /\ row'[r].status = "draft"
                      /\ row'[r].revision > row[r].revision
    OBVIOUS
  <2>1. /\ r \in Replies /\ row[r] \in Rows /\ row[r].revision \in Nat
        /\ row[r].status \in {"accepted", "failed"}
    BY DEF IInv, TypeOK, RowsAreKept, Rows, Versions
  <2>2. ASSUME NEW x \in Replies, NEW t \in Texts,
               NEW a \in Analyses \cup {NoAnalysis}, CreateReply(x, t, a)
        PROVE  FALSE
    BY <2>1, <2>2 DEF CreateReply, IInv, TypeOK
  <2>3. CASE \E x \in Replies, t \in Texts, a \in Analyses \cup {NoAnalysis},
                c \in Analysts : UpdateReply(c, x, t, a)
    <3>1. PICK x \in Replies, t \in Texts, a \in Analyses \cup {NoAnalysis},
               c \in Analysts : UpdateReply(c, x, t, a)
      BY <2>3
    <3>2. x = r
      BY <2>1, <3>1 DEF UpdateReply, IInv, TypeOK
    <3>3. row'[r] = [status |-> "draft", revision |-> Bumped(r), text |-> t,
                     analysis |-> a, reconciled |-> FALSE]
      BY <2>1, <3>1, <3>2 DEF UpdateReply, IInv, TypeOK
    <3> QED
      BY <2>1, <3>1, <3>2, <3>3 DEF UpdateReply, Bumped
  <2>4. ASSUME NEW q \in Requests, NEW c \in Analysts, NEW x \in Replies,
               RequestSend(q, c, x)
        PROVE  FALSE
    BY <2>1, <2>4 DEF RequestSend, Sendable, IInv, TypeOK
  <2>5. ASSUME NEW outcome, NEW c \in Analysts, NEW x \in Replies,
               Reconcile(c, x, outcome)
        PROVE  FALSE
    BY <2>1, <2>5 DEF Reconcile, IInv, TypeOK
  <2>6. ASSUME NEW q \in Requests, StoreResult(q)
        PROVE  FALSE
    BY <2>1, <2>6 DEF StoreResult, Unreconciled, IInv, TypeOK
  <2>7. CASE UNCHANGED row
    BY <2>7
  <2> QED
    BY <2>2, <2>3, <2>4, <2>5, <2>6, <2>7
    DEF Next, Decide, Reopen, Preview, ServeSend, Transport, ResultLost, ApiCrash, vars
<1> QED
  BY <1>1, Inductive, PTL DEF Spec, VerdictStands

----------------------------------------------------------------------------
(* The refinement of Correspondence, action by action.  A reply whose       *)
(* columns, letters under way and deliveries stay makes no move.           *)

\* What the refinement mapping shows of a reply, before and after a step.
LEMMA Mapped ==
  ASSUME NEW r \in Replies
  PROVE  /\ Promise!Stay(r) <=>
              /\ State(r)' = State(r)
              /\ row'[r].revision = row[r].revision
              /\ row'[r].text = row[r].text
              /\ Underway(r)' = Underway(r)
              /\ Delivered(r)' = Delivered(r)
         /\ Promise!Letter(r) = [edition |-> row[r].revision, text |-> row[r].text]
BY DEF Promise!Stay, Promise!Rests, Promise!KeepsText, Promise!KeepsMail, Promise!Letter

\* Requests and books that stay keep letters and deliveries.
LEMMA MailStays ==
  ASSUME UNCHANGED <<call, mail>>, NEW r \in Replies
  PROVE  Underway(r)' = Underway(r) /\ Delivered(r)' = Delivered(r)
BY DEF Underway, Asked, Delivered, Letter

\* A reply that a step does not concern stays as it is.
LEMMA OthersStay ==
  ASSUME NEW r \in Replies, row'[r] = row[r], mail'[r] = mail[r],
         (r \in drafted') = (r \in drafted),
         \A q \in Requests :
           /\ (q \in Asked(r))' <=> q \in Asked(r)
           /\ q \in Asked(r) => Letter(call[q])' = Letter(call[q])
  PROVE  Promise!Stay(r)
<1>1. State(r)' = State(r)
  BY DEF State
<1>2. Underway(r)' = Underway(r)
  <2>1. Asked(r)' = Asked(r) /\ Asked(r) \subseteq Requests
    BY DEF Asked
  <2> QED
    BY <2>1 DEF Underway
<1>3. Delivered(r)' = Delivered(r)
  BY DEF Delivered, Letter
<1> QED
  BY <1>1, <1>2, <1>3, Mapped

\* A reply is drafted.
LEMMA CreateIsPromised ==
  ASSUME IInv, NEW x \in Replies, NEW t \in Texts,
         NEW a \in Analyses \cup {NoAnalysis}, CreateReply(x, t, a)
  PROVE  Promise!CorrespondenceNext
<1>1. /\ x \notin drafted /\ drafted' = drafted \cup {x}
      /\ row' = [row EXCEPT ![x] = Blank(t, a)]
      /\ UNCHANGED <<call, mail>>
  BY DEF CreateReply
<1>2. /\ row'[x].status = "draft" /\ row'[x].revision = 1
      /\ \A r \in Replies : r # x => row'[r] = row[r]
  BY <1>1 DEF IInv, TypeOK, Blank
<1>3. Promise!Write(x)
  <2>1. State(x) = "absent" /\ State(x)' = "draft"
    BY <1>1, <1>2 DEF State
  <2> QED
    BY <1>1, <1>2, <2>1, MailStays
    DEF Promise!Write, Promise!Moves, Promise!KeepsMail
<1>4. ASSUME NEW r \in Replies, r # x
      PROVE  Promise!Stay(r)
  <2>1. State(r)' = State(r)
    BY <1>1, <1>2, <1>4 DEF State
  <2> QED
    BY <1>1, <1>2, <1>4, <2>1, MailStays, Mapped
<1> QED
  BY <1>3, <1>4 DEF Promise!CorrespondenceNext, Promise!Proceed

\* A draft or a failed reply is edited.
LEMMA UpdateIsPromised ==
  ASSUME IInv, NEW c \in Analysts, NEW x \in Replies, NEW t \in Texts,
         NEW a \in Analyses \cup {NoAnalysis}, UpdateReply(c, x, t, a)
  PROVE  Promise!CorrespondenceNext
<1>1. /\ x \in drafted /\ drafted' = drafted
      /\ row[x].status \in {"draft", "failed"}
      /\ row' = [row EXCEPT ![x] = [status |-> "draft", revision |-> Bumped(x),
                                    text |-> t, analysis |-> a, reconciled |-> FALSE]]
      /\ UNCHANGED <<call, mail>>
  BY DEF UpdateReply
<1>2. /\ row'[x].status = "draft" /\ row'[x].revision = row[x].revision + 1
      /\ \A r \in Replies : r # x => row'[r] = row[r]
  BY <1>1 DEF IInv, TypeOK, Bumped
<1>3. Promise!Edit(x)
  <2>1. State(x) \in {"draft", "failed"} /\ State(x)' = "draft"
    BY <1>1, <1>2 DEF State
  <2> QED
    BY <1>1, <1>2, <2>1, MailStays
    DEF Promise!Edit, Promise!Moves, Promise!NewEdition, Promise!KeepsMail
<1>4. ASSUME NEW r \in Replies, r # x
      PROVE  Promise!Stay(r)
  <2>1. State(r)' = State(r)
    BY <1>1, <1>2, <1>4 DEF State
  <2> QED
    BY <1>1, <1>2, <1>4, <2>1, MailStays, Mapped
<1> QED
  BY <1>3, <1>4 DEF Promise!CorrespondenceNext, Promise!Proceed

\* An analyst reconciles a reply that is being sent or uncertain.
LEMMA ReconcileIsPromised ==
  ASSUME IInv, NEW c \in Analysts, NEW x \in Replies,
         NEW outcome \in {"accepted", "failed"}, Reconcile(c, x, outcome)
  PROVE  Promise!CorrespondenceNext
<1>1. /\ x \in drafted /\ drafted' = drafted
      /\ row[x].status \in {"sending", "uncertain"}
      /\ row' = [row EXCEPT ![x] = [row[x] EXCEPT !.status = outcome,
                                    !.reconciled = TRUE, !.revision = Bumped(x)]]
      /\ UNCHANGED <<call, mail>>
  BY DEF Reconcile
<1>2. /\ row'[x].status = outcome /\ row'[x].revision = row[x].revision + 1
      /\ row'[x].text = row[x].text
      /\ \A r \in Replies : r # x => row'[r] = row[r]
  BY <1>1 DEF IInv, TypeOK, Rows, Bumped
<1>3. Promise!Judge(x)
  <2>1. State(x) \in {"sending", "uncertain"} /\ State(x)' = outcome
    BY <1>1, <1>2 DEF State
  <2> QED
    BY <1>1, <1>2, <2>1, MailStays
    DEF Promise!Judge, Promise!Moves, Promise!NewEdition, Promise!KeepsText,
        Promise!KeepsMail
<1>4. ASSUME NEW r \in Replies, r # x
      PROVE  Promise!Stay(r)
  <2>1. State(r)' = State(r)
    BY <1>1, <1>2, <1>4 DEF State
  <2> QED
    BY <1>1, <1>2, <1>4, <2>1, MailStays, Mapped
<1> QED
  BY <1>3, <1>4 DEF Promise!CorrespondenceNext, Promise!Proceed

\* A draft is sent: its letter is under way from the first transaction on.
LEMMA RequestIsPromised ==
  ASSUME IInv, NEW q \in Requests, NEW c \in Analysts, NEW x \in Replies,
         RequestSend(q, c, x)
  PROVE  Promise!CorrespondenceNext
<1> DEFINE new == [reply |-> x, revision |-> row[x].revision, text |-> row[x].text,
                   shown |-> seen[c].text, state |-> "asked"]
<1>1. /\ call[q] = NoCall /\ x \in drafted /\ drafted' = drafted
      /\ row[x].status = "draft"
      /\ call' = [call EXCEPT ![q] = new]
      /\ row' = [row EXCEPT ![x] = [row[x] EXCEPT !.status = "sending",
                                                 !.revision = row[x].revision + 1]]
      /\ mail' = mail
  BY DEF RequestSend, Sendable
<1>2. /\ row'[x].status = "sending" /\ row'[x].revision = row[x].revision + 1
      /\ row'[x].text = row[x].text
      /\ \A r \in Replies : r # x => row'[r] = row[r]
  BY <1>1 DEF IInv, TypeOK, Rows
<1>3. /\ new.reply = x /\ new.state = "asked"
      /\ Letter(new) = [edition |-> row[x].revision, text |-> row[x].text]
      /\ new # NoCall
  <2>1. new \in Calls
    <3>1. seen[c].text \in Texts
      BY DEF RequestSend, UpToDate, IInv, TypeOK, Previews
    <3> QED
      BY <3>1 DEF IInv, TypeOK, Rows, Calls
  <2> QED
    BY <2>1, NoCallAssumption DEF Letter
<1> HIDE DEF new
<1>4. call'[q] = new /\ \A p \in Requests : p # q => call'[p] = call[p]
  BY <1>1 DEF IInv, TypeOK
<1>5. \A r \in Replies : Delivered(r)' = Delivered(r)
  BY <1>1 DEF Delivered, Letter
<1>6. Promise!Send(x)
  <2>1. State(x) = "draft" /\ State(x)' = "sending"
    BY <1>1, <1>2 DEF State
  <2>2. Asked(x)' = Asked(x) \cup {q} /\ q \notin Asked(x)
    BY <1>1, <1>3, <1>4 DEF Asked
  <2>3. Underway(x)' = Underway(x) \cup {Promise!Letter(x)}
    <3>1. \A p \in Asked(x) : Letter(call'[p]) = Letter(call[p])
      BY <1>4, <2>2 DEF Asked
    <3>2. Letter(call'[q]) = Promise!Letter(x)
      BY <1>3, <1>4, Mapped
    <3>3. Underway(x)' = {Letter(call'[p]) : p \in Asked(x) \cup {q}}
      BY <2>2 DEF Underway, Letter
    <3> QED
      BY <3>1, <3>2, <3>3 DEF Underway
  <2> QED
    BY <1>2, <1>5, <2>1, <2>3
    DEF Promise!Send, Promise!Moves, Promise!NewEdition, Promise!KeepsText
<1>7. ASSUME NEW r \in Replies, r # x
      PROVE  Promise!Stay(r)
  <2>1. \A p \in Requests :
          /\ (p \in Asked(r))' <=> p \in Asked(r)
          /\ p \in Asked(r) => Letter(call[p])' = Letter(call[p])
    BY <1>1, <1>3, <1>4, <1>7 DEF Asked, Letter
  <2> QED
    BY <1>1, <1>2, <1>7, <2>1, OthersStay
<1> QED
  BY <1>6, <1>7 DEF Promise!CorrespondenceNext, Promise!Proceed

\* The transport answers: it delivered the letter, or it did not.
LEMMA TransportIsPromised ==
  ASSUME IInv, NEW q \in Requests, Transport(q)
  PROVE  Promise!CorrespondenceNext
<1> DEFINE letter == Letter(call[q])
<1>1. /\ call[q] # NoCall /\ call[q].state = "asked"
      /\ row' = row /\ drafted' = drafted
  BY DEF Transport
<1>2. call[q] \in Calls /\ call[q].reply \in Replies
  BY <1>1 DEF IInv, TypeOK, Calls
<1>0. PICK x \in Replies : x = call[q].reply
  BY <1>2
<1>3. PICK delivered \in BOOLEAN, said \in {"accepted", "uncertain"} :
        /\ call' = [call EXCEPT ![q].state = said]
        /\ mail' = IF delivered THEN [mail EXCEPT ![x] = Append(@, call[q])] ELSE mail
  BY <1>0 DEF Transport
<1>4. /\ call'[q] = [call[q] EXCEPT !.state = said]
      /\ \A p \in Requests : p # q => call'[p] = call[p]
  BY <1>0, <1>1, <1>2, <1>3 DEF IInv, TypeOK, Calls
<1>5. call'[q].state # "asked"
  BY <1>0, <1>2, <1>4 DEF Calls
<1> HIDE DEF letter
<1>6. q \in Asked(x) /\ Asked(x)' = Asked(x) \ {q}
  BY <1>0, <1>1, <1>4, <1>5 DEF Asked
<1>7. Underway(x)' = Underway(x) \ {letter} /\ letter \in Underway(x)
  <2>1. \A p \in Asked(x) \ {q} : call[p].revision # call[q].revision
    BY <1>0, <1>1 DEF Asked, IInv, RequestsDiffer
  <2>2. \A p \in Asked(x) \ {q} : Letter(call[p]) # letter
    BY <2>1 DEF Letter, letter
  <2>3. \A p \in Asked(x) \ {q} : Letter(call'[p]) = Letter(call[p])
    BY <1>4 DEF Asked
  <2>4. Underway(x)' = {Letter(call'[p]) : p \in Asked(x) \ {q}}
    BY <1>6 DEF Underway, Letter
  <2>5. Underway(x)' = {Letter(call[p]) : p \in Asked(x) \ {q}}
    BY <2>3, <2>4
  <2>6. letter \in Underway(x)
    BY <1>6 DEF Underway, letter
  <2> QED
    BY <1>6, <2>2, <2>5, <2>6 DEF Underway, letter
<1>8. State(x)' = State(x)
  BY <1>0, <1>1 DEF State
<1>9. CASE delivered
  <2>1. mail[x] \in Seq(Calls) /\ mail'[x] = Append(mail[x], call[q])
    BY <1>0, <1>2, <1>3, <1>9 DEF IInv, TypeOK
  <2>2. Delivered(x)' = Append(Delivered(x), letter)
    <3>1. /\ DOMAIN mail[x] = 1..Len(mail[x]) /\ Len(mail[x]) \in Nat
          /\ DOMAIN mail'[x] = 1..(Len(mail[x]) + 1)
          /\ mail'[x][Len(mail[x]) + 1] = call[q]
          /\ \A i \in 1..Len(mail[x]) : mail'[x][i] = mail[x][i]
      BY <1>0, <1>2, <2>1
    <3>2. Delivered(x) = [i \in 1..Len(mail[x]) |-> Letter(mail[x][i])]
      BY <3>1 DEF Delivered
    <3>3. Delivered(x)' = [i \in 1..(Len(mail[x]) + 1) |-> Letter(mail'[x][i])]
      BY <3>1 DEF Delivered, Letter
    <3> DEFINE S == {Letter(k) : k \in Calls}
    <3>4. \A i \in 1..Len(mail[x]) : Letter(mail[x][i]) \in S
      BY <2>1, <3>1
    <3>5. Delivered(x) \in Seq(S) /\ Len(Delivered(x)) = Len(mail[x]) /\ letter \in S
      BY <1>0, <1>2, <3>1, <3>2, <3>4 DEF letter
    <3> HIDE DEF S
    <3>6. /\ Append(Delivered(x), letter) \in Seq(S)
          /\ Len(Append(Delivered(x), letter)) = Len(mail[x]) + 1
          /\ \A i \in 1..(Len(mail[x]) + 1) :
               Append(Delivered(x), letter)[i]
                 = IF i = Len(mail[x]) + 1 THEN letter ELSE Delivered(x)[i]
      BY <3>1, <3>5
    <3>7. \A i \in 1..(Len(mail[x]) + 1) :
            Letter(mail'[x][i]) = IF i = Len(mail[x]) + 1 THEN letter
                                                          ELSE Delivered(x)[i]
      BY <3>1, <3>2 DEF letter
    <3>8. Delivered(x)' \in Seq(S) /\ Len(Delivered(x)') = Len(mail[x]) + 1
      BY SMTT(30), <3>1, <3>3, <3>5, <3>7
    <3>9. \A i \in 1..(Len(mail[x]) + 1) :
            Append(Delivered(x), letter)[i] = (Delivered(x)')[i]
      BY <3>3, <3>6, <3>7
    <3> QED
      BY <3>6, <3>8, <3>9, SeqEqual
  <2>3. Promise!Deliver(x)
    BY <1>0, <1>1, <1>2, <1>7, <1>8, <2>2
    DEF Promise!Deliver, Promise!Rests, Promise!KeepsText
  <2>4. ASSUME NEW r \in Replies, r # x
        PROVE  Promise!Stay(r)
    <3>1. mail'[r] = mail[r]
      BY <1>0, <1>2, <1>3, <1>9, <2>4 DEF IInv, TypeOK
    <3>2. \A p \in Requests :
            /\ (p \in Asked(r))' <=> p \in Asked(r)
            /\ p \in Asked(r) => Letter(call[p])' = Letter(call[p])
      BY <1>0, <1>1, <1>4, <1>5, <2>4 DEF Asked, Letter
    <3> QED
      BY <1>0, <1>1, <3>1, <3>2, OthersStay
  <2> QED
    BY <2>3, <2>4 DEF Promise!CorrespondenceNext, Promise!Proceed
<1>10. CASE ~delivered
  <2>1. mail' = mail
    BY <1>3, <1>10
  <2>2. Delivered(x)' = Delivered(x)
    BY <2>1 DEF Delivered, Letter
  <2>3. Promise!Lose(x)
    BY <1>0, <1>1, <1>2, <1>7, <1>8, <2>2
    DEF Promise!Lose, Promise!Rests, Promise!KeepsText
  <2>4. ASSUME NEW r \in Replies, r # x
        PROVE  Promise!Stay(r)
    <3>1. \A p \in Requests :
            /\ (p \in Asked(r))' <=> p \in Asked(r)
            /\ p \in Asked(r) => Letter(call[p])' = Letter(call[p])
      BY <1>0, <1>1, <1>4, <1>5, <2>4 DEF Asked, Letter
    <3> QED
      BY <1>0, <1>1, <2>1, <3>1, OthersStay
  <2> QED
    BY <2>3, <2>4 DEF Promise!CorrespondenceNext, Promise!Proceed
<1> QED
  BY <1>9, <1>10

\* A result is stored for the reply that still waits for it, or only audited.
LEMMA ResultIsPromised ==
  ASSUME IInv, NEW q \in Requests, StoreResult(q)
  PROVE  Promise!CorrespondenceNext
<1>1. /\ call[q] # NoCall /\ call[q].state # "asked"
      /\ call' = [call EXCEPT ![q] = NoCall]
      /\ mail' = mail /\ drafted' = drafted
  BY DEF StoreResult
<1>0. PICK x \in Replies : x = call[q].reply
  BY <1>1 DEF IInv, TypeOK, Calls
<1>2. /\ call[q] \in Calls /\ x \in drafted
      /\ call[q].state \in {"accepted", "uncertain"}
  BY <1>0, <1>1 DEF IInv, TypeOK, RequestsAreBehind, Calls
<1>3. ASSUME NEW r \in Replies, NEW p \in Requests
      PROVE  /\ (p \in Asked(r))' <=> p \in Asked(r)
             /\ p \in Asked(r) => Letter(call[p])' = Letter(call[p])
  BY <1>0, <1>1 DEF Asked, Letter, IInv, TypeOK
<1>4. CASE ~Unreconciled(call[q])
  <2>1. row' = row
    BY <1>4 DEF StoreResult
  <2> QED
    BY <1>0, <1>1, <1>3, <2>1, OthersStay DEF Promise!CorrespondenceNext
<1>5. CASE Unreconciled(call[q])
  <2>1. row' = [row EXCEPT ![x].status = call[q].state]
    BY <1>0, <1>5 DEF StoreResult
  <2>2. /\ row'[x].status = call[q].state /\ row'[x].revision = row[x].revision
        /\ row'[x].text = row[x].text
        /\ \A r \in Replies : r # x => row'[r] = row[r]
    BY <1>0, <1>2, <2>1 DEF IInv, TypeOK, Rows
  <2>3. /\ row[x].status = "sending" /\ row[x].revision = call[q].revision + 1
        /\ row[x].text = call[q].text
    BY <1>0, <1>1, <1>2, <1>5 DEF Unreconciled, IInv, RequestsAreBehind
  <2>4. call[q].state = "accepted" => Promise!InTheBooks(x, Promise!Sent(x))
    <3> SUFFICES ASSUME call[q].state = "accepted"
                 PROVE  Promise!InTheBooks(x, Promise!Sent(x))
      OBVIOUS
    <3>1. PICK i \in DOMAIN mail[x] :
            mail[x][i].text = call[q].text /\ mail[x][i].revision = call[q].revision
      BY <1>0, <1>1 DEF IInv, AcceptedIsLogged, Logged
    <3>2. i \in DOMAIN Delivered(x) /\ Delivered(x)[i] = Letter(call[q])
      BY <3>1 DEF Delivered, Letter
    <3>3. Promise!Sent(x) = Letter(call[q])
      <4>1. call[q].revision \in Nat
        BY <1>2 DEF Calls, Versions
      <4> QED
        BY <1>0, <1>2, <2>3, <4>1 DEF Promise!Sent, Letter
    <3> QED
      BY <1>0, <1>2, <3>2, <3>3 DEF Promise!InTheBooks
  <2>5. State(x) = "sending" /\ State(x)' = call[q].state
    BY <1>0, <1>1, <1>2, <2>2, <2>3 DEF State
  <2>6. /\ Underway(x)' = Underway(x) /\ Delivered(x)' = Delivered(x)
    <3>1. Asked(x)' = Asked(x) /\ Asked(x) \subseteq Requests
      BY <1>3 DEF Asked
    <3>2. Delivered(x)' = Delivered(x)
      BY <1>1 DEF Delivered, Letter
    <3>3. Underway(x)' = {Letter(call'[p]) : p \in Asked(x)'}
      BY DEF Underway, Letter
    <3>4. \A p \in Asked(x) : Letter(call'[p]) = Letter(call[p])
      BY <1>3, <3>1 DEF Letter
    <3> QED
      BY <3>1, <3>2, <3>3, <3>4 DEF Underway
  <2>7. Promise!Report(x)
    BY <1>0, <1>2, <2>2, <2>4, <2>5, <2>6
    DEF Promise!Report, Promise!Moves, Promise!KeepsText, Promise!KeepsMail
  <2>8. ASSUME NEW r \in Replies, r # x
        PROVE  Promise!Stay(r)
    BY <1>0, <1>1, <1>3, <2>2, <2>8, OthersStay
  <2> QED
    BY <2>7, <2>8 DEF Promise!CorrespondenceNext, Promise!Proceed
<1> QED
  BY <1>4, <1>5

\* Lost requests lose their letters, those of every reply at once.
LEMMA LossIsPromised ==
  ASSUME IInv, ApiCrash \/ \E q \in Requests : ResultLost(q)
  PROVE  Promise!CorrespondenceNext
<1>1. UNCHANGED <<drafted, row, mail>>
  BY DEF ApiCrash, ResultLost
<1>2. \A p \in Requests : call'[p] = call[p] \/ call'[p] = NoCall
  BY DEF ApiCrash, ResultLost, IInv, TypeOK
<1>3. ASSUME NEW r \in Replies
      PROVE  Promise!Lose(r)
  <2>1. Asked(r)' \subseteq Asked(r) /\ \A p \in Asked(r)' : call'[p] = call[p]
    BY <1>2 DEF Asked
  <2>2. Underway(r)' \subseteq Underway(r)
    <3>1. Underway(r)' = {Letter(call'[p]) : p \in Asked(r)'}
      BY DEF Underway, Letter
    <3> QED
      BY <2>1, <3>1 DEF Underway
  <2>3. State(r)' = State(r) /\ Delivered(r)' = Delivered(r)
    BY <1>1 DEF State, Delivered, Letter
  <2> QED
    BY <1>1, <2>2, <2>3 DEF Promise!Lose, Promise!Rests, Promise!KeepsText
<1> QED
  BY <1>3 DEF Promise!CorrespondenceNext, Promise!Proceed

\* Every step is a move of each reply, or none.
LEMMA NextIsPromised ==
  ASSUME IInv, [Next]_vars
  PROVE  Promise!CorrespondenceNext
<1>1. CASE \E r \in Replies, t \in Texts, a \in Analyses \cup {NoAnalysis} :
             \/ CreateReply(r, t, a)
             \/ \E c \in Analysts : UpdateReply(c, r, t, a)
  BY <1>1, CreateIsPromised, UpdateIsPromised
<1>2. CASE \E c \in Analysts, r \in Replies :
             \/ \E q \in Requests : RequestSend(q, c, r)
             \/ \E outcome \in {"accepted", "failed"} : Reconcile(c, r, outcome)
  BY <1>2, RequestIsPromised, ReconcileIsPromised
<1>3. CASE (\E q \in Requests : ServeSend(q) \/ ResultLost(q)) \/ ApiCrash
  BY <1>3, TransportIsPromised, ResultIsPromised, LossIsPromised DEF ServeSend
<1>4. CASE \/ \E a \in Analyses : Decide(a) \/ Reopen(a)
           \/ \E c \in Analysts, r \in Replies : Preview(c, r)
           \/ UNCHANGED vars
  <2>1. UNCHANGED <<drafted, row, call, mail>>
    BY <1>4 DEF Decide, Reopen, Preview, vars
  <2>2. \A r \in Replies : State(r)' = State(r)
    BY <2>1 DEF State
  <2> QED
    BY <2>1, <2>2, MailStays, Mapped DEF Promise!CorrespondenceNext
<1> QED
  BY <1>1, <1>2, <1>3, <1>4 DEF Next

\* Nobody has drafted, sent or received anything.
LEMMA InitIsPromised == Init => Promise!CorrespondenceInit
<1> SUFFICES ASSUME Init, NEW r \in Replies
             PROVE  State(r) = "absent" /\ Underway(r) = {} /\ Delivered(r) = <<>>
  BY DEF Promise!CorrespondenceInit
<1>1. State(r) = "absent"
  BY DEF Init, State
<1>2. Underway(r) = {}
  BY DEF Init, Underway, Asked
<1>3. Delivered(r) = <<>>
  BY DEF Init, Delivered
<1> QED
  BY <1>1, <1>2, <1>3

\* For any number of replies, analysts and send requests: the handlers of
\* replies, with their lost results, repeated requests and late answers,
\* implement Correspondence.
THEOREM RepliesKeepPromise == Spec => RefinesCorrespondence
<1>1. IInv /\ [Next]_vars
        => [Promise!CorrespondenceNext]_(Promise!correspondenceVars)
  BY NextIsPromised
<1> QED
  BY <1>1, InitIsPromised, Inductive, PTL
  DEF Spec, RefinesCorrespondence, Promise!CorrespondenceSpec

----------------------------------------------------------------------------
(* Progress.  A reply is only "sending" while a request still owns it,     *)
(* unless that request was lost; and a request that is served leaves in    *)
(* two steps, the answer of the transport and the second transaction.      *)

Idle(q) == call[q] = NoCall

\* The request the result of which would still be stored.
Owns(q, r) == /\ call[q] # NoCall
              /\ call[q].reply = r
              /\ call[q].revision + 1 = row[r].revision

Answered(q) == call[q] # NoCall /\ call[q].state # "asked"

Ended(r) == row[r].status # "sending" \/ r \in orphaned

\* A reply that is "sending" has the request that marked it, or lost it.
SendingIsOwned == \A r \in Replies : Ended(r) \/ \E q \in Requests : Owns(q, r)

\* An owner goes on with its reply, or the reply is no longer "sending".
LEMMA OwnerStays ==
  ASSUME IInv, [Next]_vars, NEW q \in Requests, NEW r \in Replies, Owns(q, r)
  PROVE  (Owns(q, r)' /\ (Answered(q) => Answered(q)')) \/ Ended(r)'
<1> DEFINE Goal == (Owns(q, r)' /\ (Answered(q) => Answered(q)')) \/ Ended(r)'
<1>1. /\ row[r].status = "sending"
      /\ call[q] \in Calls /\ call[q].revision \in Nat
      /\ row[r] \in Rows /\ row[r].revision \in Nat
  BY DEF IInv, TypeOK, RequestsAreBehind, Owns, Calls, Versions, Rows
<1>2. ASSUME row'[r] = row[r], call'[q] = call[q]
      PROVE  Goal
  BY <1>2 DEF Owns, Answered
<1>3. ASSUME row'[r].status # "sending"
      PROVE  Goal
  BY <1>3 DEF Ended
<1>4. ASSUME NEW x \in Replies, NEW new, row' = [row EXCEPT ![x] = new],
             new.status # "sending", call' = call
      PROVE  Goal
  <2>1. CASE x = r
    BY <1>3, <1>4, <2>1 DEF IInv, TypeOK
  <2>2. CASE x # r
    BY <1>2, <1>4, <2>2 DEF IInv, TypeOK
  <2> QED
    BY <2>1, <2>2
<1>5. ASSUME NEW x \in Replies, NEW t \in Texts, NEW a \in Analyses \cup {NoAnalysis},
             CreateReply(x, t, a)
      PROVE  Goal
  <2> DEFINE new == Blank(t, a)
  <2>1. row' = [row EXCEPT ![x] = new] /\ call' = call /\ new.status # "sending"
    BY <1>5 DEF CreateReply, Blank
  <2> HIDE DEF new
  <2> QED
    BY <1>4, <2>1
<1>6. ASSUME NEW c \in Analysts, NEW x \in Replies, NEW t \in Texts,
             NEW a \in Analyses \cup {NoAnalysis}, UpdateReply(c, x, t, a)
      PROVE  Goal
  <2> DEFINE new == [status |-> "draft", revision |-> Bumped(x), text |-> t,
                     analysis |-> a, reconciled |-> FALSE]
  <2>1. row' = [row EXCEPT ![x] = new] /\ call' = call /\ new.status # "sending"
    BY <1>6 DEF UpdateReply
  <2> HIDE DEF new
  <2> QED
    BY <1>4, <2>1
<1>7. ASSUME NEW c \in Analysts, NEW x \in Replies,
             NEW outcome \in {"accepted", "failed"}, Reconcile(c, x, outcome)
      PROVE  Goal
  <2> DEFINE new == [row[x] EXCEPT !.status = outcome, !.reconciled = TRUE,
                                   !.revision = Bumped(x)]
  <2>1. row' = [row EXCEPT ![x] = new] /\ call' = call
    BY <1>7 DEF Reconcile
  <2>2. new.status = outcome
    BY DEF IInv, TypeOK, Rows
  <2> HIDE DEF new
  <2> QED
    BY <1>4, <2>1, <2>2
<1>8. ASSUME NEW p \in Requests, NEW c \in Analysts, NEW x \in Replies,
             RequestSend(p, c, x)
      PROVE  Goal
  <2>1. x # r /\ p # q
    BY <1>1, <1>8 DEF RequestSend, Sendable, Owns
  <2> QED
    BY <1>2, <1>8, <2>1 DEF RequestSend, IInv, TypeOK
<1>9. ASSUME NEW p \in Requests, Transport(p)
      PROVE  Goal
  <2>1. PICK said \in {"accepted", "uncertain"} : call' = [call EXCEPT ![p].state = said]
    BY <1>9 DEF Transport
  <2>2. row' = row
    BY <1>9 DEF Transport
  <2>3. CASE p # q
    BY <1>2, <2>1, <2>2, <2>3 DEF IInv, TypeOK
  <2>4. CASE p = q
    <3>1. call'[q] = [call[q] EXCEPT !.state = said]
      BY <2>1, <2>4 DEF IInv, TypeOK
    <3>2. /\ call'[q] \in Calls /\ call'[q].reply = call[q].reply
          /\ call'[q].revision = call[q].revision /\ call'[q].state = said
      BY <1>1, <3>1 DEF Calls
    <3> QED
      BY <2>2, <3>2, NoCallAssumption DEF Owns, Answered
  <2> QED
    BY <2>3, <2>4
<1>10. ASSUME NEW p \in Requests, StoreResult(p)
       PROVE  Goal
  <2>1. CASE p = q
    <3>1. Unreconciled(call[q])
      BY <1>1 DEF Owns, Unreconciled
    <3>2. row' = [row EXCEPT ![r].status = call[q].state]
      BY <1>10, <2>1, <3>1 DEF StoreResult, Owns
    <3>3. row'[r].status = call[q].state
      BY <1>1, <3>2 DEF IInv, TypeOK, Rows
    <3>4. call[q].state # "sending"
      BY <1>1 DEF Calls
    <3> QED
      BY <1>3, <3>3, <3>4
  <2>2. CASE p # q
    <3>1. call'[q] = call[q] /\ call[p] # NoCall
      BY <1>10, <2>2 DEF StoreResult, IInv, TypeOK
    <3>2. CASE Unreconciled(call[p]) /\ call[p].reply = r
      <4>1. call[p].revision + 1 = row[r].revision
        BY <3>2 DEF Unreconciled
      <4>2. call[p].revision # call[q].revision
        BY <2>2, <3>1, <3>2 DEF IInv, RequestsDiffer, Owns
      <4>3. call[p].revision \in Nat
        BY <3>1 DEF IInv, TypeOK, Calls, Versions
      <4> QED
        BY <1>1, <4>1, <4>2, <4>3 DEF Owns
    <3>3. CASE ~(Unreconciled(call[p]) /\ call[p].reply = r)
      <4>1. row'[r] = row[r]
        BY <1>10, <3>3 DEF StoreResult, IInv, TypeOK
      <4> QED
        BY <1>2, <3>1, <4>1
    <3> QED
      BY <3>2, <3>3
  <2> QED
    BY <2>1, <2>2
<1>11. ASSUME NEW p \in Requests, ResultLost(p)
       PROVE  Goal
  <2>1. CASE p = q
    BY <1>11, <2>1 DEF ResultLost, Owns, Ended
  <2>2. CASE p # q
    BY <1>2, <1>11, <2>2 DEF ResultLost, IInv, TypeOK
  <2> QED
    BY <2>1, <2>2
<1>12. CASE ApiCrash
  BY <1>12 DEF ApiCrash, Owns, Ended
<1>13. CASE \/ \E a \in Analyses : Decide(a) \/ Reopen(a)
            \/ \E c \in Analysts, x \in Replies : Preview(c, x)
            \/ UNCHANGED vars
  BY <1>2, <1>13 DEF Decide, Reopen, Preview, vars
<1> QED
  BY <1>5, <1>6, <1>7, <1>8, <1>9, <1>10, <1>11, <1>12, <1>13 DEF Next, ServeSend

\* A reply becomes "sending" with the request that owns it.
LEMMA SendingBegins ==
  ASSUME IInv, [Next]_vars, NEW r \in Replies, row[r].status # "sending",
         row'[r].status = "sending"
  PROVE  \E q \in Requests : Owns(q, r)'
<1>1. ASSUME NEW q \in Requests, NEW c \in Analysts, NEW x \in Replies,
             RequestSend(q, c, x)
      PROVE  Owns(q, r)'
  <2> DEFINE new == [row[x] EXCEPT !.status = "sending", !.revision = row[x].revision + 1]
             asked == [reply |-> x, revision |-> row[x].revision, text |-> row[x].text,
                       shown |-> seen[c].text, state |-> "asked"]
  <2>1. row' = [row EXCEPT ![x] = new] /\ call' = [call EXCEPT ![q] = asked]
    BY <1>1 DEF RequestSend
  <2>2. x = r
    BY <2>1 DEF IInv, TypeOK
  <2>3. row[x] \in Rows /\ seen[c] \in Previews
    BY <1>1 DEF RequestSend, UpToDate, IInv, TypeOK
  <2>4. /\ asked \in Calls /\ asked.reply = x /\ asked.revision = row[x].revision
        /\ new.revision = row[x].revision + 1
    BY <2>3 DEF Rows, Calls, Previews
  <2> HIDE DEF new, asked
  <2> QED
    BY <2>1, <2>2, <2>4, NoCallAssumption DEF Owns, IInv, TypeOK
<1>2. ASSUME NEW x \in Replies, NEW new, row' = [row EXCEPT ![x] = new],
             new.status # "sending"
      PROVE  FALSE
  BY <1>2 DEF IInv, TypeOK
<1>3. ASSUME NEW x \in Replies, NEW t \in Texts, NEW a \in Analyses \cup {NoAnalysis},
             CreateReply(x, t, a)
      PROVE  FALSE
  BY <1>2, <1>3 DEF CreateReply, Blank
<1>4. ASSUME NEW c \in Analysts, NEW x \in Replies, NEW t \in Texts,
             NEW a \in Analyses \cup {NoAnalysis}, UpdateReply(c, x, t, a)
      PROVE  FALSE
  BY <1>2, <1>4 DEF UpdateReply
<1>5. ASSUME NEW c \in Analysts, NEW x \in Replies,
             NEW outcome \in {"accepted", "failed"}, Reconcile(c, x, outcome)
      PROVE  FALSE
  <2> DEFINE new == [row[x] EXCEPT !.status = outcome, !.reconciled = TRUE,
                                   !.revision = Bumped(x)]
  <2>1. row' = [row EXCEPT ![x] = new]
    BY <1>5 DEF Reconcile
  <2>2. new.status = outcome
    BY DEF IInv, TypeOK, Rows
  <2> HIDE DEF new
  <2> QED
    BY <1>2, <2>1, <2>2
<1>6. ASSUME NEW q \in Requests, StoreResult(q)
      PROVE  FALSE
  <2>1. call[q] \in Calls /\ call[q].reply \in Replies /\ call[q].state # "sending"
    BY <1>6 DEF StoreResult, IInv, TypeOK, Calls
  <2>2. \/ row' = row
        \/ row' = [row EXCEPT ![call[q].reply].status = call[q].state]
    BY <1>6 DEF StoreResult
  <2>3. row'[r] = row[r] \/ row'[r].status = call[q].state
    BY <2>1, <2>2 DEF IInv, TypeOK, Rows
  <2> QED
    BY <2>1, <2>3
<1>7. CASE \/ \E a \in Analyses : Decide(a) \/ Reopen(a)
           \/ \E c \in Analysts, x \in Replies : Preview(c, x)
           \/ \E q \in Requests : Transport(q) \/ ResultLost(q)
           \/ ApiCrash
           \/ UNCHANGED vars
  BY <1>7 DEF Decide, Reopen, Preview, Transport, ResultLost, ApiCrash, vars
<1> QED
  BY <1>1, <1>3, <1>4, <1>5, <1>6, <1>7 DEF Next, ServeSend

LEMMA NextOwned == IInv /\ SendingIsOwned /\ [Next]_vars => SendingIsOwned'
<1> SUFFICES ASSUME IInv, SendingIsOwned, [Next]_vars, NEW r \in Replies
             PROVE  Ended(r)' \/ \E q \in Requests : Owns(q, r)'
  BY DEF SendingIsOwned
<1>1. CASE \E q \in Requests : Owns(q, r)
  BY <1>1, OwnerStays
<1>2. CASE r \in orphaned
  BY <1>2 DEF Ended, Next, Decide, Reopen, CreateReply, UpdateReply, Preview, RequestSend,
              Reconcile, ServeSend, Transport, StoreResult, ResultLost, ApiCrash, vars
<1>3. CASE row[r].status # "sending"
  BY <1>3, SendingBegins DEF Ended
<1> QED
  BY <1>1, <1>2, <1>3 DEF SendingIsOwned, Ended

\* What the proof of progress knows of every reachable state.
OwnedInv == IInv /\ SendingIsOwned

LEMMA OwnedAlways == Spec => []OwnedInv
<1>1. Init => OwnedInv
  BY InitIInv DEF Init, Blank, OwnedInv, SendingIsOwned, Ended
<1>2. OwnedInv /\ [Next]_vars => OwnedInv'
  BY NextIInv, NextOwned DEF OwnedInv
<1> QED
  BY <1>1, <1>2, PTL DEF Spec

\* No reply is left "sending" without a request, unless that was lost.
THEOREM NoReplyIsForgotten == Spec => []SendingIsOwned
<1>1. OwnedInv => SendingIsOwned
  BY DEF OwnedInv
<1> QED
  BY <1>1, OwnedAlways, PTL

\* The one premise that speaks of ENABLED: a request under way can be served.
Servable(q) == [](Idle(q) \/ ENABLED <<ServeSend(q)>>_vars)

EndsItsReply(q, r) == [](Owns(q, r) => <>Ended(r))

\* A request that is served fairly ends the transmission it owns.
LEMMA RequestEndsSending ==
  ASSUME NEW q \in Requests, NEW r \in Replies
  PROVE  Spec /\ Fairness(q) /\ Servable(q) => EndsItsReply(q, r)
<1>1. Spec => []OwnedInv
  BY OwnedAlways
<1>2. OwnedInv /\ [Next]_vars /\ Owns(q, r)
        => (Owns(q, r)' /\ (Answered(q) => Answered(q)')) \/ Ended(r)'
  BY OwnerStays DEF OwnedInv
<1>3. OwnedInv /\ <<ServeSend(q)>>_vars => Idle(q)' \/ (~Answered(q) /\ Answered(q)')
  <2> SUFFICES ASSUME OwnedInv, ServeSend(q)
               PROVE  Idle(q)' \/ (~Answered(q) /\ Answered(q)')
    OBVIOUS
  <2>1. CASE Transport(q)
    <3>1. PICK said \in {"accepted", "uncertain"} : call' = [call EXCEPT ![q].state = said]
      BY <2>1 DEF Transport
    <3>2. call[q] \in Calls /\ call'[q] = [call[q] EXCEPT !.state = said]
      BY <2>1, <3>1 DEF Transport, OwnedInv, IInv, TypeOK
    <3>3. call'[q] \in Calls /\ call'[q].state = said
      BY <3>2 DEF Calls
    <3> QED
      BY <2>1, <3>3, NoCallAssumption DEF Transport, Answered
  <2>2. CASE StoreResult(q)
    BY <2>2 DEF StoreResult, Idle, OwnedInv, IInv, TypeOK
  <2> QED
    BY <2>1, <2>2 DEF ServeSend
<1>4. Owns(q, r) => ~Idle(q)
  BY DEF Owns, Idle
<1> QED
  BY <1>1, <1>2, <1>3, <1>4, PTL DEF Spec, Servable, Fairness, EndsItsReply

\* A reply does not stay "sending", or its request was lost, whenever requests
\* are served as FairSpec says and one that is under way can be served.
THEOREM RepliesAreEnded ==
  FairSpec /\ (\A q \in Requests : Servable(q)) => SendingEnds
<1>1. ASSUME NEW r \in Replies
      PROVE  Spec /\ [](\A q \in Requests : Owns(q, r) => <>Ended(r))
               => (row[r].status = "sending" ~> row[r].status # "sending" \/ r \in orphaned)
  <2>1. (\A q \in Requests : Owns(q, r) => <>Ended(r))
          => ((\E q \in Requests : Owns(q, r)) => <>Ended(r))
    OBVIOUS
  <2>2. OwnedInv => Ended(r) \/ \E q \in Requests : Owns(q, r)
    BY DEF OwnedInv, SendingIsOwned
  <2>3. Ended(r) => row[r].status # "sending" \/ r \in orphaned
    BY DEF Ended
  <2> QED
    BY <2>1, <2>2, <2>3, OwnedAlways, PTL
<1>2. ASSUME NEW r \in Replies, FairSpec, \A q \in Requests : Servable(q)
      PROVE  row[r].status = "sending" ~> row[r].status # "sending" \/ r \in orphaned
  <2>1. \A q \in Requests : EndsItsReply(q, r)
    BY <1>2, RequestEndsSending DEF FairSpec
  <2>2. [](\A q \in Requests : Owns(q, r) => <>Ended(r))
    BY <2>1 DEF EndsItsReply
  <2> QED
    BY <1>1, <1>2, <2>2 DEF FairSpec
<1> QED
  BY <1>2 DEF SendingEnds
=============================================================================
