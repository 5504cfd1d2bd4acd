--------------------------- MODULE CampaignsProofs ---------------------------
(***************************************************************************)
(* What holds of Campaigns for every number of campaigns, e-mails, actions *)
(* and analysts: what stays true of a closed campaign, what a page with    *)
(* the current revision shows, and that an archive is final.               *)
(***************************************************************************)
EXTENDS Campaigns, TLAPS

\* A page shows an earlier row of its campaign, or the current one.
PagesArePast ==
  \A k \in Analysts : page[k] # NoPage =>
    LET now == campaign[page[k].id]
    IN /\ now # NoCampaign
       /\ page[k].row.revision <= now.revision
       /\ page[k].row.revision = now.revision => page[k].row = now

\* The inductive invariant.
CampaignInv ==
  /\ TypeOK
  /\ NoCollectiveWork
  /\ ClosedStaysQualified
  /\ PagesArePast

----------------------------------------------------------------------------
(* Lemmas about rows.                                                      *)

\* A row that may be changed once more, changed.
LEMMA BumpedRow ==
  ASSUME TypeOK, NEW c \in Ids, Live(c), InBound(c)
  PROVE  /\ campaign[c] \in Rows
         /\ Bumped(c) \in Rows
         /\ Bumped(c).status = campaign[c].status
         /\ Bumped(c).deleted = campaign[c].deleted
         /\ Bumped(c).revision = campaign[c].revision + 1
BY BoundsAssumption DEF TypeOK, Rows, Live, InBound, Bumped

\* With its status or its tombstone set as well.
LEMMA BumpedRowWith ==
  ASSUME TypeOK, NEW c \in Ids, Live(c), InBound(c), NEW status \in Statuses
  PROVE  /\ [Bumped(c) EXCEPT !.status = status] \in Rows
         /\ [Bumped(c) EXCEPT !.status = status].status = status
         /\ [Bumped(c) EXCEPT !.status = status].revision = campaign[c].revision + 1
         /\ [Bumped(c) EXCEPT !.deleted = TRUE] \in Rows
         /\ [Bumped(c) EXCEPT !.deleted = TRUE].deleted
         /\ [Bumped(c) EXCEPT !.deleted = TRUE].revision = campaign[c].revision + 1
BY BumpedRow DEF Rows

LEMMA NewRowType ==
  ASSUME NEW status \in Statuses
  PROVE  /\ NewRow(status) \in Rows
         /\ NewRow(status).status = status
BY BoundsAssumption DEF NewRow, Rows

LEMMA SealType ==
  ASSUME NEW c \in Ids, NEW status, Seal(c, status),
         sealed \in [Ids -> SUBSET Emails],
         members' \in [Ids -> SUBSET Emails]
  PROVE  /\ sealed' \in [Ids -> SUBSET Emails]
         /\ \A x \in Ids \ {c} : sealed'[x] = sealed[x]
         /\ \A e \in sealed'[c] : e \in members'[c] /\ Decided(e)
         /\ inherited' = inherited \ {c}
BY DEF Seal

----------------------------------------------------------------------------
(* What a start does.                                                      *)

Conversions == [ToConvert -> Ids \cup {NoCampaign}]
Outcomes == [Ids -> {"active", "closed"}]

\* A scope that a conversion moves, moves to a campaign that is new.
LEMMA MovedScope ==
  ASSUME NEW made \in Conversions, NEW status \in Outcomes, Start(made, status),
         NEW s \in Scopes
  PROVE  /\ Moved(s, made) \in Scopes
         /\ MovedReply(s, made) \in Scopes
         /\ \/ Moved(s, made) = s
            \/ /\ Moved(s, made).campaign \in Ids
               /\ campaign[Moved(s, made).campaign] = NoCampaign
<1>1. CASE s.case \in ToConvert /\ made[s.case] # NoCampaign
  <2> DEFINE c == made[s.case]
  <2>1. c \in Ids /\ campaign[c] = NoCampaign
    BY <1>1 DEF Start, Conversions
  <2>2. Moved(s, made) = [s EXCEPT !.campaign = c]
    BY <1>1 DEF Moved
  <2>3. c # NoCampaign
    BY <2>1, NoIdAssumption
  <2> HIDE DEF c
  <2>4. [s EXCEPT !.campaign = c] \in Scopes /\ [s EXCEPT !.campaign = c].campaign = c
    BY <2>1, <2>3 DEF Scopes
  <2> QED
    BY <2>1, <2>2, <2>4 DEF MovedReply
<1>2. CASE ~(s.case \in ToConvert /\ made[s.case] # NoCampaign)
  BY <1>2 DEF Moved, MovedReply
<1> QED
  BY <1>1, <1>2

\* A start adds campaigns and members, and changes no campaign there is.
LEMMA StartAdds ==
  ASSUME TypeOK, NEW made \in Conversions, NEW status \in Outcomes,
         Start(made, status), NEW c \in Ids
  PROVE  /\ campaign[c] # NoCampaign => campaign'[c] = campaign[c]
         /\ \/ campaign'[c] = campaign[c] /\ sealed'[c] = sealed[c]
            \/ /\ campaign[c] = NoCampaign /\ sealed'[c] = {}
               /\ \/ campaign'[c] = NewRow("active")
                  \/ campaign'[c] = NewRow("closed") /\ c \in inherited'
         /\ members[c] \subseteq members'[c]
         /\ members'[c] \subseteq Emails
         /\ campaign[c] # NoCampaign => \A e \in members'[c] \ members[c] :
              CaseOf[e] \in linked[c] /\ CaseOf[e] \in converted' \ converted
         /\ inherited \subseteq inherited'
<1>1. CASE \E x \in ToConvert : made[x] = c
  <2>1. campaign[c] = NoCampaign /\ c # NoCampaign
    BY <1>1, NoIdAssumption DEF Start
  <2>2. campaign'[c] = NewRow(status[c]) /\ sealed'[c] = {}
    BY <1>1, <2>1 DEF Start
  <2>3. status[c] \in {"active", "closed"} /\ (status[c] = "closed" => c \in inherited')
    BY <1>1, <2>1 DEF Start, Outcomes
  <2> QED
    BY <2>1, <2>2, <2>3 DEF Start, TypeOK
<1>2. CASE ~\E x \in ToConvert : made[x] = c
  <2>1. campaign'[c] = campaign[c] /\ sealed'[c] = sealed[c]
    BY <1>2 DEF Start
  <2>2. \A e \in members'[c] \ members[c] :
          CaseOf[e] \in linked[c] /\ CaseOf[e] \in converted' \ converted
    BY <1>2 DEF Start, ToConvert
  <2> QED
    BY <2>1, <2>2 DEF Start, TypeOK
<1> QED
  BY <1>1, <1>2

----------------------------------------------------------------------------
(* Type correctness.                                                       *)

LEMMA InitTypeOK == Init => TypeOK
BY DEF Init, TypeOK

LEMMA NextTypeOK == TypeOK /\ [Next]_vars => TypeOK'
<1> SUFFICES ASSUME TypeOK, [Next]_vars PROVE TypeOK'
  OBVIOUS
<1>1. ASSUME NEW k \in Analysts, NEW c \in Ids, OpenPage(k, c)
      PROVE  TypeOK'
  <2>1. [id |-> c, row |-> campaign[c]] \in Pages
    BY <1>1 DEF OpenPage, Live, TypeOK, Pages
  <2> QED
    BY <1>1, <2>1 DEF history, OpenPage, TypeOK
<1>2. ASSUME NEW k \in Analysts, NEW c \in Ids, NEW status \in Statuses,
             UpdateCampaign(k, c, status)
      PROVE  TypeOK'
  BY <1>2, BumpedRowWith, SealType DEF UpdateCampaign, TypeOK
<1>3. ASSUME NEW k \in Analysts, NEW c \in Ids, ArchiveCampaign(k, c)
      PROVE  TypeOK'
  <2>1. [Bumped(c) EXCEPT !.deleted = TRUE] \in Rows
    BY <1>3, BumpedRowWith DEF ArchiveCampaign, Statuses
  <2> QED
    BY <1>3, <2>1 DEF history, ArchiveCampaign, TypeOK
<1>4. ASSUME NEW k \in Analysts, NEW c \in Ids, NEW emails \in SUBSET Emails,
             AddEmails(k, c, emails)
      PROVE  TypeOK'
  BY <1>4, BumpedRow DEF history, AddEmails, TypeOK
<1>5. ASSUME NEW k \in Analysts, NEW c \in Ids, NEW e \in Emails,
             RemoveEmail(k, c, e)
      PROVE  TypeOK'
  BY <1>5, BumpedRow DEF RemoveEmail, TypeOK
<1>6. ASSUME NEW c \in Ids, NEW status \in Statuses, NEW emails \in SUBSET Emails,
             CreateCampaign(c, status, emails)
      PROVE  TypeOK'
  BY <1>6, NewRowType, SealType DEF CreateCampaign, TypeOK
<1>7. ASSUME NEW c \in Ids, NEW x \in Cases, AttachCase(c, x)
      PROVE  TypeOK'
  BY <1>7, BumpedRow DEF history, AttachCase, TypeOK, EmailsOf
<1>8. ASSUME NEW c \in Ids, NEW x \in Cases, DetachCase(c, x)
      PROVE  TypeOK'
  BY <1>8 DEF DetachCase, TypeOK, EmailsOf
<1>9. ASSUME NEW e \in Emails, NEW status \in {"completed", "failed"},
             AnalysisEnds(e, status)
      PROVE  TypeOK'
  BY <1>9 DEF history, AnalysisEnds, TypeOK
<1>10. ASSUME NEW e \in Emails, RetryAnalysis(e) \/ Decide(e)
       PROVE  TypeOK'
  BY <1>10 DEF history, RetryAnalysis, Decide, TypeOK
<1>11. ASSUME NEW e \in Emails, Reopen(e)
       PROVE  TypeOK'
  <2>1. \A c \in Ids : campaign'[c] \in Rows \cup {NoCampaign}
    BY <1>11, BumpedRowWith DEF Reopen, Reopens, TypeOK, Statuses
  <2>2. campaign' \in [Ids -> Rows \cup {NoCampaign}]
    BY <1>11, <2>1 DEF Reopen
  <2> QED
    BY <1>11, <2>2 DEF Reopen, TypeOK
<1>12. ASSUME NEW t \in Tasks, NEW s \in Scopes, NEW pending \in BOOLEAN,
              CreateTask(t, s, pending)
       PROVE  TypeOK'
  BY <1>12 DEF history, CreateTask, TypeOK, TaskRows
<1>13. ASSUME NEW t \in Tasks, NEW pending \in BOOLEAN, UpdateTask(t, pending)
       PROVE  TypeOK'
  BY <1>13 DEF history, UpdateTask, TypeOK, TaskRows
<1>14. ASSUME NEW s \in Scopes, CreateReply(s) \/ BeginSend(s) \/ EndSend(s)
       PROVE  TypeOK'
  BY <1>14 DEF history, CreateReply, BeginSend, EndSend, TypeOK
<1>15. ASSUME NEW made \in Conversions, NEW status \in Outcomes, Start(made, status)
       PROVE  TypeOK'
  <2>1. \A c \in Ids : /\ campaign'[c] \in Rows \cup {NoCampaign}
                       /\ sealed'[c] \in SUBSET Emails
                       /\ members'[c] \in SUBSET Emails
    BY <1>15, StartAdds, NewRowType DEF TypeOK, Statuses
  <2>2. \A s \in Scopes : Moved(s, made) \in Scopes /\ MovedReply(s, made) \in Scopes
    BY <1>15, MovedScope
  <2>3. ASSUME NEW t \in Tasks
        PROVE  task'[t] \in TaskRows \cup {NoTask}
    <3>1. CASE task[t] = NoTask
      BY <1>15, <3>1 DEF Start
    <3>2. CASE task[t] # NoTask
      <4>1. task[t] \in TaskRows
        BY <3>2 DEF TypeOK
      <4>2. task'[t] = [task[t] EXCEPT !.scope = Moved(task[t].scope, made)]
        BY <1>15, <3>2 DEF Start
      <4> QED
        BY <2>2, <4>1, <4>2 DEF TaskRows
    <3> QED
      BY <3>1, <3>2
  <2>4. drafts' \subseteq Scopes /\ sending' \subseteq drafts'
    <3>1. drafts \subseteq Scopes /\ sending \subseteq drafts
      BY DEF TypeOK
    <3>2. /\ drafts' = {MovedReply(s, made) : s \in drafts}
          /\ sending' = {MovedReply(s, made) : s \in sending}
      BY <1>15 DEF Start
    <3> QED
      BY <2>2, <3>1, <3>2
  <2>5. converted' \subseteq Cases /\ inherited' \subseteq Ids
    BY <1>15 DEF Start, TypeOK, Conversions
  <2> QED
    BY <1>15, <2>1, <2>3, <2>4, <2>5 DEF Start, TypeOK
<1>16. CASE UNCHANGED vars
  BY <1>16 DEF vars, history, TypeOK
<1> QED
  BY <1>1, <1>2, <1>3, <1>4, <1>5, <1>6, <1>7, <1>8, <1>9, <1>10, <1>11,
     <1>12, <1>13, <1>14, <1>15, <1>16 DEF Next, Conversions, Outcomes

THEOREM TypeCorrect == Spec => []TypeOK
BY InitTypeOK, NextTypeOK, PTL DEF Spec

----------------------------------------------------------------------------
(* How an action changes a row: not at all, or by a new revision.          *)

\* The handlers that change one campaign give it a new revision.
Changes(c, row) ==
  /\ Live(c)
  /\ InBound(c)
  /\ row \in Rows
  /\ row.revision = campaign[c].revision + 1
  /\ campaign' = [campaign EXCEPT ![c] = row]

LEMMA ChangingActions ==
  ASSUME TypeOK, NEW c \in Ids
  PROVE  /\ \A k \in Analysts, status \in Statuses : UpdateCampaign(k, c, status) =>
              \E row \in Rows : Changes(c, row) /\ row.status = status
         /\ \A k \in Analysts : ArchiveCampaign(k, c) =>
              \E row \in Rows : Changes(c, row) /\ row.deleted
         /\ \A k \in Analysts, emails \in SUBSET Emails : AddEmails(k, c, emails) =>
              \E row \in Rows : Changes(c, row) /\ row.status # "closed"
         /\ \A k \in Analysts, e \in Emails : RemoveEmail(k, c, e) =>
              \E row \in Rows : Changes(c, row) /\ row.status # "closed"
         /\ \A x \in Cases : AttachCase(c, x) =>
              \E row \in Rows : /\ Changes(c, row)
                                /\ row.status = campaign[c].status
                                /\ row.deleted = campaign[c].deleted
<1>1. ASSUME NEW k \in Analysts, NEW status \in Statuses, UpdateCampaign(k, c, status)
      PROVE  \E row \in Rows : Changes(c, row) /\ row.status = status
  <2> DEFINE row == [Bumped(c) EXCEPT !.status = status]
  <2>1. Live(c) /\ InBound(c) /\ campaign' = [campaign EXCEPT ![c] = row]
    BY <1>1 DEF UpdateCampaign
  <2>2. row \in Rows /\ row.status = status /\ row.revision = campaign[c].revision + 1
    BY <2>1, BumpedRowWith
  <2> QED
    BY <2>1, <2>2 DEF Changes
<1>2. ASSUME NEW k \in Analysts, ArchiveCampaign(k, c)
      PROVE  \E row \in Rows : Changes(c, row) /\ row.deleted
  <2> DEFINE row == [Bumped(c) EXCEPT !.deleted = TRUE]
  <2>1. Live(c) /\ InBound(c) /\ campaign' = [campaign EXCEPT ![c] = row]
    BY <1>2 DEF ArchiveCampaign
  <2>2. row \in Rows /\ row.deleted /\ row.revision = campaign[c].revision + 1
    BY <2>1, BumpedRowWith DEF Statuses
  <2> QED
    BY <2>1, <2>2 DEF Changes
<1>3. ASSUME NEW k \in Analysts, NEW emails \in SUBSET Emails, AddEmails(k, c, emails)
      PROVE  \E row \in Rows : Changes(c, row) /\ row.status # "closed"
  BY <1>3, BumpedRow DEF AddEmails, Changes
<1>4. ASSUME NEW k \in Analysts, NEW e \in Emails, RemoveEmail(k, c, e)
      PROVE  \E row \in Rows : Changes(c, row) /\ row.status # "closed"
  BY <1>4, BumpedRow DEF RemoveEmail, Changes
<1>5. ASSUME NEW x \in Cases, AttachCase(c, x)
      PROVE  \E row \in Rows : /\ Changes(c, row)
                               /\ row.status = campaign[c].status
                               /\ row.deleted = campaign[c].deleted
  BY <1>5, BumpedRow DEF AttachCase, Changes
<1> QED
  BY <1>1, <1>2, <1>3, <1>4, <1>5

\* The row of a campaign whose member's decision is reopened.
LEMMA ReopenedRow ==
  ASSUME TypeOK, NEW e \in Emails, Reopen(e), NEW c \in Ids
  PROVE  IF Reopens(c, e)
         THEN /\ campaign'[c] \in Rows
              /\ campaign'[c].status = "investigating"
              /\ campaign'[c].revision = campaign[c].revision + 1
         ELSE campaign'[c] = campaign[c]
<1>1. CASE Reopens(c, e)
  <2>1. Live(c) /\ InBound(c) /\ "investigating" \in Statuses
    BY <1>1 DEF Reopens, Reopen, Statuses
  <2> DEFINE row == [Bumped(c) EXCEPT !.status = "investigating"]
  <2>2. campaign'[c] = row
    BY <1>1 DEF Reopen
  <2>3. /\ row \in Rows
        /\ row.status = "investigating"
        /\ row.revision = campaign[c].revision + 1
    BY <2>1, BumpedRowWith
  <2> HIDE DEF row
  <2> QED
    BY <1>1, <2>2, <2>3
<1>2. CASE ~Reopens(c, e)
  BY <1>2 DEF Reopen
<1> QED
  BY <1>1, <1>2

\* Revisions only grow, and a row keeps its content while they stay.
RevisionsGrow ==
  \A c \in Ids : campaign[c] # NoCampaign =>
    /\ campaign'[c] # NoCampaign
    /\ campaign'[c] = campaign[c] \/ campaign'[c].revision > campaign[c].revision

LEMMA ChangesGrow ==
  ASSUME TypeOK, NEW c \in Ids, NEW row \in Rows, Changes(c, row)
  PROVE  RevisionsGrow
BY NoRowAssumption DEF Changes, RevisionsGrow, TypeOK, Rows, Live

LEMMA NextRevisionsGrow == TypeOK /\ [Next]_vars => RevisionsGrow
<1> SUFFICES ASSUME TypeOK, [Next]_vars PROVE RevisionsGrow
  OBVIOUS
<1>1. CASE UNCHANGED campaign
  BY <1>1 DEF RevisionsGrow
<1>2. ASSUME NEW c \in Ids, NEW status \in Statuses, NEW emails \in SUBSET Emails,
             CreateCampaign(c, status, emails)
      PROVE  RevisionsGrow
  BY <1>2 DEF CreateCampaign, RevisionsGrow, TypeOK
<1>3. ASSUME NEW e \in Emails, Reopen(e)
      PROVE  RevisionsGrow
  BY <1>3, ReopenedRow, NoRowAssumption DEF RevisionsGrow, TypeOK, Rows, Reopens, Live
<1>4. ASSUME NEW c \in Ids, NEW row \in Rows, Changes(c, row)
      PROVE  RevisionsGrow
  BY <1>4, ChangesGrow
<1>5. ASSUME NEW made \in Conversions, NEW status \in Outcomes, Start(made, status)
      PROVE  RevisionsGrow
  BY <1>5, StartAdds DEF RevisionsGrow
<1> QED
  BY <1>1, <1>2, <1>3, <1>4, <1>5, ChangingActions
  DEF Next, Conversions, Outcomes, vars, OpenPage, DetachCase, AnalysisEnds, RetryAnalysis, Decide,
      CreateTask, UpdateTask, CreateReply, BeginSend, EndSend

----------------------------------------------------------------------------
(* Pages.                                                                  *)

LEMMA NextPagesArePast == TypeOK /\ PagesArePast /\ [Next]_vars => PagesArePast'
<1> SUFFICES ASSUME TypeOK, PagesArePast, [Next]_vars, NEW k \in Analysts,
                    page'[k] # NoPage
             PROVE  LET now == campaign'[page'[k].id]
                    IN /\ now # NoCampaign
                       /\ page'[k].row.revision <= now.revision
                       /\ page'[k].row.revision = now.revision => page'[k].row = now
  BY DEF PagesArePast
<1>1. TypeOK' /\ RevisionsGrow
  BY NextTypeOK, NextRevisionsGrow
<1>2. CASE page'[k] = page[k]
  <2>1. page[k] \in Pages /\ page[k].id \in Ids /\ page[k].row.revision \in Nat
    BY <1>2 DEF TypeOK, Pages, Rows
  <2> DEFINE id == page[k].id
  <2>2. /\ campaign[id] \in Rows
        /\ page[k].row.revision <= campaign[id].revision
        /\ page[k].row.revision = campaign[id].revision => page[k].row = campaign[id]
    BY <1>2, <2>1 DEF PagesArePast, TypeOK
  <2>3. campaign'[id] = campaign[id] \/ campaign'[id].revision > campaign[id].revision
    BY <1>1, <2>1, <2>2, NoRowAssumption DEF RevisionsGrow
  <2>4. campaign'[id] \in Rows
    BY <1>1, <2>1, <2>2, NoRowAssumption DEF RevisionsGrow, TypeOK
  <2> QED
    BY <1>2, <2>1, <2>2, <2>3, <2>4, NoRowAssumption DEF Rows
<1>3. ASSUME NEW j \in Analysts, NEW c \in Ids, OpenPage(j, c), page'[k] # page[k]
      PROVE  /\ campaign'[c] \in Rows
             /\ page'[k] = [id |-> c, row |-> campaign'[c]]
  BY <1>3 DEF OpenPage, Live, TypeOK
<1>4. CASE \E j \in Analysts, c \in Ids : OpenPage(j, c) /\ page'[k] # page[k]
  <2>1. PICK c \in Ids : /\ campaign'[c] \in Rows
                         /\ page'[k] = [id |-> c, row |-> campaign'[c]]
    BY <1>3, <1>4
  <2>2. page'[k].id = c /\ page'[k].row = campaign'[c]
    BY <2>1
  <2>3. campaign'[c] # NoCampaign /\ campaign'[c].revision \in Nat
    BY <2>1, NoRowAssumption DEF Rows
  <2> QED
    BY <2>2, <2>3
<1> QED
  BY <1>2, <1>4
  DEF Next, vars, UpdateCampaign, ArchiveCampaign, AddEmails, RemoveEmail,
      CreateCampaign, AttachCase, DetachCase, AnalysisEnds, RetryAnalysis, Decide,
      Reopen, CreateTask, UpdateTask, CreateReply, BeginSend, EndSend, Start

----------------------------------------------------------------------------
(* Closing a campaign.                                                     *)

\* Only create_campaign and update_campaign close a campaign, and both after
\* the guard saw the members it has then.
Guarded(x) ==
  /\ NothingOutstanding(x, members'[x])
  /\ UNCHANGED <<analysis, decision, task, drafts, sending>>
  /\ sealed'[x] = {e \in members'[x] : Decided(e)}

\* Whoever closes a campaign, or closes again one that was a closed case, is
\* guarded, unless it is a start.
LEMMA ClosingStep ==
  ASSUME TypeOK, [Next]_vars, NEW x \in Ids, Closed(x)',
         ~Closed(x) \/ x \in inherited \ inherited'
  PROVE  Guarded(x) \/ (x \in inherited' /\ sealed'[x] = {})
<1>1. ~(campaign'[x] = campaign[x] /\ (x \in inherited => x \in inherited'))
  BY DEF Closed, Live
<1>2. ASSUME NEW c \in Ids, NEW status \in Statuses, NEW emails \in SUBSET Emails,
             CreateCampaign(c, status, emails), c = x
      PROVE  Guarded(x)
  <2>1. status = "closed"
    BY <1>2, NewRowType DEF CreateCampaign, Closed, TypeOK
  <2>2. members'[x] = emails
    BY <1>2 DEF CreateCampaign, TypeOK
  <2> QED
    BY <1>2, <2>1, <2>2 DEF CreateCampaign, MayBecome, Seal, TypeOK, Guarded
<1>3. ASSUME NEW k \in Analysts, NEW c \in Ids, NEW status \in Statuses,
             UpdateCampaign(k, c, status), c = x
      PROVE  Guarded(x)
  <2>1. PICK row \in Rows : Changes(c, row) /\ row.status = status
    BY <1>3, ChangingActions
  <2>2. status = "closed"
    BY <1>3, <2>1 DEF Closed, Changes, TypeOK
  <2> QED
    BY <1>3, <2>2 DEF UpdateCampaign, MayBecome, Seal, TypeOK, Guarded
<1>4. ASSUME NEW c \in Ids, NEW row \in Rows, Changes(c, row), UNCHANGED inherited,
             \/ row.deleted
             \/ row.status # "closed"
             \/ row.status = campaign[c].status /\ row.deleted = campaign[c].deleted
      PROVE  FALSE
  <2>1. campaign'[x] # campaign[x]
    BY <1>1, <1>4
  <2>2. c = x /\ campaign'[x] = row
    BY <1>4, <2>1 DEF Changes, TypeOK
  <2>3. campaign'[x].status = "closed" /\ ~campaign'[x].deleted
    BY DEF Closed, Live
  <2>4. Closed(x)
    BY <1>4, <2>2, <2>3 DEF Changes, Closed, Live
  <2> QED
    BY <1>4, <2>4
<1>5. ASSUME NEW e \in Emails, Reopen(e)
      PROVE  FALSE
  <2>1. ~Reopens(x, e)
    BY <1>5, ReopenedRow DEF Closed
  <2> QED
    BY <1>1, <1>5, <2>1, ReopenedRow DEF Reopen
<1>6. ASSUME NEW c \in Ids, c # x,
             \/ \E k \in Analysts, status \in Statuses : UpdateCampaign(k, c, status)
             \/ \E status \in Statuses, emails \in SUBSET Emails :
                  CreateCampaign(c, status, emails)
      PROVE  FALSE
  BY <1>1, <1>6 DEF UpdateCampaign, CreateCampaign, Seal, TypeOK
<1>7. CASE UNCHANGED <<campaign, inherited>>
  BY <1>1, <1>7
<1>8. ASSUME NEW made \in Conversions, NEW status \in Outcomes, Start(made, status)
      PROVE  x \in inherited' /\ sealed'[x] = {}
  <2>1. NewRow("active").status = "active"
    BY DEF NewRow
  <2>2. campaign'[x] # NewRow("active")
    BY <2>1 DEF Closed
  <2>3. inherited \subseteq inherited'
    BY <1>8, StartAdds
  <2> QED
    BY <1>1, <1>8, <2>2, <2>3, StartAdds
<1>9. ASSUME NEW c \in Ids,
             \/ \E k \in Analysts :
                  \/ ArchiveCampaign(k, c)
                  \/ \E emails \in SUBSET Emails : AddEmails(k, c, emails)
                  \/ \E e \in Emails : RemoveEmail(k, c, e)
             \/ \E y \in Cases : AttachCase(c, y)
      PROVE  FALSE
  <2>1. UNCHANGED inherited
    BY <1>9 DEF ArchiveCampaign, AddEmails, RemoveEmail, AttachCase, history
  <2> QED
    BY <1>4, <1>9, <2>1, ChangingActions
<1> QED
  BY <1>2, <1>3, <1>5, <1>6, <1>7, <1>8, <1>9
  DEF Next, vars, history, OpenPage, DetachCase, AnalysisEnds, RetryAnalysis, Decide,
      CreateTask, UpdateTask, CreateReply, BeginSend, EndSend, Conversions, Outcomes

LEMMA NextNoCollectiveWork ==
  TypeOK /\ NoCollectiveWork /\ [Next]_vars => NoCollectiveWork'
<1> SUFFICES ASSUME TypeOK, NoCollectiveWork, [Next]_vars,
                    NEW x \in Ids \ inherited', Closed(x)', NEW u \in Tasks,
                    task'[u] # NoTask, task'[u].scope.campaign = x
             PROVE  ~task'[u].pending
  BY DEF NoCollectiveWork
<1>1. CASE ~Closed(x) \/ x \in inherited
  BY <1>1, ClosingStep DEF Guarded, NothingOutstanding, Concerns
<1>2. CASE Closed(x) /\ x \notin inherited /\ task'[u] = task[u]
  BY <1>2 DEF NoCollectiveWork
<1>3. ASSUME NEW t \in Tasks, NEW s \in Scopes, NEW pending \in BOOLEAN,
             CreateTask(t, s, pending), Closed(x), task'[u] # task[u]
      PROVE  FALSE
  <2>1. t = u /\ task'[u].scope = s
    BY <1>3 DEF CreateTask, TypeOK
  <2>2. s.campaign = x
    BY <2>1
  <2> QED
    BY <1>3, <2>2, NoIdAssumption DEF CreateTask, ScopeOpen, Closed
<1>4. ASSUME NEW t \in Tasks, NEW pending \in BOOLEAN, UpdateTask(t, pending),
             Closed(x), task'[u] # task[u]
      PROVE  FALSE
  <2>1. t = u /\ task[t] \in TaskRows /\ task'[t] = [task[t] EXCEPT !.pending = pending]
    BY <1>4 DEF UpdateTask, TypeOK
  <2>2. task'[u].scope = task[t].scope
    BY <2>1 DEF TaskRows
  <2>3. task[t].scope.campaign = x
    BY <2>2
  <2> QED
    BY <1>4, <2>3, NoIdAssumption DEF UpdateTask, ScopeOpen, Closed
<1>5. ASSUME NEW made \in Conversions, NEW status \in Outcomes, Start(made, status),
             Closed(x), x \notin inherited
      PROVE  ~task'[u].pending
  <2> DEFINE s == task[u].scope
  <2>1. /\ task[u] \in TaskRows /\ task[u] # NoTask /\ s \in Scopes
        /\ task'[u] = [task[u] EXCEPT !.scope = Moved(s, made)]
    BY <1>5 DEF Start, TypeOK, TaskRows
  <2>2. task'[u].scope = Moved(s, made) /\ task'[u].pending = task[u].pending
    BY <2>1 DEF TaskRows
  <2>3. campaign[x] # NoCampaign
    BY <1>5 DEF Closed, Live
  <2>4. s.campaign = x
    BY <1>5, <2>1, <2>2, <2>3, MovedScope
  <2> QED
    BY <1>5, <2>1, <2>2, <2>4 DEF NoCollectiveWork
<1> QED
  BY <1>1, <1>2, <1>3, <1>4, <1>5
  DEF Conversions, Outcomes, Next, vars, OpenPage, UpdateCampaign, ArchiveCampaign, AddEmails, RemoveEmail,
      CreateCampaign, AttachCase, DetachCase, AnalysisEnds, RetryAnalysis, Decide,
      Reopen, CreateReply, BeginSend, EndSend

LEMMA NextClosedStaysQualified ==
  TypeOK /\ ClosedStaysQualified /\ [Next]_vars => ClosedStaysQualified'
<1> SUFFICES ASSUME TypeOK, ClosedStaysQualified, [Next]_vars,
                    NEW x \in Ids, Closed(x)', NEW m \in sealed'[x]
             PROVE  m \in members'[x] /\ Decided(m)'
  BY DEF ClosedStaysQualified
<1>1. CASE ~Closed(x)
  BY <1>1, ClosingStep DEF Guarded, Decided
<1> SUFFICES ASSUME Closed(x) PROVE m \in members'[x] /\ Decided(m)'
  BY <1>1
<1>2. \A e \in sealed[x] : e \in members[x] /\ Decided(e)
  BY DEF ClosedStaysQualified
<1>3. CASE UNCHANGED <<members, sealed, decision>>
  BY <1>2, <1>3 DEF Decided
<1>4. ASSUME NEW c \in Ids,
             \/ \E k \in Analysts, status \in Statuses : UpdateCampaign(k, c, status)
             \/ \E status \in Statuses, emails \in SUBSET Emails :
                  CreateCampaign(c, status, emails)
      PROVE  m \in members'[x] /\ Decided(m)'
  <2>1. /\ members' \in [Ids -> SUBSET Emails]
        /\ c # x => members'[x] = members[x]
        /\ decision' = decision
    BY <1>4 DEF UpdateCampaign, CreateCampaign, TypeOK
  <2>2. \E status : Seal(c, status)
    BY <1>4 DEF UpdateCampaign, CreateCampaign
  <2>3. /\ c # x => sealed'[x] = sealed[x]
        /\ c = x => \A e \in sealed'[x] : e \in members'[x] /\ Decided(e)
    BY <2>1, <2>2, SealType DEF TypeOK
  <2> QED
    BY <1>2, <2>1, <2>3 DEF Decided
<1>5. ASSUME NEW k \in Analysts, NEW c \in Ids, NEW emails \in SUBSET Emails,
             AddEmails(k, c, emails)
      PROVE  m \in members'[x] /\ Decided(m)'
  BY <1>2, <1>5 DEF history, AddEmails, TypeOK, Decided
<1>6. ASSUME NEW k \in Analysts, NEW c \in Ids, NEW e \in Emails, RemoveEmail(k, c, e)
      PROVE  m \in members'[x] /\ Decided(m)'
  BY <1>2, <1>6 DEF RemoveEmail, TypeOK, Decided
<1>7. ASSUME NEW c \in Ids, NEW y \in Cases, AttachCase(c, y) \/ DetachCase(c, y)
      PROVE  m \in members'[x] /\ Decided(m)'
  BY <1>2, <1>7 DEF history, AttachCase, DetachCase, TypeOK, Decided
<1>8. ASSUME NEW e \in Emails, Decide(e)
      PROVE  m \in members'[x] /\ Decided(m)'
  BY <1>2, <1>8 DEF history, Decide, TypeOK, Decided
<1>9. ASSUME NEW e \in Emails, Reopen(e)
      PROVE  m \in members'[x] /\ Decided(m)'
  <2>1. sealed'[x] = sealed[x] /\ ~Reopens(x, e)
    BY <1>9, ReopenedRow DEF Reopen, Closed
  <2>2. m \in members[x] /\ Decided(m) /\ m # e
    BY <1>2, <2>1 DEF Reopens, Closed
  <2> QED
    BY <1>9, <2>2 DEF Reopen, Decided, TypeOK
<1>10. ASSUME NEW made \in Conversions, NEW status \in Outcomes, Start(made, status)
       PROVE  m \in members'[x] /\ Decided(m)'
  <2>1. campaign[x] # NoCampaign
    BY DEF Closed, Live
  <2>2. sealed'[x] = sealed[x] \/ sealed'[x] = {}
    BY <1>10, StartAdds
  <2>3. members[x] \subseteq members'[x] /\ decision' = decision
    BY <1>10, StartAdds DEF Start
  <2> QED
    BY <1>2, <2>2, <2>3 DEF Decided
<1> QED
  BY <1>3, <1>4, <1>5, <1>6, <1>7, <1>8, <1>9, <1>10
  DEF Conversions, Outcomes, Next, vars, history, OpenPage, ArchiveCampaign, AnalysisEnds, RetryAnalysis,
      CreateTask, UpdateTask, CreateReply, BeginSend, EndSend

----------------------------------------------------------------------------
(* The theorems.                                                           *)

LEMMA InitCampaignInv == Init => CampaignInv
<1> SUFFICES ASSUME Init PROVE CampaignInv
  OBVIOUS
<1>1. \A c \in Ids : ~Live(c)
  BY DEF Init, Live
<1> QED
  BY <1>1, InitTypeOK
  DEF Init, CampaignInv, NoCollectiveWork, ClosedStaysQualified, Closed, PagesArePast

THEOREM CampaignsCorrect == Spec => []CampaignInv
<1>1. CampaignInv /\ [Next]_vars => CampaignInv'
  BY NextTypeOK, NextPagesArePast, NextNoCollectiveWork, NextClosedStaysQualified
  DEF CampaignInv
<1> QED
  BY <1>1, InitCampaignInv, PTL DEF Spec

\* A closed campaign has no pending action of its own.
THEOREM ClosedHasNoWork == Spec => []NoCollectiveWork
<1>1. CampaignInv => NoCollectiveWork
  BY DEF CampaignInv
<1> QED
  BY <1>1, CampaignsCorrect, PTL

\* The members a closing found decided stay decided while it is closed.
THEOREM ClosedIsQualified == Spec => []ClosedStaysQualified
<1>1. CampaignInv => ClosedStaysQualified
  BY DEF CampaignInv
<1> QED
  BY <1>1, CampaignsCorrect, PTL

\* What a page with the current revision shows of the row is the row.
THEOREM PagesAreTrue == Spec => []CurrentPageIsTrue
<1>1. CampaignInv => CurrentPageIsTrue
  BY DEF CampaignInv, PagesArePast, CurrentPageIsTrue, HasCurrent
<1> QED
  BY <1>1, CampaignsCorrect, PTL

\* Whoever closes a campaign leaves nothing of it open.
THEOREM ClosingIsGuarded == Spec => ClosingFindsNothingOpen
<1> DEFINE Settles(c) ==
      /\ \A t \in Tasks : task[t] # NoTask /\ task[t].pending =>
           task[t].scope.campaign # c /\ task[t].scope.email \notin members'[c]
      /\ \A e \in members'[c] : analysis[e] = "failed" \/
                                (analysis[e] = "completed" /\ Decided(e))
      /\ \A s \in sending : s.campaign # c /\ s.email \notin members'[c]
<1>1. TypeOK /\ [Next]_vars =>
        \A c \in Ids : Closed(c)' /\ ~Closed(c) /\ c \notin inherited' => Settles(c)
  <2> SUFFICES ASSUME TypeOK, [Next]_vars, NEW c \in Ids, Closed(c)', ~Closed(c),
                      c \notin inherited'
               PROVE  Settles(c)
    OBVIOUS
  <2>1. NothingOutstanding(c, members'[c]) /\ members'[c] \subseteq Emails
    BY ClosingStep, NextTypeOK DEF TypeOK, Guarded
  <2>2. \A t \in Tasks : task[t] # NoTask => task[t].pending \in BOOLEAN
    BY DEF TypeOK, TaskRows
  <2> QED
    BY <2>1, <2>2 DEF NothingOutstanding, Concerns, Undecided, TypeOK
<1> QED
  BY <1>1, TypeCorrect, PTL DEF Spec, ClosingFindsNothingOpen

\* Only a start changes an archived campaign, and only by e-mails of its cases.
THEOREM ArchivesAreFinal == Spec => ArchivedIsFinal
<1> DEFINE Kept(c) ==
      /\ <<campaign[c], linked[c]>>' = <<campaign[c], linked[c]>>
      /\ members[c] \subseteq members'[c]
      /\ \A e \in members'[c] \ members[c] :
           CaseOf[e] \in linked[c] /\ CaseOf[e] \in converted' \ converted
<1>1. ASSUME TypeOK, [Next]_vars, NEW c \in Ids, campaign[c] # NoCampaign, ~Live(c)
      PROVE  Kept(c)
  <2>1. ASSUME UNCHANGED <<campaign[c], members[c], linked[c]>>
        PROVE  Kept(c)
    BY <2>1
  <2>2. ASSUME NEW e \in Emails, Reopen(e)
        PROVE  UNCHANGED <<campaign[c], members[c], linked[c]>>
    BY <1>1, <2>2, ReopenedRow DEF Reopens, Reopen
  <2>3. ASSUME NEW made \in Conversions, NEW status \in Outcomes, Start(made, status)
        PROVE  Kept(c)
    BY <1>1, <2>3, StartAdds DEF Start
  <2> HIDE DEF Kept
  <2> QED
    BY <1>1, <2>1, <2>2, <2>3
    DEF Next, vars, OpenPage, UpdateCampaign, ArchiveCampaign, AddEmails,
        RemoveEmail, CreateCampaign, AttachCase, DetachCase, AnalysisEnds,
        RetryAnalysis, Decide, CreateTask, UpdateTask, CreateReply,
        BeginSend, EndSend, TypeOK, Conversions, Outcomes
<1>2. TypeOK /\ [Next]_vars =>
        \A c \in Ids : campaign[c] # NoCampaign /\ ~Live(c) => Kept(c)
  BY <1>1
<1> QED
  BY <1>2, TypeCorrect, PTL DEF Spec, ArchivedIsFinal
=============================================================================
