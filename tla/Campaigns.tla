------------------------------- MODULE Campaigns -------------------------------
(***************************************************************************)
(* Campaigns: collections of e-mails that analysts follow up together      *)
(* (backend/investigation/collections.py), and the handlers of other files *)
(* that reach into them: decisions and their reopening, links of archived  *)
(* cases (investigations.py), follow-up actions and the replies being      *)
(* transmitted (workflows.py), analyses that fail and are retried          *)
(* (jobs.py, api.py).                                                      *)
(*                                                                         *)
(* A campaign is closed by a check over four tables, and every one of      *)
(* those is written by handlers that do not look at campaigns at all.      *)
(* Each handler is one BEGIN IMMEDIATE transaction, hence one action; what *)
(* is not in a transaction is the time an analyst keeps a page open.  And  *)
(* every start of the application converts the cases made since the last   *)
(* one: Start is that transaction as far as campaigns see it (what becomes *)
(* of a case and of its rows is the subject of CaseArchive).               *)
(*                                                                         *)
(* An analysis is "processing" while it is queued or running; a campaign   *)
(* is "active" also when it is "resolved", which no handler distinguishes. *)
(***************************************************************************)
EXTENDS Integers, FiniteSets

CONSTANTS
  Ids,           \* ids of campaigns
  Emails,        \* analyses
  Cases,         \* archived cases, none of which is converted yet
  CaseOf,        \* analyses.case_id
  Tasks,         \* ids of case_actions
  Analysts,      \* users, each with one page open
  MaxRevision,   \* bound: changes of one campaign
  MaxWork,       \* bound: actions, and what replies are drafted about
  NoCampaign, NoEmail, NoCase, NoTask, NoPage

ASSUME CaseOfAssumption == CaseOf \in [Emails -> Cases \cup {NoCase}]
ASSUME BoundsAssumption == MaxRevision \in Nat \ {0} /\ MaxWork \in Nat
ASSUME NoIdAssumption ==
  NoCampaign \notin Ids /\ NoEmail \notin Emails /\ NoCase \notin Cases

VARIABLES
  campaign,   \* rows of campaigns
  members,    \* campaign_analyses
  linked,     \* campaign_cases
  analysis,   \* analyses.status
  decision,   \* analyst_decisions: "none" when there is no row, or the latest
              \* one is a reopening
  task,       \* rows of case_actions
  drafts,     \* what reporter_replies are about: campaign and e-mail
  sending,    \* those of them with a reply in the state "sending"
  converted,  \* cases with a row in legacy_case_links
  page,       \* the campaign each analyst has open, as it was loaded
  sealed,     \* history: members the last closing found decided, still linked
  inherited   \* history: campaigns that are closed since a closed case became them

vars == <<campaign, members, linked, analysis, decision, task, drafts, sending,
          converted, page, sealed, inherited>>
history == <<sealed, inherited>>

Statuses == {"active", "investigating", "closed"}
Rows == [status : Statuses, revision : 1..MaxRevision, deleted : BOOLEAN]

\* Replies and actions are about a campaign, an e-mail, or an e-mail of a
\* campaign; those the routes of a case made name the case as well, or alone.
Scopes == [campaign : Ids \cup {NoCampaign}, email : Emails \cup {NoEmail},
           case : Cases \cup {NoCase}]
            \ {[campaign |-> NoCampaign, email |-> NoEmail, case |-> NoCase]}

TaskRows == [scope : Scopes, pending : BOOLEAN]
Pages == [id : Ids, row : Rows]

ASSUME NoRowAssumption ==
  NoCampaign \notin Rows /\ NoTask \notin TaskRows /\ NoPage \notin Pages

Init ==
  /\ campaign = [c \in Ids |-> NoCampaign]
  /\ members = [c \in Ids |-> {}]
  /\ linked = [c \in Ids |-> {}]
  /\ analysis = [e \in Emails |-> "processing"]
  /\ decision = [e \in Emails |-> "none"]
  /\ task = [t \in Tasks |-> NoTask]
  /\ drafts = {}
  /\ sending = {}
  /\ converted = {}
  /\ page = [k \in Analysts |-> NoPage]
  /\ sealed = [c \in Ids |-> {}]
  /\ inherited = {}

----------------------------------------------------------------------------
(* What the handlers read.                                                 *)

\* campaign(): archived campaigns are not found.
Live(c) == campaign[c] # NoCampaign /\ ~campaign[c].deleted

\* The latest decision is an active one.
Decided(e) == decision[e] = "decided"

\* A scope that guard_campaign counts: of the campaign, or of a member of it.
Concerns(s, c, emails) == s.campaign = c \/ s.email \in emails

\* Analyses guard_campaign counts as undecided; a failed one is not.
Undecided(e) ==
  analysis[e] = "processing" \/ (analysis[e] = "completed" /\ ~Decided(e))

\* guard_campaign: nothing pending, undecided or being sent, for campaign c
\* with these members.
NothingOutstanding(c, emails) ==
  /\ \A t \in Tasks :
       task[t] # NoTask /\ Concerns(task[t].scope, c, emails) => ~task[t].pending
  /\ \A e \in emails : ~Undecided(e)
  /\ \A s \in sending : ~Concerns(s, c, emails)

\* The guard as create_campaign and update_campaign apply it.
MayBecome(c, status, emails) == status = "closed" => NothingOutstanding(c, emails)

\* data.revision == row["revision"], for the page of k.
HasCurrent(k, c) ==
  /\ page[k] # NoPage
  /\ page[k].id = c
  /\ page[k].row.revision = campaign[c].revision

NotBumped(c) == campaign[c]

\* revision=revision+1
Bumped(c) == [campaign[c] EXCEPT !.revision = @ + 1]

\* Bound: there may be one more action or reply.
Room ==
  Cardinality(drafts) + Cardinality({t \in Tasks : task[t] # NoTask}) < MaxWork

\* Bound: the campaign can be changed once more.
InBound(c) == campaign[c].revision < MaxRevision

\* A request decides on the status: what a closing finds is recorded.
Seal(c, status) ==
  /\ sealed' = [sealed EXCEPT ![c] =
                 IF status # "closed" THEN {}
                 ELSE {e \in members'[c] : Decided(e)}]
  /\ inherited' = inherited \ {c}

AnyScopeOpen(s) == s.campaign # NoCampaign => Live(s.campaign)

\* workflow_scope and the test that follows it in the handlers of actions: a
\* campaign must exist and not be closed; an e-mail named with it, a member.
\* A case next to either is not looked at, and alone it may not be closed,
\* which is left to CaseArchive.
ScopeExists(s) ==
  s.campaign # NoCampaign =>
    /\ Live(s.campaign)
    /\ s.email # NoEmail => s.email \in members[s.campaign]

ScopeOpen(s) ==
  s.campaign # NoCampaign => Live(s.campaign) /\ campaign[s.campaign].status # "closed"

----------------------------------------------------------------------------
(* Campaigns and their members.                                            *)

\* GET /campaigns/{id}
OpenPage(k, c) ==
  /\ Live(c)
  /\ page' = [page EXCEPT ![k] = [id |-> c, row |-> campaign[c]]]
  /\ UNCHANGED <<campaign, members, linked, analysis, decision, task, drafts,
                 sending, converted, history>>

\* The defaults of the table.
NewRow(status) == [status |-> status, revision |-> 1, deleted |-> FALSE]

\* POST /campaigns: inserted as active, e-mails linked, then guarded.
CreateCampaign(c, status, emails) ==
  /\ campaign[c] = NoCampaign
  /\ MayBecome(c, status, emails)
  /\ campaign' = [campaign EXCEPT ![c] = NewRow(status)]
  /\ members' = [members EXCEPT ![c] = emails]
  /\ Seal(c, status)
  /\ UNCHANGED <<linked, analysis, decision, task, drafts, sending, converted, page>>

\* PUT /campaigns/{id}: guarded whenever the status sent is "closed".
UpdateCampaign(k, c, status) ==
  /\ Live(c)
  /\ HasCurrent(k, c)
  /\ InBound(c)
  /\ MayBecome(c, status, members[c])
  /\ campaign' = [campaign EXCEPT ![c] = [Bumped(c) EXCEPT !.status = status]]
  /\ UNCHANGED <<members, linked, analysis, decision, task, drafts, sending,
                 converted, page>>
  /\ Seal(c, status)

\* DELETE /campaigns/{id}: a tombstone.
ArchiveCampaign(k, c) ==
  /\ Live(c)
  /\ HasCurrent(k, c)
  /\ InBound(c)
  /\ NothingOutstanding(c, members[c])
  /\ campaign' = [campaign EXCEPT ![c] = [Bumped(c) EXCEPT !.deleted = TRUE]]
  /\ UNCHANGED <<members, linked, analysis, decision, task, drafts, sending,
                 converted, page, history>>

\* POST /campaigns/{id}/emails
AddEmails(k, c, emails) ==
  /\ Live(c)
  /\ HasCurrent(k, c)
  /\ InBound(c)
  /\ campaign[c].status # "closed"
  /\ members' = [members EXCEPT ![c] = @ \cup emails]
  /\ campaign' = [campaign EXCEPT ![c] = Bumped(c)]
  /\ UNCHANGED <<linked, analysis, decision, task, drafts, sending, converted,
                 page, history>>

\* DELETE /campaigns/{id}/emails/{analysis_id}
RemoveEmail(k, c, e) ==
  /\ Live(c)
  /\ HasCurrent(k, c)
  /\ InBound(c)
  /\ campaign[c].status # "closed"
  /\ members' = [members EXCEPT ![c] = @ \ {e}]
  /\ campaign' = [campaign EXCEPT ![c] = Bumped(c)]
  /\ sealed' = [sealed EXCEPT ![c] = @ \ {e}]
  /\ UNCHANGED <<linked, analysis, decision, task, drafts, sending, converted,
                 page, inherited>>

\* The analyses of an archived case.
EmailsOf(x) == {e \in Emails : CaseOf[e] = x}

\* PUT /campaigns/{id}/cases/{case_id}: no revision, and no look at status;
\* a case that is linked already is left alone.
AttachCase(c, x) ==
  /\ Live(c)
  /\ InBound(c)
  /\ x \notin linked[c]
  /\ linked' = [linked EXCEPT ![c] = @ \cup {x}]
  /\ members' = [members EXCEPT ![c] = @ \cup EmailsOf(x)]
  /\ campaign' = [campaign EXCEPT ![c] = Bumped(c)]
  /\ UNCHANGED <<analysis, decision, task, drafts, sending, converted, page,
                 history>>

\* DELETE /campaigns/{id}/cases/{case_id}: the revision stays.
DetachCase(c, x) ==
  /\ Live(c)
  /\ x \in linked[c]
  /\ linked' = [linked EXCEPT ![c] = @ \ {x}]
  /\ members' = [members EXCEPT ![c] = @ \ EmailsOf(x)]
  /\ sealed' = [sealed EXCEPT ![c] = @ \ EmailsOf(x)]
  /\ UNCHANGED <<campaign, analysis, decision, task, drafts, sending, converted,
                 page, inherited>>

----------------------------------------------------------------------------
(* Members: analyses and decisions.                                        *)

\* The worker stores a document or a failure.
AnalysisEnds(e, status) ==
  /\ analysis[e] = "processing"
  /\ analysis' = [analysis EXCEPT ![e] = status]
  /\ UNCHANGED <<campaign, members, linked, decision, task, drafts, sending,
                 converted, page, history>>

\* POST /analyses/{id}/retry
RetryAnalysis(e) ==
  /\ analysis[e] = "failed"
  /\ analysis' = [analysis EXCEPT ![e] = "processing"]
  /\ UNCHANGED <<campaign, members, linked, decision, task, drafts, sending,
                 converted, page, history>>

\* PUT /analyses/{id}/decision
Decide(e) ==
  /\ decision' = [decision EXCEPT ![e] = "decided"]
  /\ UNCHANGED <<campaign, members, linked, analysis, task, drafts, sending,
                 converted, page, history>>

ReopensNothing(c, e) == FALSE

ReopensArchived(c, e) == campaign[c] # NoCampaign /\ e \in members[c]

\* The campaigns that a reopened decision puts back under investigation.
Reopens(c, e) == Live(c) /\ e \in members[c]

\* POST /analyses/{id}/decision/reopen
Reopen(e) ==
  /\ Decided(e)
  /\ \A c \in Ids : Reopens(c, e) => InBound(c)
  /\ decision' = [decision EXCEPT ![e] = "none"]
  /\ campaign' = [c \in Ids |->
                    IF Reopens(c, e)
                    THEN [Bumped(c) EXCEPT !.status = "investigating"]
                    ELSE campaign[c]]
  /\ sealed' = [c \in Ids |-> IF Reopens(c, e) THEN {} ELSE sealed[c]]
  /\ inherited' = {c \in inherited : ~Reopens(c, e)}
  /\ UNCHANGED <<members, linked, analysis, task, drafts, sending, converted, page>>

----------------------------------------------------------------------------
(* Actions and replies.                                                    *)

\* create_action
CreateTask(t, s, pending) ==
  /\ task[t] = NoTask
  /\ Room
  /\ ScopeExists(s)
  /\ ScopeOpen(s)
  /\ task' = [task EXCEPT ![t] = [scope |-> s, pending |-> pending]]
  /\ UNCHANGED <<campaign, members, linked, analysis, decision, drafts, sending,
                 converted, page, history>>

\* update_action, sent with the revision of the row.
UpdateTask(t, pending) ==
  /\ task[t] # NoTask
  /\ ScopeExists(task[t].scope)
  /\ ScopeOpen(task[t].scope)
  /\ task' = [task EXCEPT ![t].pending = pending]
  /\ UNCHANGED <<campaign, members, linked, analysis, decision, drafts, sending,
                 converted, page, history>>

\* create_reply: a closed campaign does not refuse drafts.
CreateReply(s) ==
  /\ s \notin drafts
  /\ Room
  /\ ScopeExists(s)
  /\ s.case # NoCase /\ s.email # NoEmail => CaseOf[s.email] = s.case
  /\ drafts' = drafts \cup {s}
  /\ UNCHANGED <<campaign, members, linked, analysis, decision, task, sending,
                 converted, page, history>>

\* send_reply, up to the transport call: only the e-mail's decision is read.
BeginSend(s) ==
  /\ s \in drafts \ sending
  /\ s.email # NoEmail => Decided(s.email)
  /\ sending' = sending \cup {s}
  /\ UNCHANGED <<campaign, members, linked, analysis, decision, task, drafts,
                 converted, page, history>>

\* The result is stored, or an analyst reconciles the reply.
EndSend(s) ==
  /\ s \in sending
  /\ sending' = sending \ {s}
  /\ UNCHANGED <<campaign, members, linked, analysis, decision, task, drafts,
                 converted, page, history>>

----------------------------------------------------------------------------
(* Starts.                                                                 *)

ToConvert == Cases \ converted

\* What meaningful_legacy_case finds in these tables; it may also find notes,
\* intelligence, or that somebody edited the case.
HasWork(x) ==
  \/ \E t \in Tasks : task[t] # NoTask /\ task[t].scope.case = x
  \/ \E s \in drafts : s.case = x /\ s.email = NoEmail

\* UPDATE case_actions SET campaign_id=? WHERE case_id=?
Moved(s, made) ==
  IF s.case \in ToConvert /\ made[s.case] # NoCampaign
  THEN [s EXCEPT !.campaign = made[s.case]] ELSE s

\* UPDATE reporter_replies ... WHERE case_id=? AND analysis_id IS NULL
MovedReply(s, made) == IF s.email = NoEmail THEN Moved(s, made) ELSE s

\* migrate_legacy: made[x] is the campaign x becomes, with the status of the
\* case; the campaigns linked to x get its e-mails as well, with no look at
\* deleted_at or revision.  With nothing to convert a start changes nothing.
Start(made, status) ==
  LET new == {made[x] : x \in ToConvert} \ {NoCampaign} IN
  /\ ToConvert # {}
  /\ \A x \in ToConvert : HasWork(x) => made[x] # NoCampaign
  /\ \A c \in new : campaign[c] = NoCampaign
  /\ \A x, y \in ToConvert : made[x] = made[y] /\ made[x] # NoCampaign => x = y
  /\ converted' = Cases
  /\ campaign' = [c \in Ids |-> IF c \in new THEN NewRow(status[c]) ELSE campaign[c]]
  /\ members' = [c \in Ids |->
       members[c] \cup {e \in Emails : /\ CaseOf[e] \in ToConvert
                                       /\ \/ CaseOf[e] \in linked[c]
                                          \/ made[CaseOf[e]] = c}]
  /\ task' = [t \in Tasks |->
       IF task[t] = NoTask THEN NoTask
       ELSE [task[t] EXCEPT !.scope = Moved(@, made)]]
  /\ drafts' = {MovedReply(s, made) : s \in drafts}
  /\ sending' = {MovedReply(s, made) : s \in sending}
  /\ sealed' = [c \in Ids |-> IF c \in new THEN {} ELSE sealed[c]]
  /\ inherited' = inherited \cup {c \in new : status[c] = "closed"}
  /\ UNCHANGED <<linked, analysis, decision, page>>

Next ==
  \/ \E made \in [ToConvert -> Ids \cup {NoCampaign}],
        status \in [Ids -> {"active", "closed"}] : Start(made, status)
  \/ \E k \in Analysts, c \in Ids :
       \/ OpenPage(k, c)
       \/ \E status \in Statuses : UpdateCampaign(k, c, status)
       \/ ArchiveCampaign(k, c)
       \/ \E emails \in SUBSET Emails \ {{}} : AddEmails(k, c, emails)
       \/ \E e \in Emails : RemoveEmail(k, c, e)
  \/ \E c \in Ids :
       \/ \E status \in Statuses, emails \in SUBSET Emails :
            CreateCampaign(c, status, emails)
       \/ \E x \in Cases : AttachCase(c, x) \/ DetachCase(c, x)
  \/ \E e \in Emails :
       \/ \E status \in {"completed", "failed"} : AnalysisEnds(e, status)
       \/ RetryAnalysis(e) \/ Decide(e) \/ Reopen(e)
  \/ \E t \in Tasks, pending \in BOOLEAN :
       \/ \E s \in Scopes : CreateTask(t, s, pending)
       \/ UpdateTask(t, pending)
  \/ \E s \in Scopes : CreateReply(s) \/ BeginSend(s) \/ EndSend(s)

Spec == Init /\ [][Next]_vars

----------------------------------------------------------------------------
(* Properties.                                                             *)

\* The tables, the pages and the history.
TypeOK ==
  /\ campaign \in [Ids -> Rows \cup {NoCampaign}]
  /\ members \in [Ids -> SUBSET Emails]
  /\ linked \in [Ids -> SUBSET Cases]
  /\ analysis \in [Emails -> {"processing", "completed", "failed"}]
  /\ decision \in [Emails -> {"none", "decided"}]
  /\ task \in [Tasks -> TaskRows \cup {NoTask}]
  /\ drafts \subseteq Scopes
  /\ sending \subseteq drafts
  /\ converted \subseteq Cases
  /\ page \in [Analysts -> Pages \cup {NoPage}]
  /\ sealed \in [Ids -> SUBSET Emails]
  /\ inherited \subseteq Ids

Closed(c) == Live(c) /\ campaign[c].status = "closed"

\* "A closed campaign cannot receive new or changed collective actions"
\* (docs/folio-workflows.md): once a request has closed a campaign none of its
\* own actions is pending, whatever is created, reopened, edited or converted
\* since.  (One that a start made of a closed case comes with the actions of
\* the case, pending or not.)
NoCollectiveWork ==
  \A c \in Ids \ inherited : Closed(c) =>
    \A t \in Tasks :
      task[t] # NoTask /\ task[t].scope.campaign = c => ~task[t].pending

\* "Reopening a member decision reopens its campaigns": the e-mails a closing
\* found decided are decided for as long as the campaign is closed.
ClosedStaysQualified ==
  \A c \in Ids : Closed(c) => \A e \in sealed[c] : e \in members[c] /\ Decided(e)

\* A page that has the current revision shows the current status: no update
\* an analyst sends from it overwrites a closing or a reopening unseen.
CurrentPageIsTrue ==
  \A k \in Analysts : \A c \in Ids :
    HasCurrent(k, c) => page[k].row = campaign[c]

\* "Closing a campaign requires no collective pending action, no
\* queued/running member, an active analyst decision on each completed member
\* and no related reply still transmitting" (docs/EMAIL_CAMPAIGNS.md), for
\* a campaign that is closed as it is created too, unless it was a closed case.
ClosingFindsNothingOpen ==
  [][\A c \in Ids : Closed(c)' /\ ~Closed(c) /\ c \notin inherited' =>
       /\ \A t \in Tasks : task[t] # NoTask /\ task[t].pending =>
            task[t].scope.campaign # c /\ task[t].scope.email \notin members'[c]
       /\ \A e \in members'[c] : analysis[e] = "failed" \/
                                 (analysis[e] = "completed" /\ Decided(e))
       /\ \A s \in sending : s.campaign # c /\ s.email \notin members'[c]]_vars

\* "The DELETE route archives a campaign without deleting relationships"
\* (docs/EMAIL_CAMPAIGNS.md), and no handler edits, reopens or links it any
\* more; only a start may still add e-mails, those of a linked case that it
\* converts.
ArchivedIsFinal ==
  [][\A c \in Ids : campaign[c] # NoCampaign /\ ~Live(c) =>
       /\ <<campaign[c], linked[c]>>' = <<campaign[c], linked[c]>>
       /\ members[c] \subseteq members'[c]
       /\ \A e \in members'[c] \ members[c] :
            CaseOf[e] \in linked[c] /\ CaseOf[e] \in converted' \ converted]_vars

\* "Campaigns, memberships, actions, drafts and intelligence use monotonic
\* revisions" (docs/folio-workflows.md): whoever changes the members of a
\* campaign moves its revision, so that a page loaded before is refused.
MembersAreVersioned ==
  [][\A c \in Ids : Live(c) /\ members'[c] # members[c] =>
       campaign'[c].revision > campaign[c].revision]_vars
=============================================================================
