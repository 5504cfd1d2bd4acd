------------------------------ MODULE CaseArchive ------------------------------
(***************************************************************************)
(* Archived cases and their conversion (backend/investigation/             *)
(* collections.py, migrate_legacy).  Cases are what the published version  *)
(* grouped e-mails in; this version groups them in campaigns.  Every start *)
(* of the application converts, in one transaction, the cases that have no *)
(* row in legacy_case_links yet: into a campaign, or into nothing when the *)
(* case was made automatically for one e-mail and nobody worked in it.     *)
(* The case routes stay for deprecated clients, so that cases are made,    *)
(* closed and worked in between two starts too, next to the campaigns.     *)
(*                                                                         *)
(* Each handler is one transaction, hence one action; a start that fails   *)
(* is rolled back, hence none.  Rows that agree in all columns kept here   *)
(* count as one.                                                           *)
(***************************************************************************)
EXTENDS Integers, FiniteSets

CONSTANTS
  Emails,        \* analyses
  NoEmail,
  MaxCases,      \* bound: cases.id
  MaxCampaigns,  \* bound: campaigns.id
  MaxRecords,    \* bound: rows of notes, case_actions, replies, intelligence
  MaxCalls       \* bound: requests that change something

ASSUME NoEmailAssumption == NoEmail \notin Emails
ASSUME BoundsAssumption ==
  /\ MaxCases \in Nat /\ MaxCampaigns \in Nat
  /\ MaxRecords \in Nat /\ MaxCalls \in Nat

VARIABLES
  installed,    \* this version has been started on the database
  cases,        \* rows of cases
  caseOf,       \* analyses.case_id
  outstanding,  \* analyses queued, running, or completed without a decision
  campaigns,    \* campaigns.status, and deleted_at
  linked,       \* campaign_cases
  members,      \* campaign_analyses
  links,        \* legacy_case_links
  calls,        \* requests so far
  records       \* events, notes, case_actions, reporter_replies and
                \* intelligence_links, with the campaigns they are in

vars == <<installed, cases, caseOf, outstanding, campaigns, linked, members,
          links, calls, records>>
grouping == <<campaigns, linked, members>>

CaseIds == 1..MaxCases
CampaignIds == 1..MaxCampaigns
NoCase == 0
NotReceived == -1
NoCampaign == 0

\* automatic: title, description, priority, owner and revision are those of a
\* case made for one e-mail.
CaseRows == [status : {"none", "open", "closed"}, automatic : BOOLEAN]
Missing == [status |-> "none", automatic |-> FALSE]
Links == [campaign : CampaignIds \cup {NoCampaign}, email : Emails \cup {NoEmail}]
Unconverted == [campaign |-> -1, email |-> NoEmail]

\* pending: an action to do, a reply being sent.  kept: history, it was
\* converted.
Records == [kind : {"event", "note", "action", "reply", "intelligence"},
            case : CaseIds \cup {NoCase}, email : Emails \cup {NoEmail},
            campaigns : SUBSET CampaignIds, pending : BOOLEAN, kept : BOOLEAN]

Row(kind, x, c, e, pending) ==
  [kind |-> kind, case |-> x, email |-> e,
   campaigns |-> {c} \ {NoCampaign}, pending |-> pending, kept |-> FALSE]

Init ==
  /\ installed = FALSE
  /\ cases = [x \in CaseIds |-> Missing]
  /\ caseOf = [e \in Emails |-> NotReceived]
  /\ outstanding = {}
  /\ campaigns = [c \in CampaignIds |-> "none"]
  /\ linked = [c \in CampaignIds |-> {}]
  /\ members = [c \in CampaignIds |-> {}]
  /\ links = [x \in CaseIds |-> Unconverted]
  /\ calls = 0
  /\ records = {}

----------------------------------------------------------------------------
(* What the handlers read and write.                                       *)

CaseExists(x) == cases[x].status # "none"
Received(e) == caseOf[e] # NotReceived
EmailsOf(x) == {e \in Emails : caseOf[e] = x}

\* campaign(): archived campaigns are not found.
Live(c) == campaigns[c] \in {"open", "closed"}

\* rowids: the first that was never used.
NextCase(x) == ~CaseExists(x) /\ \A y \in 1..x - 1 : CaseExists(y)
Made == {c \in CampaignIds : campaigns[c] # "none"}

Work == {r \in records : r.kind # "event"}
Room == Cardinality(Work) < MaxRecords

\* audit, for a case that is to be converted (the events of others are not
\* read again): the event is about an e-mail when it is the analysis, or when
\* the action or the reply is, and it also goes to these campaigns.
Audited(rows, x, in, e) ==
  rows \cup {[Row("event", y, NoCampaign, e, FALSE) EXCEPT !.campaigns = in] :
              y \in {z \in {x} \cap CaseIds : links[z] = Unconverted}}

\* guard_closure.
CaseMayClose(x) ==
  /\ \A r \in records : r.case = x => ~r.pending
  /\ EmailsOf(x) \cap outstanding = {}

\* guard_campaign, for a campaign with these members.
CampaignMayClose(c, emails) ==
  /\ \A r \in records : c \in r.campaigns \/ r.email \in emails => ~r.pending
  /\ emails \cap outstanding = {}

\* workflow_scope and the foreign keys: a campaign hides the case, and so does
\* an e-mail.
ScopeFound(x, c, e) ==
  /\ x # NoCase => CaseExists(x)
  /\ e # NoEmail => Received(e)
  /\ c # NoCampaign => Live(c) /\ (e # NoEmail => e \in members[c])
  /\ x # NoCase \/ c # NoCampaign \/ e # NoEmail

ScopeClosed(x, c, e) ==
  \/ c # NoCampaign /\ campaigns[c] = "closed"
  \/ c = NoCampaign /\ e = NoEmail /\ cases[x].status = "closed"

\* The campaign column of an action or a reply.
CampaignOf(r) ==
  IF r.campaigns = {} THEN NoCampaign ELSE CHOOSE c \in r.campaigns : TRUE

----------------------------------------------------------------------------
(* The published version (external): the database before the first start.  *)

\* An upload makes a case of its own, or one that an analyst titles.
OldCase(x, e, automatic) ==
  /\ ~installed /\ NextCase(x) /\ ~Received(e)
  /\ cases' = [cases EXCEPT ![x] = [status |-> "open", automatic |-> automatic]]
  /\ caseOf' = [caseOf EXCEPT ![e] = x]
  /\ records' = Audited(records, x, {}, NoEmail)
  /\ UNCHANGED <<installed, outstanding, grouping, links>>

OldWork(x, kind, pending) ==
  /\ ~installed /\ CaseExists(x) /\ cases[x].status = "open" /\ Room
  /\ pending => kind = "action"
  /\ records' = Audited(records \cup {Row(kind, x, NoCampaign, NoEmail, pending)},
                        x, {}, NoEmail)
  /\ UNCHANGED <<installed, cases, caseOf, outstanding, grouping, links>>

OldClose(x) ==
  /\ ~installed /\ cases[x].status = "open" /\ CaseMayClose(x)
  /\ cases' = [cases EXCEPT ![x] = [status |-> "closed", automatic |-> FALSE]]
  /\ UNCHANGED <<installed, caseOf, outstanding, grouping, links, records>>

\* A correlation: campaigns had cases, and no e-mails.
OldCampaign(x) ==
  /\ ~installed /\ CaseExists(x) /\ Made = {} /\ 1 \in CampaignIds
  /\ campaigns' = [campaigns EXCEPT ![1] = "open"]
  /\ linked' = [linked EXCEPT ![1] = {x}]
  /\ UNCHANGED <<installed, cases, caseOf, outstanding, members, links, records>>

----------------------------------------------------------------------------
(* The conversion.                                                         *)

IgnoresContext(x) == ~(cases[x].automatic /\ Cardinality(EmailsOf(x)) = 1)

\* meaningful_legacy_case: not automatic, or with a note, an action, a reply
\* about the case or intelligence.
Meaningful(x) ==
  \/ ~(cases[x].automatic /\ Cardinality(EmailsOf(x)) = 1)
  \/ \E r \in records :
       /\ r.case = x /\ r.kind # "event"
       /\ r.kind = "reply" => r.email = NoEmail

\* The cases without a row in legacy_case_links.
ToConvert == {x \in CaseIds : CaseExists(x) /\ links[x] = Unconverted}

\* The id of the campaign a case becomes, in the order of the cases.
CampaignFor(x) ==
  IF Meaningful(x)
  THEN Cardinality(Made) + Cardinality({y \in ToConvert : Meaningful(y) /\ y <= x})
  ELSE NoCampaign

\* emails[0]["id"] if len(emails) == 1
OnlyEmail(x) ==
  IF Cardinality(EmailsOf(x)) = 1 THEN CHOOSE e \in Emails : e \in EmailsOf(x)
                                  ELSE NoEmail

\* The campaigns that get what the case holds.
Memberships(x) ==
  {c \in CampaignIds : x \in linked[c] \/ c = CampaignFor(x)}

\* A faulty projection, with an e-mail for the events of every case that has
\* one.
FirstEmailRow(r) ==
  LET x == r.case  c == CampaignFor(x) IN
    IF x \notin ToConvert THEN r
    ELSE [r EXCEPT !.kept = TRUE,
            !.email = IF r.kind = "event" /\ EmailsOf(x) # {}
                      THEN CHOOSE e \in Emails : e \in EmailsOf(x) ELSE @,
            !.campaigns =
               CASE r.kind = "event" -> @ \cup Memberships(x)
                 [] c = NoCampaign -> @
                 [] r.kind = "reply" /\ r.email # NoEmail -> @
                 [] r.kind = "intelligence" /\ @ # {} -> @
                 [] OTHER -> {c}]

\* What becomes of a row: a note is copied, an event joins and is about the
\* only e-mail of the case from now on, and an action, a reply about the case
\* or intelligence without a campaign is assigned.
Converted(r) ==
  LET x == r.case  c == CampaignFor(x) IN
    IF x \notin ToConvert THEN r
    ELSE [r EXCEPT !.kept = TRUE,
            !.email = IF r.kind = "event" /\ OnlyEmail(x) # NoEmail
                      THEN OnlyEmail(x) ELSE @,
            !.campaigns =
               CASE r.kind = "event" -> @ \cup Memberships(x)
                 [] c = NoCampaign -> @
                 [] r.kind = "reply" /\ r.email # NoEmail -> @
                 [] r.kind = "intelligence" /\ @ # {} -> @
                 [] OTHER -> {c}]

\* initialize_collections.
Start ==
  /\ \A x \in ToConvert : CampaignFor(x) <= MaxCampaigns
  /\ installed' = TRUE
  /\ campaigns' = [c \in CampaignIds |->
       IF \E x \in ToConvert : CampaignFor(x) = c
       THEN cases[CHOOSE x \in ToConvert : CampaignFor(x) = c].status
       ELSE campaigns[c]]
  /\ links' = [x \in CaseIds |->
       IF x \in ToConvert
       THEN [campaign |-> CampaignFor(x), email |-> OnlyEmail(x)] ELSE links[x]]
  /\ members' = [c \in CampaignIds |->
       members[c] \cup {e \in Emails : \E x \in ToConvert :
                          caseOf[e] = x /\ c \in Memberships(x)}]
  /\ records' = {Converted(r) : r \in records}
  /\ UNCHANGED <<cases, caseOf, outstanding, linked>>

----------------------------------------------------------------------------
(* The routes of cases.                                                    *)

\* POST /cases
CreateCase(x, status) ==
  /\ installed /\ NextCase(x)
  /\ cases' = [cases EXCEPT ![x] = [status |-> status, automatic |-> FALSE]]
  /\ records' = Audited(records, x, {}, NoEmail)
  /\ UNCHANGED <<installed, caseOf, outstanding, grouping, links>>

\* PUT /cases/{id}
UpdateCase(x, status) ==
  /\ installed /\ CaseExists(x)
  /\ status = "closed" /\ cases[x].status # "closed" => CaseMayClose(x)
  /\ cases' = [cases EXCEPT ![x] = [status |-> status, automatic |-> FALSE]]
  /\ records' = Audited(records, x, {}, NoEmail)
  /\ UNCHANGED <<installed, caseOf, outstanding, grouping, links>>

\* POST /cases/{id}/notes
AddNote(x) ==
  /\ installed /\ CaseExists(x) /\ Room
  /\ records' = Audited(records \cup {Row("note", x, NoCampaign, NoEmail, FALSE)},
                        x, {}, NoEmail)
  /\ UNCHANGED <<installed, cases, caseOf, outstanding, grouping, links>>

\* POST /analyses, and /cases/{id}/analyses: a closed case takes it too.
Upload(e, x) ==
  /\ installed /\ ~Received(e)
  /\ x # NoCase => CaseExists(x)
  /\ caseOf' = [caseOf EXCEPT ![e] = x]
  /\ outstanding' = outstanding \cup {e}
  /\ records' = Audited(records, x, {}, e)
  /\ UNCHANGED <<installed, cases, grouping, links>>

\* create_action: the route of a case also takes a campaign and an e-mail.
CreateAction(x, c, e, pending) ==
  /\ installed /\ Room
  /\ ScopeFound(x, c, e) /\ ~ScopeClosed(x, c, e)
  /\ LET r == Row("action", x, c, e, pending) IN
       records' = Audited(records \cup {r}, x, r.campaigns, e)
  /\ UNCHANGED <<installed, cases, caseOf, outstanding, grouping, links>>

\* update_action
UpdateAction(r, pending) ==
  /\ installed /\ r.kind = "action"
  /\ ScopeFound(r.case, CampaignOf(r), r.email)
  /\ ~ScopeClosed(r.case, CampaignOf(r), r.email)
  /\ records' = Audited((records \ {r}) \cup {[r EXCEPT !.pending = pending]},
                        r.case, r.campaigns, r.email)
  /\ UNCHANGED <<installed, cases, caseOf, outstanding, grouping, links>>

\* create_reply
CreateReply(x, c, e) ==
  /\ installed /\ Room
  /\ ScopeFound(x, c, e)
  /\ x # NoCase /\ e # NoEmail => caseOf[e] = x
  /\ LET r == Row("reply", x, c, e, FALSE) IN
       records' = Audited(records \cup {r}, x, r.campaigns, e)
  /\ UNCHANGED <<installed, cases, caseOf, outstanding, grouping, links>>

\* send_reply, and the end of the transmission.
SendReply(r) ==
  /\ installed /\ r.kind = "reply"
  /\ ~r.pending /\ r.email # NoEmail => r.email \notin outstanding
  /\ records' = Audited((records \ {r}) \cup {[r EXCEPT !.pending = ~@]},
                        r.case, r.campaigns, r.email)
  /\ UNCHANGED <<installed, cases, caseOf, outstanding, grouping, links>>

\* save_intelligence: a new observation, or another place for one.
SaveIntelligence(rows, x, c) ==
  /\ installed
  /\ x # NoCase => CaseExists(x)
  /\ c # NoCampaign => Live(c)
  /\ records' = Audited((records \ rows)
                  \cup {Row("intelligence", x, c, NoEmail, FALSE)},
                        x, {c} \ {NoCampaign}, NoEmail)
  /\ UNCHANGED <<installed, cases, caseOf, outstanding, grouping, links>>

----------------------------------------------------------------------------
(* E-mails and campaigns.                                                  *)

\* A decision, or an analysis that fails.
Settle(e) ==
  /\ installed /\ e \in outstanding
  /\ outstanding' = outstanding \ {e}
  /\ records' = Audited(records, caseOf[e], {}, e)
  /\ UNCHANGED <<installed, cases, caseOf, grouping, links>>

\* POST /analyses/{id}/decision/reopen, and /retry, which opens nothing.
Reopen(e, retried) ==
  /\ installed /\ Received(e) /\ e \notin outstanding
  /\ outstanding' = outstanding \cup {e}
  /\ cases' = [x \in CaseIds |->
       IF x = caseOf[e] /\ ~retried THEN [status |-> "open", automatic |-> FALSE]
                                    ELSE cases[x]]
  /\ campaigns' = [c \in CampaignIds |->
       IF Live(c) /\ e \in members[c] /\ ~retried THEN "open" ELSE campaigns[c]]
  /\ records' = Audited(records, caseOf[e], {}, e)
  /\ UNCHANGED <<installed, caseOf, linked, members, links>>

\* POST /campaigns
CreateCampaign(c, emails, status) ==
  /\ installed /\ c = Cardinality(Made) + 1
  /\ \A e \in emails : Received(e)
  /\ status = "closed" => CampaignMayClose(c, emails)
  /\ campaigns' = [campaigns EXCEPT ![c] = status]
  /\ members' = [members EXCEPT ![c] = emails]
  /\ UNCHANGED <<installed, cases, caseOf, outstanding, linked, links, records>>

\* PUT and DELETE /campaigns/{id}
UpdateCampaign(c, status) ==
  /\ installed /\ Live(c)
  /\ status \in {"closed", "archived"} => CampaignMayClose(c, members[c])
  /\ campaigns' = [campaigns EXCEPT ![c] = status]
  /\ UNCHANGED <<installed, cases, caseOf, outstanding, linked, members, links,
                 records>>

\* POST and DELETE /campaigns/{id}/emails
ChangeEmails(c, emails) ==
  /\ installed /\ campaigns[c] = "open"
  /\ \A e \in emails : Received(e)
  /\ members' = [members EXCEPT ![c] = emails]
  /\ UNCHANGED <<installed, cases, caseOf, outstanding, campaigns, linked, links,
                 records>>

\* PUT and DELETE /campaigns/{id}/cases/{case_id}
AttachCase(c, x) ==
  /\ installed /\ Live(c) /\ CaseExists(x) /\ x \notin linked[c]
  /\ linked' = [linked EXCEPT ![c] = @ \cup {x}]
  /\ members' = [members EXCEPT ![c] = @ \cup EmailsOf(x)]
  /\ records' = Audited(records, x, {c}, NoEmail)
  /\ UNCHANGED <<installed, cases, caseOf, outstanding, campaigns, links>>

DetachCase(c, x) ==
  /\ installed /\ Live(c) /\ x \in linked[c]
  /\ linked' = [linked EXCEPT ![c] = @ \ {x}]
  /\ members' = [members EXCEPT ![c] = @ \ EmailsOf(x)]
  /\ records' = Audited(records, x, {c}, NoEmail)
  /\ UNCHANGED <<installed, cases, caseOf, outstanding, campaigns, links>>

PublishedVersion ==
  \E x \in CaseIds :
    \/ \E e \in Emails, automatic \in BOOLEAN : OldCase(x, e, automatic)
    \/ \E kind \in {"note", "action", "reply", "intelligence"}, p \in BOOLEAN :
         OldWork(x, kind, p)
    \/ OldClose(x) \/ OldCampaign(x)

Request ==
  \/ \E x \in CaseIds :
       \/ \E status \in {"open", "closed"} :
            CreateCase(x, status) \/ UpdateCase(x, status)
       \/ AddNote(x)
       \/ \E c \in CampaignIds : AttachCase(c, x) \/ DetachCase(c, x)
  \/ \E x \in CaseIds \cup {NoCase}, c \in CampaignIds \cup {NoCampaign} :
       \/ \E e \in Emails \cup {NoEmail} :
            \/ \E p \in BOOLEAN : CreateAction(x, c, e, p)
            \/ CreateReply(x, c, e)
       \/ Room /\ SaveIntelligence({}, x, c)
       \/ \E r \in records : r.kind = "intelligence" /\ SaveIntelligence({r}, x, c)
  \/ \E r \in records : SendReply(r) \/ \E p \in BOOLEAN : UpdateAction(r, p)
  \/ \E e \in Emails :
       \/ \E x \in CaseIds \cup {NoCase} : Upload(e, x)
       \/ Settle(e)
       \/ \E retried \in BOOLEAN : Reopen(e, retried)
  \/ \E c \in CampaignIds :
       \/ \E status \in {"open", "closed", "archived"} : UpdateCampaign(c, status)
       \/ \E emails \in SUBSET Emails :
            \/ ChangeEmails(c, emails)
            \/ \E status \in {"open", "closed"} : CreateCampaign(c, emails, status)

Next ==
  \/ (PublishedVersion \/ Start) /\ UNCHANGED calls
  \/ calls < MaxCalls /\ calls' = calls + 1 /\ Request

Spec == Init /\ [][Next]_vars

----------------------------------------------------------------------------
(* Properties.                                                             *)

TypeOK ==
  /\ installed \in BOOLEAN
  /\ cases \in [CaseIds -> CaseRows]
  /\ caseOf \in [Emails -> CaseIds \cup {NoCase, NotReceived}]
  /\ outstanding \subseteq Emails
  /\ campaigns \in [CampaignIds -> {"none", "open", "closed", "archived"}]
  /\ linked \in [CampaignIds -> SUBSET CaseIds]
  /\ members \in [CampaignIds -> SUBSET Emails]
  /\ links \in [CaseIds -> Links \cup {Unconverted}]
  /\ calls \in 0..MaxCalls
  /\ records \subseteq Records

\* "legacy_case_links records every conversion ... Repeated initialization
\* does not duplicate migrated records" (docs/EMAIL_CAMPAIGNS.md): no two
\* cases share a campaign, and what was noted, logged, to do or written about
\* a case when it was converted stays in its campaign, whatever is added,
\* changed or started again since.  A link without a campaign leads to the
\* e-mail, and no work was lost with the case.
ProjectionIsComplete ==
  \A x \in CaseIds : links[x] # Unconverted =>
    LET c == links[x].campaign
        work == {r \in records : r.case = x /\ r.kept} IN
      IF c = NoCampaign
      THEN /\ links[x].email # NoEmail /\ caseOf[links[x].email] = x
           /\ \A r \in work : r.kind # "event" => r.kind = "reply" /\ r.email # NoEmail
      ELSE /\ \A y \in CaseIds \ {x} : links[y].campaign # c
           /\ \A r \in work :
                \/ c \in r.campaigns
                \/ r.kind = "reply" /\ r.email # NoEmail
                \/ r.kind = "intelligence"

\* Of all steps, a start makes no request.
Started == installed' /\ calls' = calls

\* The conversion makes the events of this case be about its only e-mail.
Reassigned(r) ==
  /\ r.kind = "event" /\ r.case \in CaseIds /\ links[r.case] = Unconverted
  /\ links'[r.case] # Unconverted /\ links'[r.case].email # NoEmail

\* "Actions, collective replies, intelligence, memberships and events are
\* projected without deleting their historical records", and an e-mail "stays
\* independent unless an existing campaign already groups it": a start keeps
\* every row of the archive, the e-mail it is about and the campaigns of its
\* events and intelligence, takes no e-mail out of a campaign, and puts it into
\* those of its case only.  But the events of a case with one e-mail are about
\* that e-mail afterwards, whatever e-mail they were about (migrate_events).
StartOnlyAdds ==
  [][Started =>
       /\ \A r \in records : \E s \in records' :
            /\ s.kind = r.kind /\ s.case = r.case /\ s.pending = r.pending
            /\ s.email = IF Reassigned(r) THEN links'[r.case].email ELSE r.email
            /\ r.kind \in {"event", "intelligence"} => r.campaigns \subseteq s.campaigns
       /\ \A e \in Emails, c \in CampaignIds :
            /\ e \in members[c] => e \in members'[c]
            /\ e \in members'[c] /\ e \notin members[c] =>
                 \/ caseOf[e] \in linked[c]
                 \/ campaigns[c] = "none" /\ links'[caseOf[e]].campaign = c]_vars
=============================================================================
