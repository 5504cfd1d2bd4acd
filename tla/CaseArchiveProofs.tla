-------------------------- MODULE CaseArchiveProofs --------------------------
(***************************************************************************)
(* Theorems about CaseArchive, for any e-mails and any bounds.             *)
(*                                                                         *)
(* The invariant adds to the projection what makes the ids of converted    *)
(* cases differ: campaign ids in use never exceed the number of campaigns, *)
(* so that the ids a start gives out, counted on from that number in the   *)
(* order of the cases, are all new and differ from one another.            *)
(***************************************************************************)
EXTENDS CaseArchive, FiniteSetTheorems, TLAPS

\* TypeOK without the bound on requests.
Tables ==
  /\ installed \in BOOLEAN
  /\ cases \in [CaseIds -> CaseRows]
  /\ caseOf \in [Emails -> CaseIds \cup {NoCase, NotReceived}]
  /\ outstanding \subseteq Emails
  /\ campaigns \in [CampaignIds -> {"none", "open", "closed", "archived"}]
  /\ linked \in [CampaignIds -> SUBSET CaseIds]
  /\ members \in [CampaignIds -> SUBSET Emails]
  /\ links \in [CaseIds -> Links \cup {Unconverted}]
  /\ records \subseteq Records

\* Ids are given out from 1 on.
IdsCount == \A c \in Made : c <= Cardinality(Made)

LinksAreMade ==
  \A x \in CaseIds : links[x] # Unconverted =>
                       links[x].campaign \in Made \cup {NoCampaign}

IInv == Tables /\ IdsCount /\ LinksAreMade /\ ProjectionIsComplete

\* The same row, but for what is still to do.
SameRow(s, r) ==
  /\ s.kind = r.kind /\ s.case = r.case /\ s.email = r.email
  /\ s.campaigns = r.campaigns /\ s.kept = r.kept

\* Rows of which the converted ones are those of the archive.
RowsKept(rows) ==
  /\ rows \subseteq Records
  /\ \A r \in rows : r.kept => \E s \in records : SameRow(s, r)

----------------------------------------------------------------------------
(* Rows.                                                                   *)

LEMMA RowIsRecord ==
  ASSUME NEW kind \in {"event", "note", "action", "reply", "intelligence"},
         NEW x \in CaseIds \cup {NoCase}, NEW c \in CampaignIds \cup {NoCampaign},
         NEW e \in Emails \cup {NoEmail}, NEW p \in BOOLEAN
  PROVE  /\ Row(kind, x, c, e, p) \in Records /\ ~Row(kind, x, c, e, p).kept
         /\ Row(kind, x, c, e, p).campaigns \subseteq CampaignIds
         /\ Row(kind, x, c, e, p).campaigns = {c} \ {NoCampaign}
BY DEF Row, Records

\* An event more: it is new, and no conversion has seen it.
LEMMA AuditedFacts ==
  ASSUME NEW rows, rows \subseteq Records, NEW x, NEW in \in SUBSET CampaignIds,
         NEW e \in Emails \cup {NoEmail}
  PROVE  /\ Audited(rows, x, in, e) \subseteq Records
         /\ \A r \in Audited(rows, x, in, e) : r \in rows \/ ~r.kept
<1>1. ASSUME NEW y \in CaseIds
      PROVE  /\ [Row("event", y, NoCampaign, e, FALSE) EXCEPT !.campaigns = in]
                  \in Records
             /\ ~[Row("event", y, NoCampaign, e, FALSE)
                    EXCEPT !.campaigns = in].kept
  BY DEF Row, Records
<1> QED
  BY <1>1 DEF Audited

LEMMA AuditedKept ==
  ASSUME NEW rows, RowsKept(rows), NEW x, NEW in \in SUBSET CampaignIds,
         NEW e \in Emails \cup {NoEmail}
  PROVE  RowsKept(Audited(rows, x, in, e))
BY AuditedFacts DEF RowsKept

LEMMA RecordsKept ==
  ASSUME Tables
  PROVE  /\ RowsKept(records)
         /\ \A old, r : r \in Records /\ ~r.kept =>
              RowsKept(records \cup {r}) /\ RowsKept((records \ old) \cup {r})
BY DEF Tables, RowsKept, SameRow

\* An action or a reply that is done, or to do again.
LEMMA PendingKept ==
  ASSUME Tables, NEW r \in records, NEW p \in BOOLEAN
  PROVE  RowsKept((records \ {r}) \cup {[r EXCEPT !.pending = p]})
<1>1. r \in Records
  BY DEF Tables
<1>2. [r EXCEPT !.pending = p] \in Records /\ SameRow(r, [r EXCEPT !.pending = p])
  BY <1>1 DEF Records, SameRow
<1> QED
  BY <1>1, <1>2 DEF Tables, RowsKept, SameRow

----------------------------------------------------------------------------
(* Steps that convert nothing.                                             *)

\* They leave the links, the cases of e-mails that were received and the rows
\* that were converted as they are.
Quiet ==
  /\ Tables'
  /\ links' = links
  /\ \A e \in Emails : Received(e) => caseOf'[e] = caseOf[e]
  /\ RowsKept(records')

LEMMA QuietKeepsProjection ==
  ASSUME IInv, Quiet
  PROVE  ProjectionIsComplete'
<1> SUFFICES ASSUME NEW x \in CaseIds, links[x] # Unconverted
             PROVE
    LET c == links[x].campaign
        work == {r \in records' : r.case = x /\ r.kept} IN
      IF c = NoCampaign
      THEN /\ links[x].email # NoEmail /\ caseOf'[links[x].email] = x
           /\ \A r \in work : r.kind # "event" => r.kind = "reply" /\ r.email # NoEmail
      ELSE /\ \A y \in CaseIds \ {x} : links[y].campaign # c
           /\ \A r \in work :
                \/ c \in r.campaigns
                \/ r.kind = "reply" /\ r.email # NoEmail
                \/ r.kind = "intelligence"
  BY DEF Quiet, ProjectionIsComplete
<1>1. links[x] \in Links
  BY DEF IInv, Tables
<1>2. \A r \in records' : r.kept => \E s \in records : SameRow(s, r)
  BY DEF Quiet, RowsKept
<1>3. CASE links[x].campaign = NoCampaign
  <2>1. links[x].email # NoEmail /\ caseOf[links[x].email] = x
    BY <1>3 DEF IInv, ProjectionIsComplete
  <2>2. links[x].email \in Emails
    BY <1>1, <2>1 DEF Links
  <2>3. caseOf'[links[x].email] = x
    BY <2>1, <2>2 DEF Quiet, Received, NotReceived, CaseIds
  <2>4. ASSUME NEW r \in records', r.case = x, r.kept, r.kind # "event"
        PROVE  r.kind = "reply" /\ r.email # NoEmail
    BY <1>2, <1>3, <2>4 DEF IInv, ProjectionIsComplete, SameRow
  <2> QED
    BY <1>3, <2>1, <2>3, <2>4
<1>4. CASE links[x].campaign # NoCampaign
  <2>1. \A y \in CaseIds \ {x} : links[y].campaign # links[x].campaign
    BY <1>4 DEF IInv, ProjectionIsComplete
  <2>2. ASSUME NEW r \in records', r.case = x, r.kept
        PROVE  \/ links[x].campaign \in r.campaigns
               \/ r.kind = "reply" /\ r.email # NoEmail
               \/ r.kind = "intelligence"
    <3>1. PICK s \in records : SameRow(s, r)
      BY <1>2, <2>2
    <3>2. s.case = x /\ s.kept
      BY <2>2, <3>1 DEF SameRow
    <3>3. \/ links[x].campaign \in s.campaigns
          \/ s.kind = "reply" /\ s.email # NoEmail
          \/ s.kind = "intelligence"
      BY <1>4, <3>2 DEF IInv, ProjectionIsComplete
    <3> QED
      BY <3>1, <3>3 DEF SameRow
  <2> QED
    BY <1>4, <2>1, <2>2
<1> QED
  BY <1>3, <1>4

\* The campaigns in use are finitely many.
LEMMA MadeIsFinite ==
  IsFiniteSet(Made) /\ Cardinality(Made) \in Nat /\ Made \subseteq CampaignIds
<1>1. IsFiniteSet(CampaignIds)
  BY BoundsAssumption, FS_Interval DEF CampaignIds
<1> QED
  BY <1>1, FS_Subset, FS_CardinalityType DEF Made

\* A step that makes no campaign and converts nothing.
LEMMA SameMadeKeepsIInv ==
  ASSUME IInv, Quiet, Made' = Made
  PROVE  IInv'
<1>1. IdsCount' /\ LinksAreMade'
  BY DEF IInv, IdsCount, LinksAreMade, Quiet
<1> QED
  BY <1>1, QuietKeepsProjection DEF IInv, Quiet

\* A step that makes the next campaign.
LEMMA NewCampaignKeepsIInv ==
  ASSUME IInv, Quiet, NEW c \in CampaignIds, c = Cardinality(Made) + 1,
         Made' = Made \cup {c}
  PROVE  IInv'
<1>1. c \notin Made
  BY MadeIsFinite DEF IInv, IdsCount, CampaignIds
<1>2. Cardinality(Made') = Cardinality(Made) + 1
  BY <1>1, MadeIsFinite, FS_AddElement
<1>3. IdsCount'
  <2>1. \A d \in Made : d \in Nat /\ d <= Cardinality(Made)
    BY MadeIsFinite DEF IInv, IdsCount, CampaignIds
  <2> QED
    BY <1>2, <2>1, MadeIsFinite DEF IdsCount
<1>4. LinksAreMade'
  BY DEF IInv, LinksAreMade, Quiet
<1> QED
  BY <1>3, <1>4, QuietKeepsProjection DEF IInv, Quiet

----------------------------------------------------------------------------
(* The published version.                                                  *)

LEMMA OldCaseKeeps ==
  ASSUME IInv, NEW x \in CaseIds, NEW e \in Emails, NEW automatic \in BOOLEAN,
         OldCase(x, e, automatic)
  PROVE  IInv'
<1>1. Tables
  BY DEF IInv
<1>2. RowsKept(records')
  BY <1>1, RecordsKept, AuditedKept DEF OldCase
<1>3. /\ cases' \in [CaseIds -> CaseRows]
      /\ caseOf' \in [Emails -> CaseIds \cup {NoCase, NotReceived}]
  BY <1>1 DEF OldCase, Tables, CaseRows
<1>4. Quiet
  BY <1>1, <1>2, <1>3 DEF OldCase, Quiet, Tables, RowsKept, Received, grouping
<1>5. Made' = Made
  BY DEF OldCase, Made, grouping
<1> QED
  BY <1>4, <1>5, SameMadeKeepsIInv

LEMMA OldWorkKeeps ==
  ASSUME IInv, NEW x \in CaseIds,
         NEW kind \in {"note", "action", "reply", "intelligence"},
         NEW p \in BOOLEAN, OldWork(x, kind, p)
  PROVE  IInv'
<1>1. Tables
  BY DEF IInv
<1>2. RowsKept(records \cup {Row(kind, x, NoCampaign, NoEmail, p)})
  BY <1>1, RecordsKept, RowIsRecord
<1>3. RowsKept(records')
  BY <1>2, AuditedKept DEF OldWork
<1>4. Quiet
  BY <1>1, <1>3 DEF OldWork, Quiet, Tables, RowsKept, grouping
<1>5. Made' = Made
  BY DEF OldWork, Made, grouping
<1> QED
  BY <1>4, <1>5, SameMadeKeepsIInv

LEMMA OldCloseKeeps ==
  ASSUME IInv, NEW x \in CaseIds, OldClose(x)
  PROVE  IInv'
<1>1. Tables
  BY DEF IInv
<1>2. RowsKept(records') /\ cases' \in [CaseIds -> CaseRows]
  BY <1>1, RecordsKept DEF OldClose, Tables, CaseRows
<1>3. Quiet
  BY <1>1, <1>2 DEF OldClose, Quiet, Tables, RowsKept, grouping
<1>4. Made' = Made
  BY DEF OldClose, Made, grouping
<1> QED
  BY <1>3, <1>4, SameMadeKeepsIInv

LEMMA OldCampaignKeeps ==
  ASSUME IInv, NEW x \in CaseIds, OldCampaign(x)
  PROVE  IInv'
<1>1. Tables /\ 1 \in CampaignIds /\ Made = {}
  BY DEF IInv, OldCampaign
<1>2. RowsKept(records')
  BY <1>1, RecordsKept DEF OldCampaign
<1>3. /\ campaigns' \in [CampaignIds -> {"none", "open", "closed", "archived"}]
      /\ linked' \in [CampaignIds -> SUBSET CaseIds]
      /\ Made' = Made \cup {1}
  BY <1>1 DEF OldCampaign, Tables, Made
<1>4. Quiet
  BY <1>1, <1>2, <1>3 DEF OldCampaign, Quiet, Tables, RowsKept
<1>5. 1 = Cardinality(Made) + 1
  BY <1>1, FS_EmptySet
<1> QED
  BY <1>1, <1>3, <1>4, <1>5, NewCampaignKeepsIInv

----------------------------------------------------------------------------
(* The routes of cases.                                                    *)

LEMMA CaseRouteKeeps ==
  ASSUME IInv, NEW x \in CaseIds, NEW status \in {"open", "closed"},
         CreateCase(x, status) \/ UpdateCase(x, status)
  PROVE  IInv'
<1>1. Tables
  BY DEF IInv
<1>2. RowsKept(records')
  BY <1>1, RecordsKept, AuditedKept DEF CreateCase, UpdateCase
<1>3. cases' \in [CaseIds -> CaseRows]
  <2>1. [status |-> status, automatic |-> FALSE] \in CaseRows
    BY DEF CaseRows
  <2>2. cases' = [cases EXCEPT ![x] = [status |-> status, automatic |-> FALSE]]
    BY DEF CreateCase, UpdateCase
  <2> QED
    BY <1>1, <2>1, <2>2 DEF Tables
<1>4. Quiet
  BY <1>1, <1>2, <1>3 DEF CreateCase, UpdateCase, Quiet, Tables, RowsKept, grouping
<1>5. Made' = Made
  BY DEF CreateCase, UpdateCase, Made, grouping
<1> QED
  BY <1>4, <1>5, SameMadeKeepsIInv

LEMMA NoteKeeps ==
  ASSUME IInv, NEW x \in CaseIds, AddNote(x)
  PROVE  IInv'
<1>1. Tables
  BY DEF IInv
<1>2. RowsKept(records \cup {Row("note", x, NoCampaign, NoEmail, FALSE)})
  BY <1>1, RecordsKept, RowIsRecord
<1>3. RowsKept(records')
  BY <1>2, AuditedKept DEF AddNote
<1>4. Quiet
  BY <1>1, <1>3 DEF AddNote, Quiet, Tables, RowsKept, grouping
<1>5. Made' = Made
  BY DEF AddNote, Made, grouping
<1> QED
  BY <1>4, <1>5, SameMadeKeepsIInv

LEMMA UploadKeeps ==
  ASSUME IInv, NEW e \in Emails, NEW x \in CaseIds \cup {NoCase}, Upload(e, x)
  PROVE  IInv'
<1>1. Tables
  BY DEF IInv
<1>2. RowsKept(records')
  BY <1>1, RecordsKept, AuditedKept DEF Upload
<1>3. caseOf' \in [Emails -> CaseIds \cup {NoCase, NotReceived}]
  BY <1>1 DEF Upload, Tables
<1>4. Quiet
  BY <1>1, <1>2, <1>3 DEF Upload, Quiet, Tables, RowsKept, Received, grouping
<1>5. Made' = Made
  BY DEF Upload, Made, grouping
<1> QED
  BY <1>4, <1>5, SameMadeKeepsIInv

\* A step whose only effect is on the rows.
RowsOnly ==
  UNCHANGED <<installed, cases, caseOf, outstanding, grouping, links>>

LEMMA RowsOnlyKeeps ==
  ASSUME IInv, RowsOnly, RowsKept(records')
  PROVE  IInv'
<1>1. Quiet
  BY DEF IInv, RowsOnly, Quiet, Tables, RowsKept, grouping
<1>2. Made' = Made
  BY DEF RowsOnly, Made, grouping
<1> QED
  BY <1>1, <1>2, SameMadeKeepsIInv

\* A new action or reply, wherever it belongs.
LEMMA WorkKeeps ==
  ASSUME IInv, NEW x \in CaseIds \cup {NoCase},
         NEW c \in CampaignIds \cup {NoCampaign}, NEW e \in Emails \cup {NoEmail},
         NEW p \in BOOLEAN, CreateAction(x, c, e, p) \/ CreateReply(x, c, e)
  PROVE  IInv'
<1>1. Tables
  BY DEF IInv
<1>2. CASE CreateAction(x, c, e, p)
  <2> DEFINE r == Row("action", x, c, e, p)
  <2>1. /\ r \in Records /\ ~r.kept /\ r.campaigns \in SUBSET CampaignIds
    BY RowIsRecord
  <2>2. records' = Audited(records \cup {r}, x, r.campaigns, e) /\ RowsOnly
    BY <1>2 DEF CreateAction, RowsOnly
  <2> HIDE DEF r
  <2>3. RowsKept(records \cup {r})
    BY <1>1, <2>1, RecordsKept
  <2> QED
    BY <2>1, <2>2, <2>3, AuditedKept, RowsOnlyKeeps
<1>3. CASE CreateReply(x, c, e)
  <2> DEFINE r == Row("reply", x, c, e, FALSE)
  <2>1. /\ r \in Records /\ ~r.kept /\ r.campaigns \in SUBSET CampaignIds
    BY RowIsRecord
  <2>2. records' = Audited(records \cup {r}, x, r.campaigns, e) /\ RowsOnly
    BY <1>3 DEF CreateReply, RowsOnly
  <2> HIDE DEF r
  <2>3. RowsKept(records \cup {r})
    BY <1>1, <2>1, RecordsKept
  <2> QED
    BY <2>1, <2>2, <2>3, AuditedKept, RowsOnlyKeeps
<1> QED
  BY <1>2, <1>3

\* An action or a reply goes on.
LEMMA ProgressKeeps ==
  ASSUME IInv, NEW r \in records, NEW p \in BOOLEAN,
         SendReply(r) \/ UpdateAction(r, p)
  PROVE  IInv'
<1>1. Tables /\ r \in Records
  BY DEF IInv, Tables
<1>2. /\ r.campaigns \in SUBSET CampaignIds /\ r.pending \in BOOLEAN
      /\ r.email \in Emails \cup {NoEmail}
  BY <1>1 DEF Records
<1>3. PICK q \in BOOLEAN :
        records' = Audited((records \ {r}) \cup {[r EXCEPT !.pending = q]},
                           r.case, r.campaigns, r.email)
  <2>1. CASE SendReply(r)
    <3>1. records' = Audited((records \ {r}) \cup {[r EXCEPT !.pending = ~r.pending]},
                             r.case, r.campaigns, r.email)
      BY <2>1 DEF SendReply
    <3> QED
      BY <3>1, <1>2
  <2>2. CASE UpdateAction(r, p)
    BY <2>2 DEF UpdateAction
  <2> QED
    BY <2>1, <2>2
<1>4. RowsKept((records \ {r}) \cup {[r EXCEPT !.pending = q]})
  BY <1>1, PendingKept
<1>5. RowsKept(records')
  BY <1>2, <1>3, <1>4, AuditedKept
<1>6. RowsOnly
  BY DEF SendReply, UpdateAction, RowsOnly
<1> QED
  BY <1>5, <1>6, RowsOnlyKeeps

LEMMA IntelligenceKeeps ==
  ASSUME IInv, NEW rows \in SUBSET records, NEW x \in CaseIds \cup {NoCase},
         NEW c \in CampaignIds \cup {NoCampaign}, SaveIntelligence(rows, x, c)
  PROVE  IInv'
<1> DEFINE r == Row("intelligence", x, c, NoEmail, FALSE)
<1>1. Tables
  BY DEF IInv
<1>2. r \in Records /\ ~r.kept
  BY RowIsRecord
<1>3. /\ records' = Audited((records \ rows) \cup {r}, x, {c} \ {NoCampaign},
                            NoEmail)
      /\ RowsOnly
  BY DEF SaveIntelligence, RowsOnly
<1> HIDE DEF r
<1>4. RowsKept((records \ rows) \cup {r})
  BY <1>1, <1>2, RecordsKept
<1>5. {c} \ {NoCampaign} \in SUBSET CampaignIds
  OBVIOUS
<1> QED
  BY <1>3, <1>4, <1>5, AuditedKept, RowsOnlyKeeps

----------------------------------------------------------------------------
(* E-mails and campaigns.                                                  *)

LEMMA SettleKeeps ==
  ASSUME IInv, NEW e \in Emails, Settle(e)
  PROVE  IInv'
<1>1. Tables
  BY DEF IInv
<1>2. RowsKept(records')
  BY <1>1, RecordsKept, AuditedKept DEF Settle
<1>3. Quiet
  BY <1>1, <1>2 DEF Settle, Quiet, Tables, RowsKept, grouping
<1>4. Made' = Made
  BY DEF Settle, Made, grouping
<1> QED
  BY <1>3, <1>4, SameMadeKeepsIInv

LEMMA ReopenKeeps ==
  ASSUME IInv, NEW e \in Emails, NEW retried \in BOOLEAN, Reopen(e, retried)
  PROVE  IInv'
<1>1. Tables
  BY DEF IInv
<1>2. RowsKept(records')
  BY <1>1, RecordsKept, AuditedKept DEF Reopen
<1>3. /\ cases' \in [CaseIds -> CaseRows]
      /\ campaigns' \in [CampaignIds -> {"none", "open", "closed", "archived"}]
  BY <1>1 DEF Reopen, Tables, CaseRows
<1>4. Quiet
  BY <1>1, <1>2, <1>3 DEF Reopen, Quiet, Tables, RowsKept
<1>5. Made' = Made
  BY DEF Reopen, Made, Live
<1> QED
  BY <1>4, <1>5, SameMadeKeepsIInv

LEMMA CreateCampaignKeeps ==
  ASSUME IInv, NEW c \in CampaignIds, NEW emails \in SUBSET Emails,
         NEW status \in {"open", "closed"}, CreateCampaign(c, emails, status)
  PROVE  IInv'
<1>1. Tables /\ c = Cardinality(Made) + 1
  BY DEF IInv, CreateCampaign
<1>2. RowsKept(records')
  BY <1>1, RecordsKept DEF CreateCampaign
<1>3. Quiet
  BY <1>1, <1>2 DEF CreateCampaign, Quiet, Tables, RowsKept
<1>4. Made' = Made \cup {c}
  BY <1>1 DEF CreateCampaign, Tables, Made
<1> QED
  BY <1>1, <1>3, <1>4, NewCampaignKeepsIInv

LEMMA UpdateCampaignKeeps ==
  ASSUME IInv, NEW c \in CampaignIds, NEW status \in {"open", "closed", "archived"},
         UpdateCampaign(c, status)
  PROVE  IInv'
<1>1. Tables
  BY DEF IInv
<1>2. RowsKept(records')
  BY <1>1, RecordsKept DEF UpdateCampaign
<1>3. Quiet
  BY <1>1, <1>2 DEF UpdateCampaign, Quiet, Tables, RowsKept
<1>4. Made' = Made
  BY <1>1 DEF UpdateCampaign, Tables, Made, Live
<1> QED
  BY <1>3, <1>4, SameMadeKeepsIInv

LEMMA GroupingKeeps ==
  ASSUME IInv, NEW c \in CampaignIds,
         \/ \E emails \in SUBSET Emails : ChangeEmails(c, emails)
         \/ \E x \in CaseIds : AttachCase(c, x) \/ DetachCase(c, x)
  PROVE  IInv'
<1>1. Tables /\ {c} \in SUBSET CampaignIds
  BY DEF IInv
<1>2. RowsKept(records')
  BY <1>1, RecordsKept, AuditedKept DEF ChangeEmails, AttachCase, DetachCase
<1>3. linked' \in [CampaignIds -> SUBSET CaseIds]
  BY <1>1 DEF ChangeEmails, AttachCase, DetachCase, Tables
<1>4. members' \in [CampaignIds -> SUBSET Emails]
  BY <1>1 DEF ChangeEmails, AttachCase, DetachCase, Tables, EmailsOf
<1>5. UNCHANGED <<installed, cases, caseOf, outstanding, campaigns, links>>
  BY DEF ChangeEmails, AttachCase, DetachCase
<1>6. Quiet
  BY <1>1, <1>2, <1>3, <1>4, <1>5 DEF Quiet, Tables, RowsKept
<1>7. Made' = Made
  BY <1>5 DEF Made
<1> QED
  BY <1>6, <1>7, SameMadeKeepsIInv

----------------------------------------------------------------------------
(* The conversion.                                                         *)

\* The cases that become campaigns.
Becoming == {x \in ToConvert : Meaningful(x)}

Before(x) == {y \in ToConvert : Meaningful(y) /\ y <= x}

LEMMA CasesAreFinite ==
  /\ IsFiniteSet(Becoming) /\ Cardinality(Becoming) \in Nat
  /\ \A x : IsFiniteSet(Before(x)) /\ Cardinality(Before(x)) \in Nat
<1>1. IsFiniteSet(CaseIds)
  BY BoundsAssumption, FS_Interval DEF CaseIds
<1>2. Becoming \subseteq CaseIds /\ \A x : Before(x) \subseteq CaseIds
  BY DEF Becoming, Before, ToConvert
<1> QED
  BY <1>1, <1>2, FS_Subset, FS_CardinalityType

\* The id of a case that becomes a campaign is new.
LEMMA IdIsNew ==
  ASSUME NEW x \in Becoming
  PROVE  /\ CampaignFor(x) \in Nat
         /\ CampaignFor(x) > Cardinality(Made)
         /\ CampaignFor(x) <= Cardinality(Made) + Cardinality(Becoming)
<1>1. CampaignFor(x) = Cardinality(Made) + Cardinality(Before(x))
  BY DEF CampaignFor, Becoming, Before
<1>2. Before(x) \subseteq Becoming
  BY DEF Before, Becoming
<1>3. Cardinality(Before(x)) <= Cardinality(Becoming)
  BY <1>2, CasesAreFinite, FS_Subset
<1>4. {x} \subseteq Before(x)
  BY DEF Before, Becoming, ToConvert, CaseIds
<1>5. Cardinality({x}) <= Cardinality(Before(x)) /\ Cardinality({x}) = 1
  BY <1>4, CasesAreFinite, FS_Subset, FS_Singleton
<1> QED
  BY <1>1, <1>3, <1>5, CasesAreFinite, MadeIsFinite

\* A later case gets a larger id.
LEMMA IdsIncrease ==
  ASSUME NEW x \in Becoming, NEW y \in Becoming, x < y
  PROVE  CampaignFor(x) < CampaignFor(y)
<1>1. /\ CampaignFor(x) = Cardinality(Made) + Cardinality(Before(x))
      /\ CampaignFor(y) = Cardinality(Made) + Cardinality(Before(y))
  BY DEF CampaignFor, Becoming, Before
<1>2. /\ y \in Before(y) /\ Before(x) \subseteq Before(y) \ {y}
  BY DEF Before, Becoming, ToConvert, CaseIds
<1>3. /\ IsFiniteSet(Before(y) \ {y})
      /\ Cardinality(Before(y) \ {y}) = Cardinality(Before(y)) - 1
  BY <1>2, CasesAreFinite, FS_RemoveElement
<1>4. Cardinality(Before(x)) <= Cardinality(Before(y)) - 1
  BY <1>2, <1>3, FS_Subset
<1> QED
  BY <1>1, <1>4, CasesAreFinite, MadeIsFinite

LEMMA IdsDiffer ==
  \A x, y \in Becoming : CampaignFor(x) = CampaignFor(y) => x = y
<1> SUFFICES ASSUME NEW x \in Becoming, NEW y \in Becoming, x # y
             PROVE  CampaignFor(x) # CampaignFor(y)
  OBVIOUS
<1>1. x \in Nat /\ y \in Nat
  BY DEF Becoming, ToConvert, CaseIds
<1>2. CampaignFor(x) \in Nat /\ CampaignFor(y) \in Nat
  BY IdIsNew
<1>3. CASE x < y
  BY <1>2, <1>3, IdsIncrease
<1>4. CASE y < x
  BY <1>2, <1>4, IdsIncrease
<1> QED
  BY <1>1, <1>3, <1>4

\* What a start gives out.
LEMMA StartIds ==
  ASSUME IInv, Start, NEW x \in ToConvert
  PROVE  /\ x \in Becoming => /\ CampaignFor(x) \in CampaignIds \ Made
                              /\ CampaignFor(x) # NoCampaign
         /\ x \notin Becoming => CampaignFor(x) = NoCampaign
<1>1. CASE x \in Becoming
  <2>1. CampaignFor(x) <= MaxCampaigns
    BY DEF Start
  <2>2. \A c \in Made : c <= Cardinality(Made)
    BY DEF IInv, IdsCount
  <2>3. CampaignFor(x) \in 1..MaxCampaigns
    BY <1>1, <2>1, IdIsNew, MadeIsFinite, BoundsAssumption
  <2>4. CampaignFor(x) \notin Made
    BY <1>1, <2>2, IdIsNew, MadeIsFinite
  <2> QED
    BY <1>1, <2>3, <2>4 DEF CampaignIds, NoCampaign
<1>2. CASE x \notin Becoming
  BY <1>2 DEF Becoming, CampaignFor
<1> QED
  BY <1>1, <1>2

LEMMA OnlyEmailIsEmail ==
  ASSUME NEW x
  PROVE  OnlyEmail(x) \in Emails \cup {NoEmail}
<1>1. CASE Cardinality(EmailsOf(x)) = 1
  <2>1. EmailsOf(x) # {}
    BY <1>1, FS_EmptySet
  <2> QED
    BY <1>1, <2>1 DEF OnlyEmail, EmailsOf
<1>2. CASE Cardinality(EmailsOf(x)) # 1
  BY <1>2 DEF OnlyEmail
<1> QED
  BY <1>1, <1>2

\* What a row becomes.
LEMMA ConvertedFacts ==
  ASSUME IInv, Start, NEW r \in records
  PROVE  /\ Converted(r) \in Records
         /\ Converted(r).kind = r.kind /\ Converted(r).case = r.case
         /\ Converted(r).pending = r.pending
         /\ Converted(r).email =
              IF r.kind = "event" /\ r.case \in ToConvert /\ OnlyEmail(r.case) # NoEmail
              THEN OnlyEmail(r.case) ELSE r.email
         /\ r.case \notin ToConvert => Converted(r) = r
         /\ r.case \in ToConvert =>
              \/ CampaignFor(r.case) = NoCampaign
              \/ CampaignFor(r.case) \in Converted(r).campaigns
              \/ r.kind = "reply" /\ r.email # NoEmail
              \/ r.kind = "intelligence"
         /\ r.kind \in {"event", "intelligence"} =>
              r.campaigns \subseteq Converted(r).campaigns
<1> DEFINE x == r.case
           c == CampaignFor(x)
           new == CASE r.kind = "event" -> r.campaigns \cup Memberships(x)
                    [] c = NoCampaign -> r.campaigns
                    [] r.kind = "reply" /\ r.email # NoEmail -> r.campaigns
                    [] r.kind = "intelligence" /\ r.campaigns # {} -> r.campaigns
                    [] OTHER -> {c}
           about == IF r.kind = "event" /\ OnlyEmail(x) # NoEmail
                    THEN OnlyEmail(x) ELSE r.email
<1>1. /\ r \in Records /\ r.campaigns \subseteq CampaignIds
      /\ r.kind \in {"event", "note", "action", "reply", "intelligence"}
  BY DEF IInv, Tables, Records
<1>2. CASE x \notin ToConvert
  BY <1>1, <1>2 DEF Converted
<1>3. CASE x \in ToConvert
  <2>1. Converted(r) = [r EXCEPT !.kept = TRUE, !.email = about, !.campaigns = new]
    BY <1>3 DEF Converted
  <2>2. c = NoCampaign \/ c \in CampaignIds
    BY <1>3, StartIds
  <2> HIDE DEF c
  <2>3. Memberships(x) \subseteq CampaignIds
    BY DEF Memberships
  <2>4. new \subseteq CampaignIds
    BY <1>1, <2>2, <2>3
  <2>5. c \in CampaignIds => c \in Memberships(x)
    BY DEF Memberships, c
  <2>6. \/ c = NoCampaign \/ c \in new
        \/ r.kind = "reply" /\ r.email # NoEmail
        \/ r.kind = "intelligence"
    BY <1>1, <2>2, <2>5
  <2>7. r.kind \in {"event", "intelligence"} => r.campaigns \subseteq new
    BY <1>1
  <2>8. about \in Emails \cup {NoEmail}
    BY <1>1, OnlyEmailIsEmail DEF Records
  <2> HIDE DEF new, about
  <2>9. /\ Converted(r) \in Records /\ Converted(r).campaigns = new
        /\ Converted(r).kind = r.kind /\ Converted(r).case = r.case
        /\ Converted(r).email = about /\ Converted(r).pending = r.pending
    BY <1>1, <2>1, <2>4, <2>8 DEF Records
  <2> QED
    BY <1>3, <2>6, <2>7, <2>9 DEF c, about
<1> QED
  BY <1>2, <1>3

\* The tables after a start.
LEMMA StartTables ==
  ASSUME IInv, Start
  PROVE  Tables'
<1>1. Tables
  BY DEF IInv
<1>2. campaigns' \in [CampaignIds -> {"none", "open", "closed", "archived"}]
  <2> SUFFICES ASSUME NEW c \in CampaignIds
               PROVE  (IF \E x \in ToConvert : CampaignFor(x) = c
                       THEN cases[CHOOSE x \in ToConvert : CampaignFor(x) = c].status
                       ELSE campaigns[c]) \in {"none", "open", "closed", "archived"}
    BY DEF Start
  <2>1. ASSUME NEW x \in ToConvert
        PROVE  cases[x].status \in {"none", "open", "closed", "archived"}
    BY <1>1 DEF Tables, CaseRows, ToConvert
  <2> QED
    BY <1>1, <2>1 DEF Tables
<1>3. links' \in [CaseIds -> Links \cup {Unconverted}]
  <2>1. ASSUME NEW x \in ToConvert
        PROVE  [campaign |-> CampaignFor(x), email |-> OnlyEmail(x)] \in Links
    <3>1. CampaignFor(x) \in CampaignIds \cup {NoCampaign}
      BY StartIds
    <3>2. OnlyEmail(x) \in Emails \cup {NoEmail}
      BY OnlyEmailIsEmail
    <3> QED
      BY <3>1, <3>2 DEF Links
  <2> QED
    BY <1>1, <2>1 DEF Start, Tables
<1>4. members' \in [CampaignIds -> SUBSET Emails]
  BY <1>1 DEF Start, Tables
<1>5. records' \subseteq Records
  BY ConvertedFacts DEF Start
<1> QED
  BY <1>1, <1>2, <1>3, <1>4, <1>5 DEF Start, Tables

\* The campaigns after a start: those there were, and one per case that
\* becomes one.
LEMMA StartMakes ==
  ASSUME IInv, Start
  PROVE  Made' = Made \cup {CampaignFor(x) : x \in Becoming}
<1>1. ASSUME NEW c \in CampaignIds
      PROVE  c \in Made' <=> c \in Made \/ \E x \in Becoming : CampaignFor(x) = c
  <2>1. CASE \E x \in ToConvert : CampaignFor(x) = c
    <3>1. PICK x \in ToConvert : /\ CampaignFor(x) = c
                                /\ campaigns'[c] = cases[x].status
      BY <2>1 DEF Start
    <3>2. x \in Becoming
      BY <3>1, StartIds DEF CampaignIds, NoCampaign
    <3>3. cases[x].status # "none"
      BY DEF ToConvert, CaseExists
    <3> QED
      BY <3>1, <3>2, <3>3 DEF Made
  <2>2. CASE ~\E x \in ToConvert : CampaignFor(x) = c
    BY <2>2 DEF Start, Made, Becoming
  <2> QED
    BY <2>1, <2>2
<1>2. \A x \in Becoming : CampaignFor(x) \in CampaignIds
  BY StartIds DEF Becoming
<1> QED
  BY <1>1, <1>2 DEF Made

\* The ids in use still do not exceed the number of campaigns.
LEMMA StartCounts ==
  ASSUME IInv, Start
  PROVE  IdsCount'
<1> DEFINE T == {CampaignFor(x) : x \in Becoming}
           f == [x \in Becoming |-> CampaignFor(x)]
<1>1. T \subseteq CampaignIds \ Made
  BY StartIds DEF Becoming
<1>2. IsFiniteSet(CampaignIds)
  BY BoundsAssumption, FS_Interval DEF CampaignIds
<1>3. IsFiniteSet(T) /\ Cardinality(T) \in Nat
  BY <1>1, <1>2, FS_Subset, FS_CardinalityType
<1>4. f \in Injection(Becoming, T)
  BY IdsDiffer DEF Injection, IsInjective
<1>5. Cardinality(Becoming) <= Cardinality(T)
  BY <1>3, <1>4, FS_Injection
<1>6. Made' = Made \cup T /\ Made \cap T = {}
  BY <1>1, StartMakes
<1>7. Cardinality(Made') = Cardinality(Made) + Cardinality(T)
  <2>1. Cardinality(Made \cap T) = 0
    BY <1>6, FS_EmptySet
  <2>2. Cardinality(Made \cup T) =
          Cardinality(Made) + Cardinality(T) - Cardinality(Made \cap T)
    BY <1>3, MadeIsFinite, FS_Union
  <2> HIDE DEF T
  <2> QED
    BY <1>3, <1>6, <2>1, <2>2, MadeIsFinite
<1>8. \A c \in T : c \in Nat /\ c <= Cardinality(Made) + Cardinality(Becoming)
  BY IdIsNew
<1>9. \A c \in Made : c \in Nat /\ c <= Cardinality(Made)
  BY MadeIsFinite DEF IInv, IdsCount, CampaignIds
<1> HIDE DEF T
<1>10. ASSUME NEW c \in Made' PROVE c <= Cardinality(Made')
  BY <1>3, <1>5, <1>6, <1>7, <1>8, <1>9, MadeIsFinite, CasesAreFinite
<1> QED
  BY <1>10 DEF IdsCount

\* A link of a start, and one of an earlier start.
LEMMA StartLinks ==
  ASSUME IInv, Start, NEW x \in CaseIds
  PROVE  /\ x \in ToConvert => /\ links'[x].campaign = CampaignFor(x)
                               /\ links'[x].email = OnlyEmail(x)
         /\ x \notin ToConvert => links'[x] = links[x]
BY DEF Start

\* No two cases share a campaign.
LEMMA StartSeparates ==
  ASSUME IInv, Start, NEW x \in CaseIds, links'[x] # Unconverted,
         links'[x].campaign # NoCampaign, NEW y \in CaseIds \ {x}
  PROVE  links'[y].campaign # links'[x].campaign
<1>1. \A z \in CaseIds : z \notin ToConvert =>
        links'[z].campaign \in Made \cup {NoCampaign, -1}
  BY StartLinks DEF IInv, LinksAreMade, Unconverted
<1>2. \A z \in ToConvert : /\ links'[z].campaign = CampaignFor(z)
                          /\ z \in CaseIds
  BY StartLinks DEF ToConvert
<1>3. \A c \in CampaignIds : c # -1
  BY DEF CampaignIds
<1>4. CASE x \in ToConvert /\ y \in ToConvert
  <2>1. x \in Becoming
    BY <1>2, <1>4, StartIds
  <2>2. CASE y \in Becoming
    BY <1>2, <1>4, <2>1, <2>2, IdsDiffer
  <2>3. CASE y \notin Becoming
    BY <1>2, <1>4, <2>3, StartIds
  <2> QED
    BY <2>2, <2>3
<1>5. CASE x \in ToConvert /\ y \notin ToConvert
  <2>1. x \in Becoming
    BY <1>2, <1>5, StartIds
  <2> QED
    BY <1>1, <1>2, <1>3, <1>5, <2>1, StartIds
<1>6. CASE x \notin ToConvert /\ y \in ToConvert
  <2>1. links'[x].campaign \in Made
    BY <1>6, StartLinks DEF IInv, LinksAreMade
  <2>2. CASE y \in Becoming
    BY <1>2, <1>6, <2>1, <2>2, StartIds
  <2>3. CASE y \notin Becoming
    BY <1>2, <1>6, <2>3, StartIds
  <2> QED
    BY <2>2, <2>3
<1>7. CASE x \notin ToConvert /\ y \notin ToConvert
  <2>1. links'[x] = links[x] /\ links'[y] = links[y]
    BY <1>7, StartLinks
  <2> QED
    BY <2>1 DEF IInv, ProjectionIsComplete
<1> QED
  BY <1>4, <1>5, <1>6, <1>7

\* A case that becomes nothing leads to its e-mail, and nobody worked in it.
LEMMA DroppedIsEmpty ==
  ASSUME IInv, Start, NEW x \in ToConvert, CampaignFor(x) = NoCampaign
  PROVE  /\ OnlyEmail(x) # NoEmail /\ caseOf[OnlyEmail(x)] = x
         /\ \A r \in records : r.case = x /\ r.kind # "event" =>
                                r.kind = "reply" /\ r.email # NoEmail
<1>1. ~Meaningful(x)
  BY StartIds DEF Becoming
<1>2. /\ Cardinality(EmailsOf(x)) = 1
      /\ \A r \in records : r.case = x /\ r.kind # "event" =>
                             r.kind = "reply" /\ r.email # NoEmail
  BY <1>1 DEF Meaningful
<1>3. EmailsOf(x) # {}
  BY <1>2, FS_EmptySet
<1>4. OnlyEmail(x) \in EmailsOf(x)
  BY <1>2, <1>3 DEF OnlyEmail, EmailsOf
<1> QED
  BY <1>2, <1>4, NoEmailAssumption DEF EmailsOf

\* The projection after a start.
LEMMA StartProjects ==
  ASSUME IInv, Start
  PROVE  ProjectionIsComplete'
<1> SUFFICES ASSUME NEW x \in CaseIds, links'[x] # Unconverted
             PROVE
    LET c == links'[x].campaign
        work == {r \in records' : r.case = x /\ r.kept} IN
      IF c = NoCampaign
      THEN /\ links'[x].email # NoEmail /\ caseOf'[links'[x].email] = x
           /\ \A r \in work : r.kind # "event" => r.kind = "reply" /\ r.email # NoEmail
      ELSE /\ \A y \in CaseIds \ {x} : links'[y].campaign # c
           /\ \A r \in work :
                \/ c \in r.campaigns
                \/ r.kind = "reply" /\ r.email # NoEmail
                \/ r.kind = "intelligence"
  BY DEF ProjectionIsComplete
<1>1. \A r \in records' : \E s \in records :
        /\ r = Converted(s) /\ r.kind = s.kind /\ r.case = s.case
        /\ r.kind # "event" => r.email = s.email
  BY ConvertedFacts DEF Start
<1>2. caseOf' = caseOf
  BY DEF Start
<1>3. CASE x \in ToConvert /\ CampaignFor(x) = NoCampaign
  <2>1. links'[x].campaign = NoCampaign /\ links'[x].email = OnlyEmail(x)
    BY <1>3, StartLinks
  <2>2. \A r \in records' : r.case = x /\ r.kind # "event" =>
                            r.kind = "reply" /\ r.email # NoEmail
    BY <1>1, <1>3, DroppedIsEmpty
  <2> QED
    BY <1>2, <1>3, <2>1, <2>2, DroppedIsEmpty
<1>4. CASE x \in ToConvert /\ CampaignFor(x) # NoCampaign
  <2>1. links'[x].campaign = CampaignFor(x)
    BY <1>4, StartLinks
  <2>2. \A y \in CaseIds \ {x} : links'[y].campaign # links'[x].campaign
    BY <1>4, <2>1, StartSeparates
  <2>3. ASSUME NEW r \in records', r.case = x
        PROVE  \/ CampaignFor(x) \in r.campaigns
               \/ r.kind = "reply" /\ r.email # NoEmail
               \/ r.kind = "intelligence"
    <3>1. PICK s \in records : /\ r = Converted(s)
                               /\ r.kind = s.kind /\ r.case = s.case
                               /\ r.kind # "event" => r.email = s.email
      BY <1>1
    <3>2. s.case = x
      BY <2>3, <3>1
    <3>3. \/ CampaignFor(x) \in r.campaigns
          \/ s.kind = "reply" /\ s.email # NoEmail
          \/ s.kind = "intelligence"
      BY <1>4, <3>1, <3>2, ConvertedFacts
    <3> QED
      BY <3>1, <3>3
  <2> QED
    BY <1>4, <2>1, <2>2, <2>3
<1>5. CASE x \notin ToConvert
  <2>1. links'[x] = links[x]
    BY <1>5, StartLinks
  <2>2. \A r \in records' : r.case = x => r \in records
    BY <1>1, <1>5, ConvertedFacts
  <2>3. links'[x].campaign # NoCampaign =>
          \A y \in CaseIds \ {x} : links'[y].campaign # links'[x].campaign
    BY StartSeparates
  <2> QED
    BY <1>2, <2>1, <2>2, <2>3 DEF IInv, ProjectionIsComplete
<1> QED
  BY <1>3, <1>4, <1>5

LEMMA StartKeeps ==
  ASSUME IInv, Start
  PROVE  IInv'
<1>1. ASSUME NEW x \in CaseIds, links'[x] # Unconverted
      PROVE  links'[x].campaign \in Made' \cup {NoCampaign}
  <2>1. CASE x \in ToConvert
    BY <2>1, StartLinks, StartIds, StartMakes
  <2>2. CASE x \notin ToConvert
    BY <1>1, <2>2, StartLinks, StartMakes DEF IInv, LinksAreMade
  <2> QED
    BY <2>1, <2>2
<1>2. LinksAreMade'
  BY <1>1 DEF LinksAreMade
<1> QED
  BY <1>2, StartTables, StartCounts, StartProjects DEF IInv

----------------------------------------------------------------------------
(* The specification.                                                      *)

LEMMA InitIInv ==
  ASSUME Init
  PROVE  IInv /\ calls \in 0..MaxCalls
<1>1. Made = {}
  BY DEF Init, Made
<1>2. Tables
  BY DEF Init, Tables, CaseRows, Missing
<1>3. \A x \in CaseIds : links[x] = Unconverted
  BY DEF Init
<1>4. calls \in 0..MaxCalls
  BY BoundsAssumption DEF Init
<1> QED
  BY <1>1, <1>2, <1>3, <1>4 DEF IInv, IdsCount, LinksAreMade, ProjectionIsComplete

LEMMA PublishedKeeps ==
  ASSUME IInv, PublishedVersion
  PROVE  IInv'
<1>1. PICK x \in CaseIds :
        \/ \E e \in Emails, automatic \in BOOLEAN : OldCase(x, e, automatic)
        \/ \E kind \in {"note", "action", "reply", "intelligence"}, p \in BOOLEAN :
             OldWork(x, kind, p)
        \/ OldClose(x)
        \/ OldCampaign(x)
  BY DEF PublishedVersion
<1> QED
  BY <1>1, OldCaseKeeps, OldWorkKeeps, OldCloseKeeps, OldCampaignKeeps

LEMMA RequestKeeps ==
  ASSUME IInv, Request
  PROVE  IInv'
<1>1. CASE \E x \in CaseIds :
             \/ \E status \in {"open", "closed"} :
                  CreateCase(x, status) \/ UpdateCase(x, status)
             \/ AddNote(x)
             \/ \E c \in CampaignIds : AttachCase(c, x) \/ DetachCase(c, x)
  BY <1>1, CaseRouteKeeps, NoteKeeps, GroupingKeeps
<1>2. CASE \E x \in CaseIds \cup {NoCase}, c \in CampaignIds \cup {NoCampaign} :
             \E e \in Emails \cup {NoEmail} :
               \/ \E p \in BOOLEAN : CreateAction(x, c, e, p)
               \/ CreateReply(x, c, e)
  BY <1>2, WorkKeeps
<1>3. CASE \E x \in CaseIds \cup {NoCase}, c \in CampaignIds \cup {NoCampaign} :
             \/ Room /\ SaveIntelligence({}, x, c)
             \/ \E r \in records :
                  r.kind = "intelligence" /\ SaveIntelligence({r}, x, c)
  <2>1. \A r \in records : {r} \in SUBSET records
    OBVIOUS
  <2>2. {} \in SUBSET records
    OBVIOUS
  <2> QED
    BY <1>3, <2>1, <2>2, IntelligenceKeeps
<1>4. CASE \E r \in records : SendReply(r) \/ \E p \in BOOLEAN : UpdateAction(r, p)
  BY <1>4, ProgressKeeps
<1>5. CASE \E e \in Emails :
             \/ \E x \in CaseIds \cup {NoCase} : Upload(e, x)
             \/ Settle(e)
             \/ \E retried \in BOOLEAN : Reopen(e, retried)
  BY <1>5, UploadKeeps, SettleKeeps, ReopenKeeps
<1>6. CASE \E c \in CampaignIds :
             \/ \E status \in {"open", "closed", "archived"} : UpdateCampaign(c, status)
             \/ \E emails \in SUBSET Emails :
                  \/ ChangeEmails(c, emails)
                  \/ \E status \in {"open", "closed"} : CreateCampaign(c, emails, status)
  BY <1>6, UpdateCampaignKeeps, GroupingKeeps, CreateCampaignKeeps
<1> QED
  BY <1>1, <1>2, <1>3, <1>4, <1>5, <1>6 DEF Request

LEMMA StutterKeeps ==
  ASSUME IInv, UNCHANGED vars
  PROVE  IInv'
<1> USE DEF vars, grouping
<1>1. Tables' /\ IdsCount' /\ LinksAreMade'
  BY DEF IInv, Tables, IdsCount, LinksAreMade, Made
<1>2. ProjectionIsComplete'
  BY DEF IInv, ProjectionIsComplete
<1> QED
  BY <1>1, <1>2 DEF IInv

LEMMA NextIInv ==
  ASSUME IInv, calls \in 0..MaxCalls, [Next]_vars
  PROVE  IInv' /\ calls' \in 0..MaxCalls
<1>1. IInv'
  BY PublishedKeeps, StartKeeps, RequestKeeps, StutterKeeps DEF Next
<1>2. calls' \in 0..MaxCalls
  BY BoundsAssumption DEF Next, vars
<1> QED
  BY <1>1, <1>2

\* The invariant of the archive, whatever is converted, requested and started
\* again, in any order.
THEOREM Inductive == Spec => [](IInv /\ calls \in 0..MaxCalls)
<1>1. Init => IInv /\ calls \in 0..MaxCalls
  BY InitIInv
<1>2. IInv /\ calls \in 0..MaxCalls /\ [Next]_vars =>
        (IInv /\ calls \in 0..MaxCalls)'
  BY NextIInv
<1> QED
  BY <1>1, <1>2, PTL DEF Spec

\* Every table holds rows of its columns.
THEOREM TypesAreKept == Spec => []TypeOK
<1>1. IInv /\ calls \in 0..MaxCalls => TypeOK
  BY DEF IInv, Tables, TypeOK
<1> QED
  BY <1>1, Inductive, PTL

\* A converted case leads to a campaign of its own, which holds its work, or to
\* the e-mail it was made for, and then it held none.
THEOREM ProjectionStaysComplete == Spec => []ProjectionIsComplete
<1>1. IInv => ProjectionIsComplete
  BY DEF IInv
<1> QED
  BY <1>1, Inductive, PTL

----------------------------------------------------------------------------
(* What a start keeps.                                                     *)

\* Every row has its image.
LEMMA StartKeepsRows ==
  ASSUME IInv, Start, NEW r \in records
  PROVE  \E s \in records' :
           /\ s.kind = r.kind /\ s.case = r.case /\ s.pending = r.pending
           /\ s.email = IF Reassigned(r) THEN links'[r.case].email ELSE r.email
           /\ r.kind \in {"event", "intelligence"} => r.campaigns \subseteq s.campaigns
<1>1. Converted(r) \in records'
  BY DEF Start
<1>2. Reassigned(r) <=> /\ r.kind = "event" /\ r.case \in ToConvert
                        /\ OnlyEmail(r.case) # NoEmail
  <2>1. CASE r.case \in ToConvert
    <3>1. r.case \in CaseIds /\ links[r.case] = Unconverted
      BY <2>1 DEF ToConvert
    <3>2. /\ links'[r.case].campaign = CampaignFor(r.case)
          /\ links'[r.case].email = OnlyEmail(r.case)
      BY <2>1, <3>1, StartLinks
    <3>3. CampaignFor(r.case) \in CampaignIds \cup {NoCampaign}
      BY <2>1, StartIds
    <3>4. links'[r.case] # Unconverted
      BY <3>2, <3>3 DEF Unconverted, CampaignIds, NoCampaign
    <3> QED
      BY <2>1, <3>1, <3>2, <3>4 DEF Reassigned
  <2>2. CASE r.case \notin ToConvert
    BY <2>2, StartLinks DEF Reassigned
  <2> QED
    BY <2>1, <2>2
<1>3. Reassigned(r) => links'[r.case].email = OnlyEmail(r.case)
  BY <1>2, StartLinks DEF ToConvert
<1> QED
  BY <1>1, <1>2, <1>3, ConvertedFacts

\* An e-mail joins the campaigns that had its case, and the new one.
LEMMA StartKeepsMembers ==
  ASSUME IInv, Start, NEW e \in Emails, NEW c \in CampaignIds
  PROVE  /\ e \in members[c] => e \in members'[c]
         /\ e \in members'[c] /\ e \notin members[c] =>
              \/ caseOf[e] \in linked[c]
              \/ campaigns[c] = "none" /\ links'[caseOf[e]].campaign = c
<1>1. members'[c] = members[c] \cup {f \in Emails : \E x \in ToConvert :
                                       caseOf[f] = x /\ c \in Memberships(x)}
  BY DEF Start
<1>2. ASSUME NEW x \in ToConvert, caseOf[e] = x, c \in Memberships(x), x \notin linked[c]
      PROVE  campaigns[c] = "none" /\ links'[x].campaign = c
  <2>1. CampaignFor(x) = c /\ c # NoCampaign
    BY <1>2 DEF Memberships, CampaignIds, NoCampaign
  <2>2. c \notin Made
    BY <2>1, StartIds
  <2>3. x \in CaseIds
    BY DEF ToConvert
  <2> QED
    BY <2>1, <2>2, <2>3, StartLinks DEF Made
<1> QED
  BY <1>1, <1>2

\* A start deletes no row, changes what a row is about only for the events of a
\* case with one e-mail, and takes no e-mail out of a campaign; it puts an
\* e-mail only into the campaigns of its case.
THEOREM StartsOnlyAdd == Spec => StartOnlyAdds
<1> DEFINE Added ==
      /\ \A r \in records : \E s \in records' :
           /\ s.kind = r.kind /\ s.case = r.case /\ s.pending = r.pending
           /\ s.email = IF Reassigned(r) THEN links'[r.case].email ELSE r.email
           /\ r.kind \in {"event", "intelligence"} => r.campaigns \subseteq s.campaigns
      /\ \A e \in Emails, c \in CampaignIds :
           /\ e \in members[c] => e \in members'[c]
           /\ e \in members'[c] /\ e \notin members[c] =>
                \/ caseOf[e] \in linked[c]
                \/ campaigns[c] = "none" /\ links'[caseOf[e]].campaign = c
<1>1. IInv /\ calls \in 0..MaxCalls /\ [Next]_vars => [Started => Added]_vars
  <2> SUFFICES ASSUME IInv, calls \in 0..MaxCalls, Next, Started
               PROVE  Added
    OBVIOUS
  <2>1. ~Request \/ calls' # calls + 1
    BY DEF Started
  <2>2. ~PublishedVersion
    BY DEF Started, PublishedVersion, OldCase, OldWork, OldClose, OldCampaign
  <2>3. Start
    BY <2>1, <2>2 DEF Next
  <2> QED
    BY <2>3, StartKeepsRows, StartKeepsMembers
<1> QED
  BY <1>1, Inductive, PTL DEF Spec, StartOnlyAdds
=============================================================================
