---------------------------- MODULE ReporterReply ----------------------------
(***************************************************************************)
(* Replies to the reporters of suspicious messages                         *)
(* (backend/investigation/workflows.py): drafts analysts edit under a      *)
(* revision, an explicit send, and a transport that cannot take part in a  *)
(* transaction.                                                            *)
(*                                                                         *)
(* A send is three steps with other handlers in between: a transaction     *)
(* that marks the reply "sending", the call of the transport with the row  *)
(* as it was read, and a transaction that stores what the transport said.  *)
(* The transport may deliver and still fail (a timeout after the message   *)
(* was taken), the process may be killed before, during or after the call, *)
(* and analysts may reconcile, edit and send again meanwhile.              *)
(*                                                                         *)
(* A text is the recipient, subject and body of a reply, as one value.     *)
(***************************************************************************)
EXTENDS Integers, Sequences, FiniteSets

CONSTANTS
  Replies,      \* ids of reporter_replies
  Analyses,     \* analyses a reply may be about
  Texts,        \* what a reply may say, and to whom
  Analysts,     \* users, each with one page open
  Requests,     \* slots for send requests the API is serving
  MaxRevision,  \* bound: edits, sends and reconciliations of one reply
  MaxLosses,    \* bound: API processes killed, result transactions failed
  NoAnalysis, NoPreview, NoCall

ASSUME BoundsAssumption == MaxRevision \in Nat \ {0} /\ MaxLosses \in Nat
ASSUME RequestsAssumption == IsFiniteSet(Requests)
ASSUME NoAnalysisAssumption == NoAnalysis \notin Analyses

Versions == 1..MaxRevision

\* A row of reporter_replies; reconciled: reconciliation_proof is not ''.
Rows == [status : {"draft", "sending", "uncertain", "accepted", "failed"},
         revision : Versions, text : Texts,
         analysis : Analyses \cup {NoAnalysis}, reconciled : BOOLEAN]

\* What an analyst last read (preview_reply), and what a request holds in
\* its local variables row and state; shown is the sender's preview.
Previews == [reply : Replies, revision : Versions, text : Texts]
Calls == [reply : Replies, revision : Versions, text : Texts, shown : Texts,
          state : {"asked", "accepted", "uncertain"}]

ASSUME NoPreviewAssumption == NoPreview \notin Previews
ASSUME NoCallAssumption == NoCall \notin Calls

VARIABLES
  drafted,   \* the ids that have a row
  row,       \* the rows
  decision,  \* analyst_decisions: the action of the latest row
  seen,      \* what each analyst has on the page
  call,      \* the send requests under way
  mail,      \* history: what the transport delivered, per reply
  refuted,   \* history: reconciliations that found a transmission failed
  orphaned,  \* history: replies whose send request was lost
  losses     \* bound on ApiCrash and ResultLost

vars == <<drafted, row, decision, seen, call, mail, refuted, orphaned, losses>>

\* The defaults of the table.
Blank(t, a) == [status |-> "draft", revision |-> 1, text |-> t,
                analysis |-> a, reconciled |-> FALSE]

Init ==
  /\ drafted = {}
  /\ row \in [Replies -> {Blank(t, NoAnalysis) : t \in Texts}]
  /\ decision = [a \in Analyses |-> "none"]
  /\ seen = [c \in Analysts |-> NoPreview]
  /\ call = [q \in Requests |-> NoCall]
  /\ mail = [r \in Replies |-> <<>>]
  /\ refuted = [r \in Replies |-> 0]
  /\ orphaned = {}
  /\ losses = 0

----------------------------------------------------------------------------
(* Decisions and drafts.                                                   *)

\* PUT /analyses/{id}/decision
Decide(a) ==
  /\ decision[a] # "decided"
  /\ decision' = [decision EXCEPT ![a] = "decided"]
  /\ UNCHANGED <<drafted, row, seen, call, mail, refuted, orphaned, losses>>

\* POST /analyses/{id}/decision/reopen
Reopen(a) ==
  /\ decision[a] = "decided"
  /\ decision' = [decision EXCEPT ![a] = "reopened"]
  /\ UNCHANGED <<drafted, row, seen, call, mail, refuted, orphaned, losses>>

\* create_reply
CreateReply(r, t, a) ==
  /\ r \notin drafted
  /\ drafted' = drafted \cup {r}
  /\ row' = [row EXCEPT ![r] = Blank(t, a)]
  /\ UNCHANGED <<decision, seen, call, mail, refuted, orphaned, losses>>

\* preview_reply, or the list of replies.
Preview(c, r) ==
  /\ r \in drafted
  /\ seen' = [seen EXCEPT ![c] = [reply |-> r, revision |-> row[r].revision,
                                  text |-> row[r].text]]
  /\ UNCHANGED <<drafted, row, decision, call, mail, refuted, orphaned, losses>>

\* data.revision == row["revision"], for the revision of c's page.
AnyVersion(c, r) == seen[c] # NoPreview /\ seen[c].reply = r

UpToDate(c, r) ==
  /\ seen[c] # NoPreview
  /\ seen[c].reply = r
  /\ seen[c].revision = row[r].revision

SameRevision(r) == row[r].revision

Bumped(r) == row[r].revision + 1

\* update_reply: the reply becomes a draft again.
UpdateReply(c, r, t, a) ==
  /\ r \in drafted
  /\ UpToDate(c, r)
  /\ row[r].status \in {"draft", "failed"}
  /\ row[r].analysis \in {NoAnalysis, a}
  /\ Bumped(r) \in Versions
  /\ row' = [row EXCEPT ![r] = [status |-> "draft", revision |-> Bumped(r),
                                text |-> t, analysis |-> a,
                                reconciled |-> FALSE]]
  /\ UNCHANGED <<drafted, decision, seen, call, mail, refuted, orphaned, losses>>

----------------------------------------------------------------------------
(* send_reply.                                                             *)

\* The states a reply may be sent from.
SendableUnlessAccepted == {"draft", "failed", "sending", "uncertain"}

Sendable == {"draft"}

\* An analysis the reply is about has an active decision.
Qualified(r) ==
  row[r].analysis \in {NoAnalysis} \cup {a \in Analyses : decision[a] = "decided"}

\* First transaction: the row is read, checked and marked.
RequestSend(q, c, r) ==
  /\ call[q] = NoCall
  /\ r \in drafted
  /\ UpToDate(c, r)
  /\ row[r].status \in Sendable
  /\ Qualified(r)
  /\ row[r].revision < MaxRevision
  /\ call' = [call EXCEPT ![q] =
                [reply |-> r, revision |-> row[r].revision, text |-> row[r].text,
                 shown |-> seen[c].text, state |-> "asked"]]
  /\ row' = [row EXCEPT ![r] = [row[r] EXCEPT !.status = "sending",
                                             !.revision = row[r].revision + 1]]
  /\ UNCHANGED <<drafted, decision, seen, mail, refuted, orphaned, losses>>

\* transport(recipient, subject, body): accepted, or an exception with or
\* without the message on its way.
Transport(q) ==
  /\ call[q] # NoCall
  /\ call[q].state = "asked"
  /\ \E delivered \in BOOLEAN, said \in {"accepted", "uncertain"} :
       /\ said = "accepted" => delivered
       /\ call' = [call EXCEPT ![q].state = said]
       /\ mail' = IF delivered
                  THEN [mail EXCEPT ![call[q].reply] = Append(@, call[q])]
                  ELSE mail
  /\ UNCHANGED <<drafted, row, decision, seen, refuted, orphaned, losses>>

\* WHERE id=? AND status='sending' AND revision=?
ByIdAlone(k) == TRUE

StillSending(k) == row[k.reply].status = "sending"

ExpectsOldRevision(k) ==
  row[k.reply].status = "sending" /\ row[k.reply].revision = k.revision

Unreconciled(k) ==
  /\ row[k.reply].status = "sending"
  /\ row[k.reply].revision = k.revision + 1

\* Second transaction: the result is stored, or only audited.
StoreResult(q) ==
  /\ call[q] # NoCall
  /\ call[q].state # "asked"
  /\ row' = IF Unreconciled(call[q])
            THEN [row EXCEPT ![call[q].reply].status = call[q].state]
            ELSE row
  /\ call' = [call EXCEPT ![q] = NoCall]
  /\ UNCHANGED <<drafted, decision, seen, mail, refuted, orphaned, losses>>

\* The second transaction fails (the database stays locked, the disk is full).
ResultLost(q) ==
  /\ losses < MaxLosses
  /\ losses' = losses + 1
  /\ call[q] # NoCall
  /\ call[q].state # "asked"
  /\ call' = [call EXCEPT ![q] = NoCall]
  /\ orphaned' = orphaned \cup {call[q].reply}
  /\ UNCHANGED <<drafted, row, decision, seen, mail, refuted>>

\* The web process is killed, with every request it is serving.
ApiCrash ==
  /\ losses < MaxLosses
  /\ losses' = losses + 1
  /\ \E q \in Requests : call[q] # NoCall
  /\ call' = [q \in Requests |-> NoCall]
  /\ orphaned' = orphaned \cup
       {call[q].reply : q \in {p \in Requests : call[p] # NoCall}}
  /\ UNCHANGED <<drafted, row, decision, seen, mail, refuted>>

\* reconcile_reply: an analyst records what the transport really did, or
\* believes it did.
Reconcile(c, r, outcome) ==
  /\ r \in drafted
  /\ UpToDate(c, r)
  /\ row[r].status \in {"sending", "uncertain"}
  /\ Bumped(r) \in Versions
  /\ row' = [row EXCEPT ![r] = [row[r] EXCEPT !.status = outcome,
                                             !.reconciled = TRUE,
                                             !.revision = Bumped(r)]]
  /\ refuted' = [refuted EXCEPT ![r] = IF outcome = "failed" THEN @ + 1 ELSE @]
  /\ UNCHANGED <<drafted, decision, seen, call, mail, orphaned, losses>>

ServeSend(q) == Transport(q) \/ StoreResult(q)

Next ==
  \/ \E a \in Analyses : Decide(a) \/ Reopen(a)
  \/ \E r \in Replies, t \in Texts, a \in Analyses \cup {NoAnalysis} :
       \/ CreateReply(r, t, a)
       \/ \E c \in Analysts : UpdateReply(c, r, t, a)
  \/ \E c \in Analysts, r \in Replies :
       \/ Preview(c, r)
       \/ \E q \in Requests : RequestSend(q, c, r)
       \/ \E outcome \in {"accepted", "failed"} : Reconcile(c, r, outcome)
  \/ \E q \in Requests : ServeSend(q) \/ ResultLost(q)
  \/ ApiCrash

Spec == Init /\ [][Next]_vars

(* The SMTP transport has a timeout of 15 seconds and the second            *)
(* transaction follows at once: a request that is not lost goes on.         *)
Fairness(q) == WF_vars(ServeSend(q))

FairSpec == Spec /\ \A q \in Requests : Fairness(q)

----------------------------------------------------------------------------
(* Properties.                                                             *)

\* The columns of a reply, the pages and the requests under way.
TypeOK ==
  /\ drafted \subseteq Replies
  /\ row \in [Replies -> Rows]
  /\ decision \in [Analyses -> {"none", "decided", "reopened"}]
  /\ seen \in [Analysts -> Previews \cup {NoPreview}]
  /\ call \in [Requests -> Calls \cup {NoCall}]
  /\ mail \in [Replies -> Seq(Calls)]
  /\ refuted \in [Replies -> Nat]
  /\ orphaned \subseteq Replies
  /\ losses \in 0..MaxLosses

\* "An analyst explicitly sends the exact preview revision"
\* (docs/folio-workflows.md): what the transport is given is what the page of
\* the sender showed, whatever colleagues edited since.
PreviewIsSent ==
  \A r \in Replies : \A i \in DOMAIN mail[r] : mail[r][i].text = mail[r][i].shown

\* A reply whose acceptance the transport reported says what was delivered:
\* no result of an earlier transmission can accept a later draft.
AcceptedAsDelivered ==
  \A r \in Replies :
    row[r].status = "accepted" /\ ~row[r].reconciled =>
      \E i \in DOMAIN mail[r] : /\ mail[r][i].text = row[r].text
                                /\ mail[r][i].revision = row[r].revision - 1

\* "avoiding duplicate replies": crashes, timeouts and clients that repeat a
\* request never deliver a reply again; only an analyst who finds that a
\* transmission failed allows one more.
OneDeliveryPerVerdict ==
  \A r \in Replies : Len(mail[r]) <= 1 + refuted[r]

\* "surfaces HTTP 409 rather than overwriting a colleague's work": a text is
\* only replaced by an analyst whose page shows that very text.
NoLostEdit ==
  [][\A r \in drafted :
       row'[r].text # row[r].text =>
         \E c \in Analysts : /\ seen[c] # NoPreview
                             /\ seen[c].reply = r
                             /\ seen[c].text = row[r].text]_vars

\* "A late transport result cannot overwrite a concurrently reconciled
\* revision"; "accepted replies cannot be edited or resent": a verdict stands
\* until an analyst edits the reply it found failed.
VerdictStands ==
  [][\A r \in drafted :
       /\ row[r].status = "accepted" => row'[r] = row[r]
       /\ row[r].reconciled /\ row'[r] # row[r] =>
            row'[r].status = "draft" /\ row'[r].revision > row[r].revision]_vars

\* What an abstract reply is here: an id without a row is absent, a letter is
\* what a request took along, and it is under way until the transport answers.
State(r) == IF r \in drafted THEN row[r].status ELSE "absent"

Letter(k) == [edition |-> k.revision, text |-> k.text]

\* The requests for a reply whose transport has not answered.
Asked(r) == {q \in Requests : call[q] # NoCall /\ call[q].reply = r
                                             /\ call[q].state = "asked"}

Underway(r) == {Letter(call[q]) : q \in Asked(r)}

Delivered(r) == [i \in DOMAIN mail[r] |-> Letter(mail[r][i])]

Promise == INSTANCE Correspondence WITH
  state <- [r \in Replies |-> State(r)],
  text <- [r \in Replies |-> row[r].text],
  edition <- [r \in Replies |-> row[r].revision],
  underway <- [r \in Replies |-> Underway(r)],
  delivered <- [r \in Replies |-> Delivered(r)]

\* Whatever is repeated, lost, late or reconciled meanwhile, each edition goes
\* out once at most and as it read; only what was delivered is reported as
\* accepted; and an accepted reply is never edited or sent again.
RefinesCorrespondence == Promise!CorrespondenceSpec

\* A reply does not stay "sending" for ever unless its request was lost; and
\* then it stays for an analyst to see.
SendingEnds ==
  \A r \in Replies :
    row[r].status = "sending" ~> row[r].status # "sending" \/ r \in orphaned
=============================================================================
