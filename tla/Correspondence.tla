---------------------------- MODULE Correspondence ----------------------------
(***************************************************************************)
(* What the replies to reporters promise (docs/folio-workflows.md), with   *)
(* no page, request, transaction or lost process: each edition of a reply  *)
(* goes out at most once and as it read, an acceptance is only reported    *)
(* for what was delivered, and what was accepted is never edited or sent   *)
(* again, however late the transport answers.                              *)
(*                                                                         *)
(* A transmission is under way from the sending until the transport has    *)
(* delivered it or has not; the reply does not wait for it.  An API that   *)
(* is killed loses several at once, so a step lets every reply make one    *)
(* move or stay.                                                           *)
(***************************************************************************)
EXTENDS Naturals, Sequences

CONSTANT Replies

VARIABLES
  state,     \* what the list of replies shows
  text,      \* to whom and what
  edition,   \* how often the reply was edited, sent or judged
  underway,  \* transmissions the transport may still deliver
  delivered  \* what it delivered, in order

correspondenceVars == <<state, text, edition, underway, delivered>>

\* The reply as a transmission carries it.
Letter(r) == [edition |-> edition[r], text |-> text[r]]

\* The letter the latest sending took along.
Sent(r) == [edition |-> edition[r] - 1, text |-> text[r]]

InTheBooks(r, letter) == \E i \in DOMAIN delivered[r] : delivered[r][i] = letter

Moves(r, from, to) == state[r] \in from /\ state'[r] \in to

NewEdition(r) == edition'[r] = edition[r] + 1

KeepsText(r) == text'[r] = text[r]

KeepsMail(r) == underway'[r] = underway[r] /\ delivered'[r] = delivered[r]

Rests(r) == /\ state'[r] = state[r]
            /\ edition'[r] = edition[r]
            /\ KeepsText(r)

Write(r) ==
  /\ Moves(r, {"absent"}, {"draft"})
  /\ edition'[r] = 1
  /\ KeepsMail(r)

Edit(r) ==
  /\ Moves(r, {"draft", "failed"}, {"draft"})
  /\ NewEdition(r)
  /\ KeepsMail(r)

Send(r) ==
  /\ Moves(r, {"draft"}, {"sending"})
  /\ NewEdition(r)
  /\ KeepsText(r)
  /\ underway'[r] = underway[r] \cup {Letter(r)}
  /\ delivered'[r] = delivered[r]

\* The result of the latest transmission is stored.
Report(r) ==
  /\ Moves(r, {"sending"}, {"accepted", "uncertain"})
  /\ state'[r] = "accepted" => InTheBooks(r, Sent(r))
  /\ edition'[r] = edition[r]
  /\ KeepsText(r)
  /\ KeepsMail(r)

\* An analyst says what became of it.
Judge(r) ==
  /\ Moves(r, {"sending", "uncertain"}, {"accepted", "failed"})
  /\ NewEdition(r)
  /\ KeepsText(r)
  /\ KeepsMail(r)

Deliver(r) ==
  /\ \E letter \in underway[r] :
       /\ underway'[r] = underway[r] \ {letter}
       /\ delivered'[r] = Append(delivered[r], letter)
  /\ Rests(r)

\* The transport fails, or the request is killed before it is called.
Lose(r) ==
  /\ underway'[r] \subseteq underway[r]
  /\ delivered'[r] = delivered[r]
  /\ Rests(r)

Stay(r) == Rests(r) /\ KeepsMail(r)

Proceed(r) ==
  \/ Write(r)
  \/ Edit(r)
  \/ Send(r)
  \/ Report(r)
  \/ Judge(r)
  \/ Deliver(r)
  \/ Lose(r)

CorrespondenceInit ==
  \A r \in Replies : /\ state[r] = "absent"
                     /\ underway[r] = {}
                     /\ delivered[r] = <<>>

CorrespondenceNext == \A r \in Replies : Proceed(r) \/ Stay(r)

CorrespondenceSpec == CorrespondenceInit /\ [][CorrespondenceNext]_correspondenceVars
=============================================================================
