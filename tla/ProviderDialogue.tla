--------------------------- MODULE ProviderDialogue ---------------------------
(***************************************************************************)
(* What an online operation promises (docs/ENRICHMENTS.md), with no clock, *)
(* quota, request_id or transaction: one question is with the provider at  *)
(* a time; only what the provider accepted is asked about again, a limited *)
(* number of times; a report, or the news that there is none, ends the     *)
(* operation; and a question that is lost changes nothing.                 *)
(***************************************************************************)
EXTENDS Naturals

CONSTANTS Ops, Requests, MaxPolls

VARIABLES
  status,   \* what the list of operations shows
  subject,  \* what was asked about, and on whose behalf
  news,     \* [external, visibility]: what the provider said of it
  polls,    \* how often it was asked again
  asking    \* the requests that are out

dialogueVars == <<status, subject, news, polls, asking>>

SaysTheSame(o) == status'[o] = status[o] /\ news'[o] = news[o]

KeepsSubject(o) == subject'[o] = subject[o]

AsksOnce(o) == asking[o] = {} /\ \E q \in Requests : asking'[o] = {q}

Stay(o) == /\ SaysTheSame(o) /\ KeepsSubject(o)
           /\ polls'[o] = polls[o] /\ asking'[o] = asking[o]

Begin(o) ==
  /\ status[o] = "absent"
  /\ status'[o] = "pending"
  /\ ~news'[o].external
  /\ polls'[o] = 0
  /\ AsksOnce(o)

AskAgain(o) ==
  /\ status[o] \in {"pending", "error"}
  /\ news[o].external
  /\ polls[o] < MaxPolls
  /\ polls'[o] = polls[o] + 1
  /\ AsksOnce(o)
  /\ SaysTheSame(o) /\ KeepsSubject(o)

Learn(o) ==
  /\ status[o] \in {"pending", "error"}
  /\ status'[o] # "absent"
  /\ news[o].external => news'[o].external
  /\ asking[o] # {} /\ asking'[o] = {}
  /\ polls'[o] = polls[o]
  /\ KeepsSubject(o)

Lose(o) ==
  /\ asking'[o] = {}
  /\ polls'[o] = polls[o]
  /\ SaysTheSame(o) /\ KeepsSubject(o)

DialogueInit == \A o \in Ops : status[o] = "absent" /\ asking[o] = {}

\* One operation goes on, or questions are lost: one with its result, or all
\* of them with the API.
DialogueNext ==
  \/ \E o \in Ops : /\ Begin(o) \/ AskAgain(o) \/ Learn(o)
                    /\ \A x \in Ops \ {o} : Stay(x)
  \/ \A o \in Ops : Lose(o) \/ Stay(o)

DialogueSpec == DialogueInit /\ [][DialogueNext]_dialogueVars
=============================================================================
