-------------------------- MODULE ImmutableEvidence --------------------------
(***************************************************************************)
(* What the evidence store promises to whoever reads from it: "Original    *)
(* files and attachment bytes are immutable" (docs/ARCHITECTURE.md), with  *)
(* no directory, key, digest, transaction, migration or kill: evidence     *)
(* appears whole and stays as it appeared.                                 *)
(* The original of a message is there from the moment its analysis is, its *)
(* attachments from the moment its result is, and a backup holds exactly   *)
(* what could be read at one moment, however long it takes to make.        *)
(*                                                                         *)
(* evidence[s] is what a download of s returns.  A release that starts on  *)
(* the data of an older one finds evidence already there.                  *)
(***************************************************************************)
CONSTANTS Analyses, Positions, Contents, NoBytes, Original

VARIABLES
  evidence,  \* the bytes each slot shows, or NoBytes
  finished,  \* analyses that show a result
  bundle     \* what the latest backup holds; empty when there is none

evidenceVars == <<evidence, finished, bundle>>

Slots == Analyses \X ({Original} \cup Positions)

Readings == [Slots -> Contents \cup {NoBytes}]

\* Everything there is to read, as one value.
Now == [evidence |-> evidence, finished |-> finished]

OnlyChanges(slots) == \A s \in Slots \ slots : evidence'[s] = evidence[s]

\* A message is uploaded and acknowledged.
Upload(a) ==
  /\ evidence[<<a, Original>>] = NoBytes
  /\ evidence' \in Readings
  /\ evidence'[<<a, Original>>] \in Contents
  /\ OnlyChanges({<<a, Original>>})
  /\ UNCHANGED <<finished, bundle>>

\* The result of an analysis appears, with every attachment it names.
Finish(a) ==
  /\ evidence[<<a, Original>>] # NoBytes
  /\ a \notin finished
  /\ \A p \in Positions : evidence[<<a, p>>] = NoBytes
  /\ finished' = finished \cup {a}
  /\ evidence' \in Readings
  /\ OnlyChanges({a} \X Positions)
  /\ UNCHANGED bundle

\* A backup is started.
BackUp ==
  /\ bundle = {}
  /\ bundle' = {Now}
  /\ UNCHANGED <<evidence, finished>>

\* It is given up, or another one takes its place.
Discard ==
  /\ bundle # {}
  /\ bundle' = {}
  /\ UNCHANGED <<evidence, finished>>

EvidenceInit ==
  /\ evidence \in Readings
  /\ finished \subseteq {a \in Analyses : evidence[<<a, Original>>] # NoBytes}
  /\ \A s \in Slots : evidence[s] # NoBytes => s[2] = Original \/ s[1] \in finished
  /\ bundle = {}

EvidenceNext ==
  \/ \E a \in Analyses : Upload(a) \/ Finish(a)
  \/ BackUp
  \/ Discard

EvidenceSpec == EvidenceInit /\ [][EvidenceNext]_evidenceVars
=============================================================================
