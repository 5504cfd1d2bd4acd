---------------------------- MODULE MCEnrichments ----------------------------
(* Instances of Enrichments for TLC.                                       *)
EXTENDS Enrichments, TLC

SlotSymmetry ==
  Permutations(Quota) \cup Permutations(Requests) \cup Permutations(Ops)
    \cup Permutations(Keys)
=============================================================================
