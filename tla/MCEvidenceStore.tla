--------------------------- MODULE MCEvidenceStore ---------------------------
(* Instances of EvidenceStore for TLC.                                     *)
EXTENDS EvidenceStore, TLC

KeySymmetry == Permutations(Keys) \cup Permutations(Contents)
=============================================================================
