----------------------------- MODULE MCCaseArchive -----------------------------
(* A small instance of CaseArchive. *)
EXTENDS CaseArchive, TLC
Symmetry == Permutations(Emails)
=============================================================================
