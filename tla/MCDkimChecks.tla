----------------------------- MODULE MCDkimChecks -----------------------------
(* Instances of DkimChecks for TLC.                                        *)
EXTENDS DkimChecks
=============================================================================
