--------------------------- MODULE MCWorkspacePage ---------------------------
(* Instances of WorkspacePage for TLC.                                     *)
EXTENDS WorkspacePage
=============================================================================
