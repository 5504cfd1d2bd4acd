---------------------------- MODULE MCReporterReply ----------------------------
(* Instances of ReporterReply for TLC.                                     *)
EXTENDS ReporterReply
=============================================================================
