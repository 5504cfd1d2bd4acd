------------------------------ MODULE MCAccounts ------------------------------
(* The instance of Accounts for TLC: its constants are in MCAccounts.cfg.  *)
EXTENDS Accounts
=============================================================================
