----------------------------- MODULE MCCampaigns -----------------------------
(* Instances of Campaigns for TLC.                                         *)
EXTENDS Campaigns

\* Every e-mail but one belongs to the archived case.
Filing == LET independent == CHOOSE e \in Emails : TRUE
          IN [e \in Emails |-> IF e = independent THEN NoCase
                               ELSE CHOOSE x \in Cases : TRUE]
=============================================================================
