----------------------------- MODULE MCMailOutbox -----------------------------
(***************************************************************************)
(* A password reset, another mail and two runs of the cron.                *)
(***************************************************************************)
EXTENDS MailOutbox, TLC

CONSTANTS reset, other, c1, c2, noMail, noRun

MCRank == (reset :> 1) @@ (other :> 2)

MCBackoff == <<1, 2>>

=============================================================================
