-------------------------- MODULE MCIdentityLedger --------------------------
(* Three processes, so that two of them wait while a third is stopped in    *)
(* the middle; a limit that the longest behaviours reach.                   *)
EXTENDS IdentityLedger
=============================================================================
