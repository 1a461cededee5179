------------------------- MODULE MCServiceCampaign -------------------------
(* Two sessions, so that one is skipped or follows while the other is       *)
(* resumed, of two slots (three where a session must pause twice), one of   *)
(* which restarts the service.  Two runner processes: one that is waited    *)
(* for and one left behind.                                                 *)
EXTENDS ServiceCampaign
=============================================================================
