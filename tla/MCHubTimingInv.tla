--------------------------- MODULE MCHubTimingInv ---------------------------
(* The instances of MCHubTiming, within the assumptions of HubTimingInv. *)
EXTENDS MCHubTiming, HubTimingInv
=============================================================================
