------------------------ MODULE MCCampaignInventory ------------------------
(***************************************************************************)
(* A small instance of CampaignInventory for TLC.                          *)
(***************************************************************************)
EXTENDS CampaignInventory, TLC

CONSTANTS c1, p1, f1, f2
=============================================================================
