-------------------------- MODULE MCCampaignRunner --------------------------
(* Small instances of CampaignRunner: a plan of two units. *)
EXTENDS CampaignRunner

CONSTANTS u1, u2

MCPlan == <<u1, u2>>
=============================================================================
