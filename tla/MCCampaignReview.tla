---------------------------- MODULE MCCampaignReview ----------------------------
(***************************************************************************)
(* The instances of CampaignReview that TLC checks.                        *)
(***************************************************************************)
EXTENDS CampaignReview
=============================================================================
