------------------------ MODULE MCCampaignOrgLimiter ------------------------
(***************************************************************************)
(* Small instances of CampaignOrgLimiter for TLC: jobs are interchangeable   *)
(* model values.                                                             *)
(***************************************************************************)
EXTENDS CampaignOrgLimiter, TLC

CONSTANTS j1, j2, j3

JobSymmetry == Permutations({j1, j2, j3})
=============================================================================
