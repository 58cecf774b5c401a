--------------------------- MODULE MCCampaignSend ---------------------------
(***************************************************************************)
(* Small instances of CampaignSend for TLC.  Recipients and sends are model *)
(* values.  The sends are interchangeable (SendSymmetry); the recipients are *)
(* not where Rejectable tells them apart.                                   *)
(***************************************************************************)
EXTENDS CampaignSend, TLC

CONSTANTS r1, r2, r3, s1, s2

TwoRecipients == {r1, r2}
ThreeRecipients == {r1, r2, r3}
SendSymmetry == Permutations({s1, s2})

=============================================================================
