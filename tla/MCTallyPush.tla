----------------------------- MODULE MCTallyPush -----------------------------
(***************************************************************************)
(* A small instance of TallyPush for TLC: polls and flushes are model values. *)
(***************************************************************************)
EXTENDS TallyPush

CONSTANTS p1, p2, f1, f2

OneRow == {1}
=============================================================================
