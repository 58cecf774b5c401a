--------------------------- MODULE MCEmailDispatch ---------------------------
(***************************************************************************)
(* Small instances of EmailDispatch for TLC: mails and processes are model   *)
(* values, processes are interchangeable.                                    *)
(***************************************************************************)
EXTENDS EmailDispatch, TLC

CONSTANTS m1, m2, p1, p2

ProcSymmetry == Permutations({p1, p2})
=============================================================================
