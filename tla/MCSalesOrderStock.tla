------------------------- MODULE MCSalesOrderStock -------------------------
(***************************************************************************)
(* Small instances of SalesOrderStock for TLC: lines of two units, and workers *)
(* as interchangeable model values.                                         *)
(***************************************************************************)
EXTENDS SalesOrderStock

CONSTANTS w1, w2

TwoEach == [o \in Orders |-> 2]
WorkerSymmetry == Permutations({w1, w2})
=============================================================================
