----------------------------- MODULE StockLevel -----------------------------
(***************************************************************************)
(* What the inventory promises the sales orders that draw on one variant at  *)
(* one location: goods leave against an order only while they are there and   *)
(* only up to what was ordered, and come back only if they left.             *)
(***************************************************************************)
EXTENDS Integers, Functions

CONSTANTS
    Orders,    \* the sales orders
    Quantity,  \* what each of them orders
    Opening    \* the opening balance

VARIABLE issued  \* what has left against each order

InStock == Opening - FoldFunction(+, 0, issued)

Init == issued = [o \in Orders |-> 0]

Issue(o) ==
    \E q \in 1 .. Quantity[o] :
        /\ q <= InStock
        /\ issued[o] + q <= Quantity[o]
        /\ issued' = [issued EXCEPT ![o] = @ + q]

Return(o) ==
    \E q \in 1 .. issued[o] : issued' = [issued EXCEPT ![o] = @ - q]

Next == \E o \in Orders : Issue(o) \/ Return(o)

Spec == Init /\ [][Next]_issued
=============================================================================
