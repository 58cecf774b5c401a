-------------------------- MODULE MCGatewayCapture --------------------------
(***************************************************************************)
(* Small instances of GatewayCapture for TLC.  Two checkouts of an invoice of  *)
(* two units, each for all that was due when it was begun: the first while a     *)
(* manual payment covered one unit, the second after that payment was reversed;  *)
(* a declined attempt of the first is reported late or early.  And one checkout   *)
(* with both of the success events of its charge.                             *)
(***************************************************************************)
EXTENDS GatewayCapture

OneInvoice == [s \in Sessions |-> "inv"]
AllThatWasDue == [s \in Sessions |-> IF s = "s1" THEN 1 ELSE 2]
TwoInAll == [i \in Invoices |-> 2]
TwoCheckouts == {<<"s1", "captured">>, <<"s1", "failed">>, <<"s2", "captured">>}
BothSuccesses == {<<"s1", "captured">>, <<"s1", "paid">>}
=============================================================================
