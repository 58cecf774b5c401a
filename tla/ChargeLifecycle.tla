-------------------------- MODULE ChargeLifecycle --------------------------
(***************************************************************************)
(* What the gateway pipeline promises of every charge a provider made: it is  *)
(* recorded as a payment at least once, then one of these is applied to the     *)
(* invoice, and only then is its checkout session settled, with one that was    *)
(* applied; no stage is skipped or taken back.                               *)
(***************************************************************************)
CONSTANT Charges

VARIABLE stage

Init == stage = [c \in Charges |-> "open"]

Advance(c, from, to) ==
    /\ stage[c] = from
    /\ stage' = [stage EXCEPT ![c] = to]

Next == \E c \in Charges :
    \/ Advance(c, "open", "recorded")
    \/ Advance(c, "recorded", "applied")
    \/ Advance(c, "applied", "settled")

Spec == Init /\ [][Next]_stage
=============================================================================
