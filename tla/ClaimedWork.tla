----------------------------- MODULE ClaimedWork -----------------------------
(***************************************************************************)
(* What a queue of jobs that one agent polls promises: a job is claimed once,  *)
(* carried out at most once, and ended at most once; an ended job is never      *)
(* carried out.                                                             *)
(***************************************************************************)
CONSTANT Jobs

VARIABLE stage

Init == stage = [j \in Jobs |-> "absent"]

Advance(j, from, to) ==
    /\ stage[j] \in from
    /\ stage' = [stage EXCEPT ![j] = to]

Next == \E j \in Jobs :
    \/ Advance(j, {"absent"}, "queued")
    \/ Advance(j, {"queued"}, "claimed")
    \/ Advance(j, {"claimed"}, "carriedOut")
    \/ Advance(j, {"claimed", "carriedOut"}, "ended")

Spec == Init /\ [][Next]_stage
=============================================================================
