------------------------- MODULE CampaignOrgLimiter -------------------------
(***************************************************************************)
(* The send slots of an organisation: every worker that runs a campaign send *)
(* takes a slot first, counted in one Redis key.                             *)
(*                                                                          *)
(*   server/services/marketing/campaignSendOrgLimiter.js   the Redis path    *)
(*   server/services/marketing/campaignSendQueueService.js its only caller   *)
(*                                                                          *)
(* Each Redis command is a step; between two of them the commands of other   *)
(* workers fall.  The key of an absent counter reads as 0, so absence and 0   *)
(* are one value here.  The key lives 30 minutes from its last PEXPIRE, and a *)
(* worker that waits for a slot renews it every 200 ms: it can expire only    *)
(* while no worker is waiting.                                               *)
(***************************************************************************)
EXTENDS Integers, FiniteSets

CONSTANTS
    Jobs,       \* the campaign send jobs of one organisation
    Limit,      \* CAMPAIGN_SEND_MAX_CONCURRENT_PER_ORG
    MaxRuns,    \* runs Bull gives a job: attempts, and one more when it stalls
    MaxFaults,  \* bound on workers that die and Redis calls that fail
    MayExpire,  \* a send may take longer than SLOT_TTL_MS
    LongSleep   \* no trial of another worker outlasts the 200 ms of a sleep

ASSUME JobsAssumption == IsFiniteSet(Jobs)
ASSUME LimitAssumption == Limit \in Nat \ {0}
ASSUME LimiterBoundsAssumption ==
    /\ MaxRuns \in Nat \ {0} /\ MaxFaults \in Nat
    /\ MayExpire \in BOOLEAN /\ LongSleep \in BOOLEAN

VARIABLES
    count,   \* the counter in Redis
    ttl,     \* "set" while the key has an expiry
    pc,      \* where each job is
    got,     \* what its INCR answered
    runs,    \* times Bull has started it
    leaked,  \* increments nobody will take back (history)
    faults   \* failures so far

vars == <<count, ttl, pc, got, runs, leaked, faults>>

Trying == {"incr", "expire", "decr", "sleep"}
JobStep == {"waiting", "holds", "release", "del", "done"} \cup Trying

\* Jobs whose INCR still awaits its DECR.
Outstanding == {j \in Jobs : pc[j] \in {"expire", "decr", "holds", "release"}}
Holders == {j \in Jobs : pc[j] \in {"holds", "release"}}

\* The counter is an integer, since DECR may take it below zero.
TypeOK ==
    /\ count \in Int
    /\ ttl \in {"none", "set"}
    /\ pc \in [Jobs -> JobStep]
    /\ got \in [Jobs -> Int]
    /\ runs \in [Jobs -> Nat]
    /\ leaked \in Nat
    /\ faults \in Nat

Init ==
    /\ count = 0
    /\ ttl = "none"
    /\ pc = [j \in Jobs |-> "waiting"]
    /\ got = [j \in Jobs |-> 0]
    /\ runs = [j \in Jobs |-> 0]
    /\ leaked = 0
    /\ faults = 0

At(j, step) == pc[j] = step
Goto(j, step) == pc' = [pc EXCEPT ![j] = step]

RerunActive(j) == IF runs[j] < MaxRuns THEN "active" ELSE "done"  \* mutant

\* A run that failed or was lost is started again while Bull has runs left.
Rerun(j) == IF runs[j] < MaxRuns THEN "waiting" ELSE "done"

-----------------------------------------------------------------------------
(* acquireCampaignSendOrgSlot.                                             *)

TakeJob(j) ==
    /\ At(j, "waiting")
    /\ runs' = [runs EXCEPT ![j] = @ + 1]
    /\ Goto(j, "incr")
    /\ UNCHANGED <<count, ttl, got, leaked, faults>>

Incr(j) ==
    /\ At(j, "incr")
    /\ count' = count + 1
    /\ got' = [got EXCEPT ![j] = count + 1]
    /\ Goto(j, "expire")
    /\ UNCHANGED <<ttl, runs, leaked, faults>>

ExpireOffByOne(j) ==  \* mutant: the limit itself counts as full
    /\ At(j, "expire")
    /\ ttl' = "set"
    /\ Goto(j, IF got[j] < Limit THEN "holds" ELSE "decr")
    /\ UNCHANGED <<count, got, runs, leaked, faults>>

\* PEXPIRE, then the decision on what INCR answered.
Expire(j) ==
    /\ At(j, "expire")
    /\ ttl' = "set"
    /\ Goto(j, IF got[j] <= Limit THEN "holds" ELSE "decr")
    /\ UNCHANGED <<count, got, runs, leaked, faults>>

DecrForgotten(j) ==  \* mutant: a refused worker does not take its INCR back
    /\ At(j, "decr")
    /\ Goto(j, "sleep")
    /\ UNCHANGED <<count, ttl, got, runs, leaked, faults>>

Decr(j) ==
    /\ At(j, "decr")
    /\ count' = count - 1
    /\ Goto(j, "sleep")
    /\ UNCHANGED <<ttl, got, runs, leaked, faults>>

\* sleep(200), then the loop goes round.
Wake(j) ==
    /\ At(j, "sleep")
    /\ LongSleep => \A k \in Jobs : pc[k] \notin {"expire", "decr"}
    /\ Goto(j, "incr")
    /\ UNCHANGED <<count, ttl, got, runs, leaked, faults>>

-----------------------------------------------------------------------------
(* releaseCampaignSendOrgSlot, in the finally of the job.                  *)

Finish(j) ==
    /\ At(j, "holds")
    /\ Goto(j, "release")
    /\ UNCHANGED <<count, ttl, got, runs, leaked, faults>>

\* DECR; the run succeeded, or it threw and Bull may run it again.
Release(j) ==
    /\ At(j, "release")
    /\ count' = count - 1
    /\ IF count - 1 <= 0
         THEN Goto(j, "del")
         ELSE \E next \in {"done", Rerun(j)} : Goto(j, next)
    /\ UNCHANGED <<ttl, got, runs, leaked, faults>>

Del(j) ==
    /\ At(j, "del")
    /\ count' = 0
    /\ ttl' = "none"
    /\ \E next \in {"done", Rerun(j)} : Goto(j, next)
    /\ UNCHANGED <<got, runs, leaked, faults>>

-----------------------------------------------------------------------------
(* Time and failures.                                                      *)

\* Thirty minutes without a PEXPIRE: nobody is waiting, or the key is gone.
KeyExpires ==
    /\ ttl = "set"
    /\ \A j \in Jobs : pc[j] \notin Trying
    /\ MayExpire \/ Holders = {}
    /\ count' = 0
    /\ ttl' = "none"
    /\ UNCHANGED <<pc, got, runs, leaked, faults>>

\* A Redis command fails, before or after the server carried it out.  What the
\* worker had added and not yet taken back stays.
AcquireFails(j) ==
    /\ pc[j] \in {"incr", "expire", "decr"}
    /\ faults < MaxFaults
    /\ faults' = faults + 1
    /\ \/ /\ At(j, "incr")
          /\ count' \in {count, count + 1}
          /\ leaked' = leaked + (count' - count)
       \/ /\ At(j, "expire")
          /\ leaked' = leaked + 1
          /\ UNCHANGED count
       \/ /\ At(j, "decr")
          /\ count' \in {count - 1, count}
          /\ leaked' = leaked + 1 - (count - count')
    /\ Goto(j, Rerun(j))
    /\ UNCHANGED <<ttl, got, runs>>

\* Redis cannot be reached: the release goes to the counters in memory, or its
\* DECR fails and with it the run.
ReleaseFails(j) ==
    /\ At(j, "release")
    /\ faults < MaxFaults
    /\ faults' = faults + 1
    /\ leaked' = leaked + 1
    /\ \E next \in {"done", Rerun(j)} : Goto(j, next)
    /\ UNCHANGED <<count, ttl, got, runs>>

\* The worker process dies and Bull finds the job stalled.
Crash(j) ==
    /\ pc[j] \notin {"waiting", "done"}
    /\ faults < MaxFaults
    /\ faults' = faults + 1
    /\ leaked' = leaked + (IF j \in Outstanding THEN 1 ELSE 0)
    /\ Goto(j, Rerun(j))
    /\ UNCHANGED <<count, ttl, got, runs>>

-----------------------------------------------------------------------------

Step(j) == \/ TakeJob(j) \/ Incr(j) \/ Expire(j) \/ Decr(j) \/ Wake(j)
           \/ Finish(j) \/ Release(j) \/ Del(j)

Next ==
    \/ \E j \in Jobs : Step(j) \/ AcquireFails(j) \/ ReleaseFails(j) \/ Crash(j)
    \/ KeyExpires

\* Workers go on, sends end, and a key nobody renews expires.
Fairness == (\A j \in Jobs : WF_vars(Step(j))) /\ WF_vars(KeyExpires)

Spec == Init /\ [][Next]_vars /\ Fairness

-----------------------------------------------------------------------------
(* Properties.                                                             *)

\* The counter never exceeds the increments somebody answers for: waiting, races
\* of DEL with INCR, expiry and retries never leak a slot, only lost runs do.
NoSilentLeak == count <= Cardinality(Outstanding) + leaked

\* Every job gets its slot and comes to an end.
EveryJobEnds == \A j \in Jobs : pc[j] = "waiting" ~> pc[j] = "done"
=============================================================================
