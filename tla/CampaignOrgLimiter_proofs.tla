---------------------- MODULE CampaignOrgLimiter_proofs ----------------------
(***************************************************************************)
(* For any number of workers and any limit: the counter in Redis never says  *)
(* more than the workers that hold or try for a slot, and the runs that were *)
(* lost with one, account for.                                               *)
(***************************************************************************)
EXTENDS CampaignOrgLimiter, FiniteSetTheorems, TLAPS

\* The inductive invariant needs nothing beyond the types.
IInv == TypeOK /\ NoSilentLeak

\* How many DECRs are owed.
owed == Cardinality(Outstanding)

\* The workers that owe a DECR are a finite set of jobs.
LEMMA OutstandingIsFinite ==
  IsFiniteSet(Outstanding) /\ Cardinality(Outstanding) \in Nat
  BY FS_Subset, FS_CardinalityType, JobsAssumption DEF Outstanding

\* One more worker owes a DECR after its INCR.
LEMMA Joins ==
  ASSUME NEW j \in Jobs, j \notin Outstanding, Outstanding' = Outstanding \cup {j}
  PROVE  Cardinality(Outstanding') = Cardinality(Outstanding) + 1
  BY OutstandingIsFinite, FS_AddElement

\* One worker less owes it after its DECR, or after its death.
LEMMA Leaves ==
  ASSUME NEW j \in Jobs, j \in Outstanding, Outstanding' = Outstanding \ {j}
  PROVE  Cardinality(Outstanding') = Cardinality(Outstanding) - 1
  BY OutstandingIsFinite, FS_RemoveElement

\* What is owed and what is lost are never negative together.
LEMMA SumIsNat == \A a, b \in Nat : 0 <= a + b
  OBVIOUS

\* At the start nobody owes anything.
LEMMA InitHolds == Init => IInv
<1> SUFFICES ASSUME Init PROVE IInv
  OBVIOUS
<1>1. TypeOK
  BY DEF Init, TypeOK, JobStep, Trying
<1>2. NoSilentLeak
  BY OutstandingIsFinite DEF Init, NoSilentLeak
<1>3. QED
  BY <1>1, <1>2 DEF IInv

\* No Redis command, crash, failure or expiry leaves the types.
LEMMA TypeStep == TypeOK /\ [Next]_vars => TypeOK'
<1> SUFFICES ASSUME TypeOK, [Next]_vars PROVE TypeOK'
  OBVIOUS
<1> USE DEF TypeOK, JobStep, Trying, At, Goto
<1>1. ASSUME NEW j \in Jobs, Step(j) PROVE TypeOK'
  <2>1. CASE TakeJob(j)
    BY <2>1 DEF TakeJob
  <2>2. CASE Incr(j)
    BY <2>2 DEF Incr
  <2>3. CASE Expire(j)
    BY <2>3 DEF Expire
  <2>4. CASE Decr(j)
    BY <2>4 DEF Decr
  <2>5. CASE Wake(j)
    BY <2>5 DEF Wake
  <2>6. CASE Finish(j)
    BY <2>6 DEF Finish
  <2>7. CASE Release(j)
    <3>1. pc' \in [Jobs -> JobStep]
      BY <2>7 DEF Release, Rerun
    <3>2. QED
      BY <2>7, <3>1 DEF Release
  <2>8. CASE Del(j)
    BY <2>8 DEF Del, Rerun
  <2>9. QED
    BY <1>1, <2>1, <2>2, <2>3, <2>4, <2>5, <2>6, <2>7, <2>8 DEF Step
<1>2. ASSUME NEW j \in Jobs, AcquireFails(j) PROVE TypeOK'
  <2>1. pc' \in [Jobs -> JobStep]
    BY <1>2 DEF AcquireFails, Rerun
  <2>2. count' \in Int /\ leaked' \in Nat
    BY <1>2 DEF AcquireFails
  <2>3. QED
    BY <1>2, <2>1, <2>2 DEF AcquireFails
<1>3. ASSUME NEW j \in Jobs, ReleaseFails(j) PROVE TypeOK'
  BY <1>3 DEF ReleaseFails, Rerun
<1>4. ASSUME NEW j \in Jobs, Crash(j) PROVE TypeOK'
  BY <1>4 DEF Crash, Rerun
<1>5. CASE KeyExpires
  BY <1>5 DEF KeyExpires
<1>6. CASE UNCHANGED vars
  BY <1>6 DEF vars
<1>7. QED
  BY <1>1, <1>2, <1>3, <1>4, <1>5, <1>6 DEF Next

\* No step raises the counter without a worker, or a loss, to answer for it.
LEMMA LeakStep == IInv /\ [Next]_vars => NoSilentLeak'
<1> SUFFICES ASSUME TypeOK, NoSilentLeak, [Next]_vars PROVE NoSilentLeak'
  BY DEF IInv
<1> USE DEF At, Goto
<1>0. count \in Int /\ leaked \in Nat /\ owed \in Nat /\ count <= owed + leaked
  BY OutstandingIsFinite DEF TypeOK, NoSilentLeak, owed
<1>a. owed' \in Nat
  <2>1. Outstanding' \subseteq Jobs
    BY DEF Outstanding
  <2>2. QED
    BY <2>1, FS_Subset, FS_CardinalityType, JobsAssumption DEF owed
<1>b. NoSilentLeak' <=> count' <= owed' + leaked'
  BY DEF NoSilentLeak, owed
<1>1. ASSUME NEW j \in Jobs, Step(j) PROVE NoSilentLeak'
  <2>1. CASE TakeJob(j)
    <3>1. Outstanding' = Outstanding
      BY <2>1 DEF TypeOK, TakeJob, Outstanding
    <3>2. QED
      BY <1>0, <1>b, <2>1, <3>1 DEF TakeJob, owed
  <2>2. CASE Incr(j)
    <3>1. j \notin Outstanding /\ Outstanding' = Outstanding \cup {j}
      BY <2>2 DEF TypeOK, Incr, Outstanding
    <3>2. owed' = owed + 1
      BY <3>1, Joins DEF owed
    <3>3. QED
      BY <1>0, <1>b, <2>2, <3>2 DEF Incr
  <2>3. CASE Expire(j)
    <3>1. Outstanding' = Outstanding
      BY <2>3 DEF TypeOK, Expire, Outstanding
    <3>2. QED
      BY <1>0, <1>b, <2>3, <3>1 DEF Expire, owed
  <2>4. CASE Decr(j)
    <3>1. j \in Outstanding /\ Outstanding' = Outstanding \ {j}
      BY <2>4 DEF TypeOK, Decr, Outstanding
    <3>2. owed' = owed - 1
      BY <3>1, Leaves DEF owed
    <3>3. QED
      BY <1>0, <1>b, <2>4, <3>2 DEF Decr
  <2>5. CASE Wake(j)
    <3>1. Outstanding' = Outstanding
      BY <2>5 DEF TypeOK, Wake, Outstanding
    <3>2. QED
      BY <1>0, <1>b, <2>5, <3>1 DEF Wake, owed
  <2>6. CASE Finish(j)
    <3>1. Outstanding' = Outstanding
      BY <2>6 DEF TypeOK, Finish, Outstanding
    <3>2. QED
      BY <1>0, <1>b, <2>6, <3>1 DEF Finish, owed
  <2>7. CASE Release(j)
    <3>1. j \in Outstanding /\ Outstanding' = Outstanding \ {j}
      BY <2>7 DEF TypeOK, Release, Rerun, Outstanding
    <3>2. owed' = owed - 1
      BY <3>1, Leaves DEF owed
    <3>3. QED
      BY <1>0, <1>b, <2>7, <3>2 DEF Release
  <2>8. CASE Del(j)
    <3>1. count' = 0 /\ leaked' = leaked
      BY <2>8 DEF Del
    <3>2. leaked' \in Nat
      BY <1>0, <3>1
    <3>3. 0 <= owed' + leaked'
      BY <1>a, <3>2, SumIsNat
    <3>4. QED
      BY <1>b, <3>1, <3>3
  <2>9. QED
    BY <1>1, <2>1, <2>2, <2>3, <2>4, <2>5, <2>6, <2>7, <2>8 DEF Step
<1>2. ASSUME NEW j \in Jobs, AcquireFails(j) PROVE NoSilentLeak'
  <2>1. CASE pc[j] = "incr"
    <3>1. Outstanding' = Outstanding
      BY <1>2, <2>1 DEF TypeOK, AcquireFails, Rerun, Outstanding
    <3>2. QED
      BY <1>0, <1>b, <1>2, <2>1, <3>1 DEF AcquireFails, owed
  <2>2. CASE pc[j] \in {"expire", "decr"}
    <3>1. j \in Outstanding /\ Outstanding' = Outstanding \ {j}
      BY <1>2, <2>2 DEF TypeOK, AcquireFails, Rerun, Outstanding
    <3>2. owed' = owed - 1
      BY <3>1, Leaves DEF owed
    <3>3. QED
      BY <1>0, <1>b, <1>2, <2>2, <3>2 DEF AcquireFails
  <2>3. QED
    BY <1>2, <2>1, <2>2 DEF AcquireFails
<1>3. ASSUME NEW j \in Jobs, ReleaseFails(j) PROVE NoSilentLeak'
  <2>1. j \in Outstanding /\ Outstanding' = Outstanding \ {j}
    BY <1>3 DEF TypeOK, ReleaseFails, Rerun, Outstanding
  <2>2. owed' = owed - 1
    BY <2>1, Leaves DEF owed
  <2>3. QED
    BY <1>0, <1>b, <1>3, <2>2 DEF ReleaseFails
<1>4. ASSUME NEW j \in Jobs, Crash(j) PROVE NoSilentLeak'
  <2>1. CASE j \in Outstanding
    <3>1. Outstanding' = Outstanding \ {j}
      BY <1>4, <2>1 DEF TypeOK, Crash, Rerun, Outstanding
    <3>2. owed' = owed - 1
      BY <2>1, <3>1, Leaves DEF owed
    <3>3. QED
      BY <1>0, <1>b, <1>4, <2>1, <3>2 DEF Crash
  <2>2. CASE j \notin Outstanding
    <3>1. Outstanding' = Outstanding
      BY <1>4, <2>2 DEF TypeOK, Crash, Rerun, Outstanding
    <3>2. QED
      BY <1>0, <1>b, <1>4, <2>2, <3>1 DEF Crash, owed
  <2>3. QED
    BY <2>1, <2>2
<1>5. CASE KeyExpires
  <2>1. count' = 0 /\ leaked' = leaked
    BY <1>5 DEF KeyExpires
  <2>2. leaked' \in Nat
    BY <1>0, <2>1
  <2>3. 0 <= owed' + leaked'
    BY <1>a, <2>2, SumIsNat
  <2>4. QED
    BY <1>b, <2>1, <2>3
<1>6. CASE UNCHANGED vars
  BY <1>0, <1>b, <1>6 DEF vars, owed, Outstanding
<1>7. QED
  BY <1>1, <1>2, <1>3, <1>4, <1>5, <1>6 DEF Next

\* Types and account hold together in every reachable state.
LEMMA Inductive == Spec => []IInv
<1>1. IInv /\ [Next]_vars => IInv'
  BY TypeStep, LeakStep DEF IInv
<1>2. QED
  BY InitHolds, <1>1, PTL DEF Spec

\* A slot is lost only with a run that dies or cannot reach Redis: trying,
\* failing to get one, releasing, deleting and expiring never leak one.
THEOREM OnlyLostRunsLeak == Spec => []NoSilentLeak
<1>1. IInv => NoSilentLeak
  BY DEF IInv
<1>2. QED
  BY Inductive, <1>1, PTL

\* The counter, its expiry, the jobs' steps and the increments lost keep their
\* types, for any number of jobs and slots.
THEOREM LimiterTypes == Spec => []TypeOK
<1>1. IInv => TypeOK
  BY DEF IInv
<1>2. QED
  BY Inductive, <1>1, PTL
=============================================================================
