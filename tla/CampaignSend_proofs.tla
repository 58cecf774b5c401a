------------------------ MODULE CampaignSend_proofs ------------------------
(***************************************************************************)
(* For every audience, number of sends, chunk size, slot count and bound on *)
(* the failures: every document keeps its type, and what the documents say  *)
(* of AMDS, of unsubscribes and of the credit pool is true.                 *)
(*                                                                          *)
(* With one send at a time (one slot, or a user who waits) more holds: what   *)
(* is queued is not handed over again; and, of a user who waits, it is not     *)
(* counted twice, a completed campaign reached everyone, and its credits are  *)
(* settled.                                                                 *)
(***************************************************************************)
EXTENDS CampaignSend, FiniteSetTheorems, TLAPS

\* Every set of recipients the code counts has a natural number of members.
LEMMA CountIsNat == \A S \in SUBSET Recipients : Cardinality(S) \in Nat
  BY FS_Subset, FS_CardinalityType, RecipientsAssumption

\* The clamps of the code stay within the naturals.
LEMMA ExtremaAreNat == \A a, b \in Nat : Max2(a, b) \in Nat /\ Min2(a, b) \in Nat
  BY DEF Max2, Min2

\* What a resume reads from the rows and from sendState has its type.
LEMMA ResumePlanType ==
  ASSUME TypeOK
  PROVE  /\ Total \in Nat
         /\ ResumePlan.isResume \in BOOLEAN
         /\ ResumePlan.resolved \in Nat
         /\ ResumePlan.prepared \in Nat
         /\ ResumePlan.lastChunk \in Nat
         /\ ResumePlan.initialQueued \in Nat
<1>1. Total \in Nat /\ Cardinality(PendingRows) \in Nat
  BY CountIsNat DEF Total, PendingRows
<1>2. QED
  BY <1>1 DEF TypeOK, CampaignDoc, ResumePlan, Max2

\* The counters after a chunk are locals of a send.
LEMMA CountedType ==
  ASSUME TypeOK, NEW s \in Sends
  PROVE  Counted(s) \in SendLocals
<1> DEFINE l == send[s]
           n == Cardinality(l.chunk)
           m == Cardinality(l.took)
<1>1. l \in SendLocals
  BY DEF TypeOK
<1>2. n \in Nat /\ m \in Nat
  BY <1>1, CountIsNat DEF SendLocals
<1>3. Counted(s) = [l EXCEPT !.prepared = l.prepared + n,
                             !.chunkIndex = l.chunkIndex + 1,
                             !.accepted = l.accepted + m,
                             !.chunk = {}, !.subscribed = {}, !.took = {}]
  BY DEF Counted
<1> HIDE DEF l, n, m
<1>4. l.prepared + n \in Nat /\ l.chunkIndex + 1 \in Nat /\ l.accepted + m \in Nat
  BY <1>1, <1>2 DEF SendLocals
<1>5. QED
  BY <1>1, <1>3, <1>4 DEF SendLocals

\* What Bull keeps of a job between two attempts is locals of a send.
LEMMA JobDataType ==
  ASSUME TypeOK, NEW s \in Sends
  PROVE  JobData(s) \in SendLocals
<1>1. send[s] \in SendLocals
  BY DEF TypeOK
<1>2. QED
  BY <1>1 DEF JobData, NoLocals, SendLocals

\* The program starts with typed documents.
LEMMA TypeInit == Init => TypeOK
  BY OptionsAssumption, SizesAssumption
  DEF Init, TypeOK, CampaignDoc, CampaignStatus, SendPhase, PolicyDoc, RowStatus,
      CommStatus, Step, NoLocals, SendLocals

\* No action of a send, of the user or of the environment leaves the types.
LEMMA TypeStep == TypeOK /\ [Next]_vars => TypeOK'
<1> SUFFICES ASSUME TypeOK, [Next]_vars PROVE TypeOK'
  OBVIOUS
<1> USE DEF At, Goto, docs, amds, world, counts, Step, RequestSteps, BeforeTry,
            SendTry, ChunkTry, ActiveSteps, EndSteps
<1>0. policy \in PolicyDoc /\ policy.remaining \in Int /\ policy.reserved \in Int
  BY DEF TypeOK, PolicyDoc
<1>1. ASSUME NEW s \in Sends, ReceiveRequest(s) PROVE TypeOK'
  <2>1. send' \in [Sends -> SendLocals]
    BY <1>1, OptionsAssumption DEF TypeOK, ReceiveRequest, SendLocals
  <2>2. QED
    BY <1>1, <2>1 DEF TypeOK, ReceiveRequest
<1>2. ASSUME NEW s \in Sends, ResetRows(s) PROVE TypeOK'
  BY <1>2 DEF TypeOK, ResetRows, RowStatus
<1>3. ASSUME NEW s \in Sends, ResetComms(s) PROVE TypeOK'
  BY <1>3 DEF TypeOK, ResetComms, CommStatus
<1>4. ASSUME NEW s \in Sends, ResetCampaign(s) PROVE TypeOK'
  BY <1>4 DEF TypeOK, ResetCampaign, CampaignDoc, SendPhase, CampaignStatus
<1>5. ASSUME NEW s \in Sends, RejectRequest(s) PROVE TypeOK'
  BY <1>5, ExtremaAreNat, CountIsNat DEF TypeOK, RejectRequest, Estimate, CampaignDoc
<1>6. ASSUME NEW s \in Sends, Enqueue(s) PROVE TypeOK'
  <2> DEFINE isResume == ~send[s].force /\ ResumePlan.isResume
  <2>1. isResume \in BOOLEAN /\ Estimate \in Nat
    BY ResumePlanType, CountIsNat, ExtremaAreNat DEF Estimate, TypeOK, CampaignDoc
  <2>2. send' \in [Sends -> SendLocals]
    <3>1. send' = [send EXCEPT ![s].resume = isResume]
      BY <1>6 DEF Enqueue
    <3> HIDE DEF isResume
    <3>2. QED
      BY <2>1, <3>1 DEF TypeOK, SendLocals
  <2>3. campaign' \in CampaignDoc
    BY <1>6, <2>1, ResumePlanType DEF TypeOK, Enqueue, CampaignDoc, SendPhase
  <2>4. QED
    BY <1>6, <2>2, <2>3 DEF TypeOK, Enqueue
<1>7. ASSUME NEW s \in Sends, TakeJob(s) PROVE TypeOK'
  BY <1>7, CountIsNat DEF TypeOK, TakeJob
<1>8. ASSUME NEW s \in Sends, Decide(s) PROVE TypeOK'
  <2> DEFINE total == IF HasSnapshot THEN ResumePlan.resolved ELSE 0
             resumed == [send[s] EXCEPT !.total = total,
                           !.prepared = ResumePlan.prepared,
                           !.chunkIndex = ResumePlan.lastChunk,
                           !.initialQueued = ResumePlan.initialQueued]
  <2>1. total \in Nat
    BY ResumePlanType
  <2>2. resumed \in SendLocals
    <3> HIDE DEF total
    <3>1. QED
      BY <2>1, ResumePlanType DEF TypeOK, SendLocals
  <2>3. send' \in {send, [send EXCEPT ![s] = resumed]}
    BY <1>8 DEF TypeOK, Decide
  <2> HIDE DEF resumed
  <2>4. send' \in [Sends -> SendLocals]
    BY <2>2, <2>3 DEF TypeOK
  <2>5. QED
    BY <1>8, <2>4 DEF TypeOK, Decide
<1>9. ASSUME NEW s \in Sends, MarkResolving(s) PROVE TypeOK'
  BY <1>9 DEF TypeOK, MarkResolving, CampaignDoc, SendPhase, CampaignStatus
<1>10. ASSUME NEW s \in Sends, ClearSnapshot(s) PROVE TypeOK'
  BY <1>10 DEF TypeOK, ClearSnapshot, SendLocals, RowStatus
<1>11. ASSUME NEW s \in Sends, InsertBatch(s) PROVE TypeOK'
  <2>1. PICK batch \in SUBSET send[s].toInsert :
          /\ rows' = [r \in Recipients |->
                 IF r \in batch /\ rows[r] = "none" THEN "pending" ELSE rows[r]]
          /\ send' = [send EXCEPT
                 ![s].toInsert = @ \ batch,
                 ![s].total = @ + Cardinality({r \in batch : rows[r] = "none"})]
    BY <1>11 DEF InsertBatch
  <2> DEFINE n == Cardinality({r \in batch : rows[r] = "none"})
             rest == send[s].toInsert \ batch
             total == send[s].total + n
  <2>2. send[s] \in SendLocals
    BY DEF TypeOK
  <2>3. rest \in SUBSET Recipients /\ batch \subseteq Recipients
    BY <2>2 DEF SendLocals
  <2>4. n \in Nat /\ send[s].total \in Nat
    BY <2>2, <2>3, CountIsNat DEF SendLocals
  <2>5. send' = [send EXCEPT ![s] = [send[s] EXCEPT !.toInsert = rest, !.total = total]]
    BY <2>1
  <2> HIDE DEF n, rest
  <2>6. total \in Nat
    BY <2>4
  <2> HIDE DEF total
  <2>7. [send[s] EXCEPT !.toInsert = rest, !.total = total] \in SendLocals
    BY <2>2, <2>3, <2>6 DEF SendLocals
  <2>8. send' \in [Sends -> SendLocals]
    BY <2>5, <2>7 DEF TypeOK
  <2>9. rows' \in [Recipients -> RowStatus]
    BY <2>1 DEF TypeOK, RowStatus
  <2>10. QED
    BY <1>11, <2>8, <2>9 DEF TypeOK, InsertBatch
<1>12. ASSUME NEW s \in Sends, SnapshotDone(s) PROVE TypeOK'
  BY <1>12 DEF TypeOK, SnapshotDone, SendLocals
<1>13. ASSUME NEW s \in Sends, RecordSnapshot(s) PROVE TypeOK'
  BY <1>13 DEF TypeOK, RecordSnapshot, CampaignDoc, SendPhase, CampaignStatus,
     SendLocals
<1>14. ASSUME NEW s \in Sends, ResumeCheck(s) PROVE TypeOK'
  BY <1>14 DEF TypeOK, ResumeCheck, CampaignDoc
<1>15. ASSUME NEW s \in Sends, ResumeDone(s) PROVE TypeOK'
  BY <1>15 DEF TypeOK, ResumeDone, ReleaseSlot, CampaignDoc, SendPhase, CampaignStatus
<1>16. ASSUME NEW s \in Sends, Precheck(s) PROVE TypeOK'
  BY <1>16 DEF TypeOK, Precheck, SendLocals
<1>17. ASSUME NEW s \in Sends, ReadReservation(s) PROVE TypeOK'
  <2>1. send' \in [Sends -> SendLocals]
    BY <1>17 DEF TypeOK, ReadReservation, SendLocals, CampaignDoc
  <2>2. QED
    BY <1>17, <2>1 DEF TypeOK, ReadReservation
<1>18. ASSUME NEW s \in Sends, TakeCredits(s) PROVE TypeOK'
  <2>1. send[s] \in SendLocals /\ send[s].total \in Nat
    BY DEF TypeOK, SendLocals
  <2>2. [send[s] EXCEPT !.reserved = send[s].total] \in SendLocals
    BY <2>1 DEF SendLocals
  <2>3. send' \in [Sends -> SendLocals]
    BY <1>18, <2>2 DEF TypeOK, TakeCredits
  <2>4. policy' = [policy EXCEPT !.remaining = policy.remaining - send[s].total,
                                !.reserved = policy.reserved + send[s].total]
    BY <1>18 DEF TakeCredits
  <2>5. /\ policy.remaining - send[s].total \in Int
        /\ policy.reserved + send[s].total \in Int
    BY <1>0, <2>1
  <2>6. policy' \in PolicyDoc
    BY <1>0, <2>4, <2>5 DEF PolicyDoc
  <2>7. QED
    BY <1>18, <2>3, <2>6 DEF TypeOK, TakeCredits
<1>19. ASSUME NEW s \in Sends, TakeCreditsFails(s) PROVE TypeOK'
  BY <1>19 DEF TypeOK, TakeCreditsFails, SendLocals
<1>20. ASSUME NEW s \in Sends, RecordReservation(s) PROVE TypeOK'
  BY <1>20 DEF TypeOK, RecordReservation, CampaignDoc, SendPhase, CampaignStatus,
     SendLocals
<1>21. ASSUME NEW s \in Sends, Start(s) PROVE TypeOK'
  BY <1>21 DEF TypeOK, Start, CampaignDoc, SendPhase, CampaignStatus, SendLocals
<1>22. ASSUME NEW s \in Sends, LoadChunk(s) PROVE TypeOK'
  <2>1. PICK chunk \in SUBSET PendingRows : send' = [send EXCEPT ![s].chunk = chunk]
    BY <1>22 DEF LoadChunk
  <2>2. chunk \subseteq Recipients
    BY DEF PendingRows
  <2>3. [send[s] EXCEPT !.chunk = chunk] \in SendLocals
    BY <2>2 DEF TypeOK, SendLocals
  <2>4. send' \in [Sends -> SendLocals]
    BY <2>1, <2>3 DEF TypeOK
  <2>5. QED
    BY <1>22, <2>4 DEF TypeOK, LoadChunk
<1>23. ASSUME NEW s \in Sends, GuardChunk(s) PROVE TypeOK'
  BY <1>23 DEF TypeOK, GuardChunk, CampaignDoc
<1>24. ASSUME NEW s \in Sends, FilterSubscribed(s) PROVE TypeOK'
  BY <1>24 DEF TypeOK, FilterSubscribed, SendLocals
<1>25. ASSUME NEW s \in Sends, Suppress(s) PROVE TypeOK'
  BY <1>25 DEF TypeOK, Suppress, SendLocals, RowStatus
<1>26. ASSUME NEW s \in Sends, ClaimCampaign(s) PROVE TypeOK'
  BY <1>26 DEF TypeOK, ClaimCampaign, CampaignDoc, SendPhase, CampaignStatus
<1>27. ASSUME NEW s \in Sends, PersistCommunications(s) PROVE TypeOK'
  BY <1>27 DEF TypeOK, PersistCommunications, SendLocals, CommStatus
<1>28. ASSUME NEW s \in Sends, PrepareRows(s) PROVE TypeOK'
  BY <1>28 DEF TypeOK, PrepareRows, SendLocals, RowStatus
<1>29. ASSUME NEW s \in Sends, Submit(s) PROVE TypeOK'
  BY <1>29 DEF TypeOK, Submit, SendLocals
<1>30. ASSUME NEW s \in Sends, ApplyResults(s) PROVE TypeOK'
  BY <1>30 DEF TypeOK, ApplyResults, SendLocals, CommStatus
<1>31. ASSUME NEW s \in Sends, MarkQueued(s) PROVE TypeOK'
  BY <1>31 DEF TypeOK, MarkQueued, SendLocals, RowStatus
<1>32. ASSUME NEW s \in Sends, UpdateStats(s) PROVE TypeOK'
  <2> DEFINE n == Cardinality(send[s].took)
             queued == IF Append(s) THEN campaign.queued + n ELSE n
  <2>1. send[s].took \subseteq Recipients
    BY DEF TypeOK, SendLocals
  <2>2. n \in Nat
    BY <2>1, CountIsNat
  <2>3. campaign' = [campaign EXCEPT !.status = "running", !.queued = queued]
    BY <1>32 DEF UpdateStats
  <2> HIDE DEF n
  <2>4. campaign \in CampaignDoc /\ queued \in Nat
    BY <2>2 DEF TypeOK, CampaignDoc
  <2> HIDE DEF queued
  <2>5. campaign' \in CampaignDoc
    BY <2>3, <2>4 DEF CampaignDoc, CampaignStatus
  <2>6. QED
    BY <1>32, <2>5 DEF TypeOK, UpdateStats
<1>33. ASSUME NEW s \in Sends, Bookkeep(s) PROVE TypeOK'
  <2>1. Counted(s) \in SendLocals
    BY CountedType
  <2>2. send' \in [Sends -> SendLocals]
    BY <1>33, <2>1 DEF TypeOK, Bookkeep
  <2>3. Counted(s).prepared \in Nat /\ Counted(s).chunkIndex \in Nat
    BY <2>1 DEF SendLocals
  <2>4. campaign' \in CampaignDoc
    BY <1>33, <2>3 DEF TypeOK, Bookkeep, CampaignDoc
  <2>5. QED
    BY <1>33, <2>2, <2>4 DEF TypeOK, Bookkeep
<1>34. ASSUME NEW s \in Sends, Finish(s) PROVE TypeOK'
  BY <1>34 DEF TypeOK, Finish, CampaignDoc, SendLocals
<1>35. ASSUME NEW s \in Sends, FinalizeCredits(s) PROVE TypeOK'
  <2> DEFINE unused == Max2(0, send[s].reserved - (send[s].initialQueued +
     send[s].accepted))
  <2>1. /\ send[s].initialQueued \in Nat /\ send[s].accepted \in Nat
        /\ send[s].reserved \in Nat
    BY DEF TypeOK, SendLocals
  <2>2. unused \in Nat
    BY <2>1 DEF Max2
  <2>3. policy' = [policy EXCEPT !.reserved = policy.reserved - send[s].reserved,
                                !.remaining = policy.remaining + unused]
    BY <1>35 DEF FinalizeCredits
  <2> HIDE DEF unused
  <2>4. /\ policy.reserved - send[s].reserved \in Int
        /\ policy.remaining + unused \in Int
    BY <1>0, <2>1, <2>2
  <2>5. policy' \in PolicyDoc
    BY <1>0, <2>3, <2>4 DEF PolicyDoc
  <2>6. QED
    BY <1>35, <2>5 DEF TypeOK, FinalizeCredits
<1>36. ASSUME NEW s \in Sends, ReleaseCredits(s) PROVE TypeOK'
  <2>1. send[s].reserved \in Nat
    BY DEF TypeOK, SendLocals
  <2>2. policy' = [policy EXCEPT !.reserved = policy.reserved - send[s].reserved,
                                !.remaining = policy.remaining + send[s].reserved]
    BY <1>36 DEF ReleaseCredits
  <2>3. /\ policy.reserved - send[s].reserved \in Int
        /\ policy.remaining + send[s].reserved \in Int
    BY <1>0, <2>1
  <2>4. policy' \in PolicyDoc
    BY <1>0, <2>2, <2>3 DEF PolicyDoc
  <2>5. QED
    BY <1>36, <2>4 DEF TypeOK, ReleaseCredits
<1>37. ASSUME NEW s \in Sends, ClearReservation(s) PROVE TypeOK'
  BY <1>37 DEF TypeOK, ClearReservation, CampaignDoc, SendPhase, CampaignStatus
<1>38. ASSUME NEW s \in Sends, Complete(s) PROVE TypeOK'
  <2>1. campaign' \in CampaignDoc
    BY <1>38 DEF TypeOK, Complete, CampaignDoc, SendPhase, CampaignStatus, SendLocals
  <2>2. QED
    BY <1>38, <2>1 DEF TypeOK, Complete, ReleaseSlot
<1>39. ASSUME NEW s \in Sends, ChunkFailed(s) PROVE TypeOK'
  BY <1>39 DEF TypeOK, ChunkFailed, CampaignDoc, SendPhase, CampaignStatus
<1>40. ASSUME NEW s \in Sends, SendCatch(s) PROVE TypeOK'
  <2>1. send[s].prepared \in Nat /\ send[s].chunkIndex \in Nat
    BY DEF TypeOK, SendLocals
  <2>2. campaign' \in CampaignDoc
    BY <1>40, <2>1 DEF TypeOK, SendCatch, CampaignDoc, SendPhase
  <2>3. QED
    BY <1>40, <2>2 DEF TypeOK, SendCatch
<1>41. ASSUME NEW s \in Sends, JobCatch(s) PROVE TypeOK'
  BY <1>41 DEF TypeOK, JobCatch, CampaignDoc, SendPhase, CampaignStatus
<1>42. ASSUME NEW s \in Sends, AttemptFailed(s) PROVE TypeOK'
  <2>1. JobData(s) \in SendLocals
    BY JobDataType
  <2>2. [JobData(s) EXCEPT !.attemptsMade = @ + 1] \in SendLocals
    BY <2>1 DEF SendLocals
  <2>3. QED
    BY <1>42, <2>2 DEF TypeOK, AttemptFailed, ReleaseSlot
<1>43. ASSUME NEW s \in Sends, SubmitFails(s) PROVE TypeOK'
  BY <1>43 DEF TypeOK, SubmitFails, SendLocals
<1>44. ASSUME NEW s \in Sends, Throw(s) PROVE TypeOK'
  <2>1. Counted(s) \in SendLocals
    BY CountedType
  <2>2. send' \in [Sends -> SendLocals]
    BY <1>44, <2>1 DEF TypeOK, Throw
  <2>3. pc' \in [Sends -> Step]
    BY <1>44 DEF TypeOK, Throw, Handler
  <2>4. QED
    BY <1>44, <2>2, <2>3 DEF TypeOK, Throw
<1>45. ASSUME NEW s \in Sends, ThrowInRequest(s) PROVE TypeOK'
  BY <1>45 DEF TypeOK, ThrowInRequest, RowStatus
<1>46. ASSUME NEW s \in Sends, Crash(s) PROVE TypeOK'
  <2>1. JobData(s) \in SendLocals
    BY JobDataType
  <2>2. [JobData(s) EXCEPT !.stalls = @ + 1] \in SendLocals
    BY <2>1 DEF SendLocals
  <2>3. QED
    BY <1>46, <2>2 DEF TypeOK, Crash
<1>47. ASSUME NEW t \in UserTargets, ReadTransition(t) PROVE TypeOK'
  BY <1>47, OptionsAssumption DEF TypeOK, ReadTransition, CampaignStatus
<1>48. ASSUME SaveTransition PROVE TypeOK'
  BY <1>48 DEF TypeOK, SaveTransition, CampaignDoc
<1>49. ASSUME NEW r \in Recipients, Unsubscribe(r) PROVE TypeOK'
  BY <1>49 DEF TypeOK, Unsubscribe
<1>50. ASSUME ChangePolicyStatus PROVE TypeOK'
  BY <1>50 DEF TypeOK, ChangePolicyStatus, PolicyDoc
<1>51. ASSUME SlotsWiped PROVE TypeOK'
  BY <1>51 DEF TypeOK, SlotsWiped
<1>52. ASSUME UNCHANGED vars PROVE TypeOK'
  BY <1>52 DEF TypeOK, vars
<1>53. QED
  BY <1>1, <1>2, <1>3, <1>4, <1>5, <1>6, <1>7, <1>8, <1>9, <1>10, <1>11, <1>12, <1>13,
     <1>14, <1>15, <1>16, <1>17, <1>18, <1>19, <1>20, <1>21, <1>22, <1>23, <1>24,
     <1>25, <1>26, <1>27, <1>28, <1>29, <1>30, <1>31, <1>32, <1>33, <1>34, <1>35,
     <1>36, <1>37, <1>38, <1>39, <1>40, <1>41, <1>42, <1>43, <1>44, <1>45, <1>46,
     <1>47, <1>48, <1>49, <1>50, <1>51, <1>52
  DEF Next, RequestStep, JobStep, Environment

\* Every reachable document, local and counter has its type, for any audience,
\* any number of sends and any bound on the failures.
THEOREM TypeCorrect == Spec => []TypeOK
<1>1. QED
  BY TypeInit, TypeStep, PTL DEF Spec

\* What the documents say of AMDS, of unsubscribes and of the credit pool.
Facts == /\ ChunkRecordsFacts
         /\ QueuedRowsWereSubmitted
         /\ SentOnlyIfAccepted
         /\ SuppressedHadUnsubscribed
         /\ NoOverdraft

\* The inductive invariant.
IInv == TypeOK /\ Facts

\* Nothing is recorded before the first send.
LEMMA FactsInit == Init => Facts
  BY SizesAssumption DEF Init, Facts, ChunkRecordsFacts, QueuedRowsWereSubmitted,
     SentOnlyIfAccepted, SuppressedHadUnsubscribed, NoOverdraft

\* The only steps that write these records are those of one chunk, in its order:
\* AMDS answers before a row or a message says so, and a throw or a crash in
\* between leaves the records behind the facts, never ahead of them.
LEMMA FactsStep == TypeOK /\ Facts /\ [Next]_vars => Facts'
<1> SUFFICES ASSUME TypeOK, Facts, [Next]_vars PROVE Facts'
  OBVIOUS
<1> USE DEF At, Goto, docs, amds, world, counts, Facts, ChunkRecordsFacts,
   QueuedRowsWereSubmitted,
            SentOnlyIfAccepted, SuppressedHadUnsubscribed, NoOverdraft
<1>0. /\ pc \in [Sends -> Step] /\ send \in [Sends -> SendLocals]
      /\ rows \in [Recipients -> RowStatus] /\ comm \in [Recipients -> CommStatus]
      /\ policy \in PolicyDoc
  BY DEF TypeOK
<1>1. ASSUME NEW s \in Sends, ReceiveRequest(s) PROVE Facts'
  BY <1>0, <1>1 DEF ReceiveRequest, SendLocals
<1>2. ASSUME NEW s \in Sends, ResetRows(s) PROVE Facts'
  BY <1>0, <1>2 DEF ResetRows
<1>3. ASSUME NEW s \in Sends, ResetComms(s) PROVE Facts'
  BY <1>0, <1>3 DEF ResetComms
<1>4. ASSUME NEW s \in Sends, ResetCampaign(s) PROVE Facts'
  BY <1>0, <1>4 DEF ResetCampaign
<1>5. ASSUME NEW s \in Sends, RejectRequest(s) PROVE Facts'
  BY <1>0, <1>5 DEF RejectRequest
<1>6. ASSUME NEW s \in Sends, Enqueue(s) PROVE Facts'
  BY <1>0, <1>6 DEF Enqueue, SendLocals
<1>7. ASSUME NEW s \in Sends, TakeJob(s) PROVE Facts'
  BY <1>0, <1>7 DEF TakeJob
<1>8. ASSUME NEW s \in Sends, Decide(s) PROVE Facts'
  BY <1>0, <1>8 DEF Decide, SendLocals
<1>9. ASSUME NEW s \in Sends, MarkResolving(s) PROVE Facts'
  BY <1>0, <1>9 DEF MarkResolving
<1>10. ASSUME NEW s \in Sends, ClearSnapshot(s) PROVE Facts'
  BY <1>0, <1>10 DEF ClearSnapshot, SendLocals
<1>11. ASSUME NEW s \in Sends, InsertBatch(s) PROVE Facts'
  BY <1>0, <1>11 DEF InsertBatch, SendLocals
<1>12. ASSUME NEW s \in Sends, SnapshotDone(s) PROVE Facts'
  BY <1>0, <1>12 DEF SnapshotDone
<1>13. ASSUME NEW s \in Sends, RecordSnapshot(s) PROVE Facts'
  BY <1>0, <1>13 DEF RecordSnapshot
<1>14. ASSUME NEW s \in Sends, ResumeCheck(s) PROVE Facts'
  BY <1>0, <1>14 DEF ResumeCheck
<1>15. ASSUME NEW s \in Sends, ResumeDone(s) PROVE Facts'
  BY <1>0, <1>15 DEF ResumeDone
<1>16. ASSUME NEW s \in Sends, Precheck(s) PROVE Facts'
  BY <1>0, <1>16 DEF Precheck
<1>17. ASSUME NEW s \in Sends, ReadReservation(s) PROVE Facts'
  BY <1>0, <1>17 DEF ReadReservation, SendLocals
<1>18. ASSUME NEW s \in Sends, TakeCredits(s) PROVE Facts'
  BY <1>0, <1>18 DEF TakeCredits, SendLocals, PolicyDoc, CanReserve
<1>19. ASSUME NEW s \in Sends, TakeCreditsFails(s) PROVE Facts'
  BY <1>0, <1>19 DEF TakeCreditsFails, CanReserve
<1>20. ASSUME NEW s \in Sends, RecordReservation(s) PROVE Facts'
  BY <1>0, <1>20 DEF RecordReservation
<1>21. ASSUME NEW s \in Sends, Start(s) PROVE Facts'
  BY <1>0, <1>21 DEF Start
<1>22. ASSUME NEW s \in Sends, LoadChunk(s) PROVE Facts'
  BY <1>0, <1>22 DEF LoadChunk, SendLocals
<1>23. ASSUME NEW s \in Sends, GuardChunk(s) PROVE Facts'
  BY <1>0, <1>23 DEF GuardChunk
<1>24. ASSUME NEW s \in Sends, FilterSubscribed(s) PROVE Facts'
  BY <1>0, <1>24 DEF FilterSubscribed, SendLocals
<1>25. ASSUME NEW s \in Sends, Suppress(s) PROVE Facts'
  BY <1>0, <1>25 DEF Suppress
<1>26. ASSUME NEW s \in Sends, ClaimCampaign(s) PROVE Facts'
  BY <1>0, <1>26 DEF ClaimCampaign
<1>27. ASSUME NEW s \in Sends, PersistCommunications(s) PROVE Facts'
  BY <1>0, <1>27 DEF PersistCommunications
<1>28. ASSUME NEW s \in Sends, PrepareRows(s) PROVE Facts'
  BY <1>0, <1>28 DEF PrepareRows
<1>29. ASSUME NEW s \in Sends, Submit(s) PROVE Facts'
  BY <1>0, <1>29 DEF Submit, SendLocals
<1>30. ASSUME NEW s \in Sends, ApplyResults(s) PROVE Facts'
  BY <1>0, <1>30 DEF ApplyResults
<1>31. ASSUME NEW s \in Sends, MarkQueued(s) PROVE Facts'
  BY <1>0, <1>31 DEF MarkQueued
<1>32. ASSUME NEW s \in Sends, UpdateStats(s) PROVE Facts'
  BY <1>0, <1>32 DEF UpdateStats
<1>33. ASSUME NEW s \in Sends, Bookkeep(s) PROVE Facts'
  BY <1>0, <1>33 DEF Bookkeep, SendLocals
<1>34. ASSUME NEW s \in Sends, Finish(s) PROVE Facts'
  BY <1>0, <1>34 DEF Finish
<1>35. ASSUME NEW s \in Sends, FinalizeCredits(s) PROVE Facts'
  BY <1>0, <1>35 DEF FinalizeCredits, PolicyDoc, SendLocals, Max2
<1>36. ASSUME NEW s \in Sends, ReleaseCredits(s) PROVE Facts'
  BY <1>0, <1>36 DEF ReleaseCredits, PolicyDoc, SendLocals
<1>37. ASSUME NEW s \in Sends, ClearReservation(s) PROVE Facts'
  BY <1>0, <1>37 DEF ClearReservation
<1>38. ASSUME NEW s \in Sends, Complete(s) PROVE Facts'
  BY <1>0, <1>38 DEF Complete
<1>39. ASSUME NEW s \in Sends, ChunkFailed(s) PROVE Facts'
  BY <1>0, <1>39 DEF ChunkFailed
<1>40. ASSUME NEW s \in Sends, SendCatch(s) PROVE Facts'
  BY <1>0, <1>40 DEF SendCatch
<1>41. ASSUME NEW s \in Sends, JobCatch(s) PROVE Facts'
  BY <1>0, <1>41 DEF JobCatch
<1>42. ASSUME NEW s \in Sends, AttemptFailed(s) PROVE Facts'
  BY <1>0, <1>42 DEF AttemptFailed, SendLocals, JobData
<1>43. ASSUME NEW s \in Sends, SubmitFails(s) PROVE Facts'
  BY <1>0, <1>43 DEF SubmitFails
<1>44. ASSUME NEW s \in Sends, Throw(s) PROVE Facts'
  BY <1>0, <1>44 DEF Throw, SendLocals, Handler
<1>45. ASSUME NEW s \in Sends, ThrowInRequest(s) PROVE Facts'
  BY <1>0, <1>45 DEF ThrowInRequest
<1>46. ASSUME NEW s \in Sends, Crash(s) PROVE Facts'
  BY <1>0, <1>46 DEF Crash, SendLocals, JobData
<1>47. ASSUME NEW t \in UserTargets, ReadTransition(t) PROVE Facts'
  BY <1>47 DEF ReadTransition
<1>48. ASSUME SaveTransition PROVE Facts'
  BY <1>48 DEF SaveTransition
<1>49. ASSUME NEW r \in Recipients, Unsubscribe(r) PROVE Facts'
  BY <1>49 DEF Unsubscribe
<1>50. ASSUME ChangePolicyStatus PROVE Facts'
  BY <1>0, <1>50 DEF ChangePolicyStatus, PolicyDoc
<1>51. ASSUME SlotsWiped PROVE Facts'
  BY <1>51 DEF SlotsWiped
<1>52. ASSUME UNCHANGED vars PROVE Facts'
  BY <1>52 DEF vars
<1>53. QED
  BY <1>1, <1>2, <1>3, <1>4, <1>5, <1>6, <1>7, <1>8, <1>9, <1>10, <1>11, <1>12, <1>13,
     <1>14, <1>15, <1>16, <1>17, <1>18, <1>19, <1>20, <1>21, <1>22, <1>23, <1>24,
     <1>25, <1>26, <1>27, <1>28, <1>29, <1>30, <1>31, <1>32, <1>33, <1>34, <1>35,
     <1>36, <1>37, <1>38, <1>39, <1>40, <1>41, <1>42, <1>43, <1>44, <1>45, <1>46,
     <1>47, <1>48, <1>49, <1>50, <1>51, <1>52
  DEF Next, RequestStep, JobStep, Environment

\* The types and the facts together are preserved by every step.
LEMMA Inductive == Spec => []IInv
<1>1. Init => IInv
  BY TypeInit, FactsInit DEF IInv
<1>2. IInv /\ [Next]_vars => IInv'
  BY TypeStep, FactsStep DEF IInv
<1>3. QED
  BY <1>1, <1>2, PTL DEF Spec

\* A row says "queued" only for a recipient that was handed to AMDS: for every
\* interleaving of any number of sends, with any crashes, throws and resets.
THEOREM QueuedIsSubmitted == Spec => []QueuedRowsWereSubmitted
<1>1. IInv => QueuedRowsWereSubmitted
  BY DEF IInv, Facts
<1>2. QED
  BY Inductive, <1>1, PTL

\* A message says "sent" only if AMDS accepted it, whatever overlaps or fails.
THEOREM SentIsAccepted == Spec => []SentOnlyIfAccepted
<1>1. IInv => SentOnlyIfAccepted
  BY DEF IInv, Facts
<1>2. QED
  BY Inductive, <1>1, PTL

\* Nobody who had not unsubscribed is suppressed, whatever overlaps or fails.
THEOREM SuppressedIsUnsubscribed == Spec => []SuppressedHadUnsubscribed
<1>1. IInv => SuppressedHadUnsubscribed
  BY DEF IInv, Facts
<1>2. QED
  BY Inductive, <1>1, PTL

\* The credit pool never goes below zero, however many sends reserve at once.
THEOREM PoolNeverNegative == Spec => []NoOverdraft
<1>1. IInv => NoOverdraft
  BY DEF IInv, Facts
<1>2. QED
  BY Inductive, <1>1, PTL

\* What a chunk carries across its awaits stays true of the documents until it
\* writes it, whatever other sends do in between.
THEOREM ChunkFacts == Spec => []ChunkRecordsFacts
<1>1. IInv => ChunkRecordsFacts
  BY DEF IInv, Facts
<1>2. QED
  BY Inductive, <1>1, PTL

-----------------------------------------------------------------------------
(* One send at a time: what a user who waits for a send to end can rely on.  *)
(* The slots promise no such thing, since their counter may be wiped.       *)

\* A send that is between its request and its end.
Resting == EndSteps \cup {"idle"}
Under(s) == pc[s] \notin Resting

\* At most one send is under way; at most one runs at a worker.
Alone == \A s, t \in Sends : Under(s) /\ Under(t) => s = t
OneActive == \A s, t \in Sends : pc[s] \in ActiveSteps /\ pc[t] \in ActiveSteps => s = t

\* The steps of one send, and what they leave alone.
StepOf(s) == \/ ReceiveRequest(s) \/ RequestStep(s) \/ JobStep(s)
             \/ SubmitFails(s) \/ Throw(s) \/ ThrowInRequest(s) \/ Crash(s)
Acts(s) == \A t \in Sends \ {s} : pc'[t] = pc[t] /\ send'[t] = send[t]

\* A step is one send's, or moves none; only a worker that takes the job makes it
\* run, and only a request puts a send under way.
LEMMA StepMoves ==
  ASSUME TypeOK, NEW s \in Sends, StepOf(s)
  PROVE  /\ Acts(s)
         /\ Under(s) \/ ReceiveRequest(s)
         /\ pc'[s] \in ActiveSteps => pc[s] \in ActiveSteps \/ TakeJob(s)
<1> USE DEF Acts, Under, Resting, At, Goto, TypeOK, Step, RequestSteps, BeforeTry,
            SendTry, ChunkTry, ActiveSteps, EndSteps
<1>1. CASE ReceiveRequest(s) \/ RequestStep(s) \/ ThrowInRequest(s)
  BY <1>1 DEF ReceiveRequest, RequestStep, ResetRows, ResetComms, ResetCampaign, RejectRequest,
              Enqueue, ThrowInRequest
<1>2. CASE TakeJob(s)
  BY <1>2 DEF TakeJob
<1>3. CASE \/ Decide(s) \/ MarkResolving(s) \/ ClearSnapshot(s) \/ SnapshotDone(s)
           \/ RecordSnapshot(s) \/ ResumeCheck(s) \/ ResumeDone(s) \/ Precheck(s)
  BY <1>3 DEF Decide, MarkResolving, ClearSnapshot, SnapshotDone, RecordSnapshot, ResumeCheck,
              ResumeDone, Precheck
<1>4. CASE InsertBatch(s)
  BY <1>4 DEF InsertBatch
<1>5. CASE \/ ReadReservation(s) \/ TakeCredits(s) \/ TakeCreditsFails(s) \/ RecordReservation(s)
           \/ FinalizeCredits(s) \/ ReleaseCredits(s) \/ ClearReservation(s) \/ Start(s)
  BY <1>5 DEF ReadReservation, TakeCredits, TakeCreditsFails, RecordReservation, FinalizeCredits,
              ReleaseCredits, ClearReservation, Start
<1>6. CASE \/ LoadChunk(s) \/ GuardChunk(s) \/ FilterSubscribed(s) \/ Suppress(s)
           \/ ClaimCampaign(s) \/ PersistCommunications(s) \/ PrepareRows(s) \/ Submit(s)
  BY <1>6 DEF LoadChunk, GuardChunk, FilterSubscribed, Suppress, ClaimCampaign,
              PersistCommunications, PrepareRows, Submit
<1>7. CASE \/ ApplyResults(s) \/ MarkQueued(s) \/ UpdateStats(s) \/ Bookkeep(s) \/ Finish(s)
           \/ Complete(s) \/ ChunkFailed(s) \/ SendCatch(s) \/ JobCatch(s) \/ AttemptFailed(s)
  BY <1>7 DEF ApplyResults, MarkQueued, UpdateStats, Bookkeep, Finish, Complete, ChunkFailed,
              SendCatch, JobCatch, AttemptFailed
<1>8. CASE SubmitFails(s) \/ Throw(s) \/ Crash(s)
  BY <1>8 DEF SubmitFails, Throw, Crash, Handler
<1>9. QED
  BY <1>1, <1>2, <1>3, <1>4, <1>5, <1>6, <1>7, <1>8 DEF StepOf, JobStep

\* Every other step leaves the sends, the rows, AMDS and the credits where they are,
\* and the campaign, unless it saves the status a user asked for.
LEMMA OtherSteps ==
  ASSUME TypeOK, [Next]_vars, ~\E s \in Sends : StepOf(s)
  PROVE  /\ UNCHANGED <<pc, send, rows, accepted, crashes, throws>>
         /\ policy'.remaining = policy.remaining /\ policy'.reserved = policy.reserved
         /\ UNCHANGED campaign \/ SaveTransition
<1>1. CASE ChangePolicyStatus
  BY <1>1 DEF ChangePolicyStatus, amds, counts, TypeOK, PolicyDoc
<1>2. CASE SaveTransition
  BY <1>2 DEF SaveTransition, amds, counts
<1>3. CASE \/ SlotsWiped \/ UNCHANGED vars \/ \E t \in UserTargets : ReadTransition(t)
           \/ \E r \in Recipients : Unsubscribe(r)
  BY <1>3 DEF SlotsWiped, ReadTransition, Unsubscribe, docs, amds, counts, vars
<1>4. QED
  BY <1>1, <1>2, <1>3 DEF Next, Environment, StepOf

\* A user who waits has one send under way.
LEMMA AloneStep == ASSUME PatientUser PROVE TypeOK /\ Alone /\ [Next]_vars => Alone'
<1> SUFFICES ASSUME TypeOK, Alone, [Next]_vars PROVE Alone'
  OBVIOUS
<1>1. ASSUME NEW s \in Sends, StepOf(s) PROVE Alone'
  <2>1. Acts(s) /\ (Under(s) \/ ReceiveRequest(s))
    BY <1>1, StepMoves
  <2>2. ReceiveRequest(s) => \A t \in Sends : ~Under(t)
    BY DEF ReceiveRequest, Quiet, Under, Resting
  <2>3. \A t \in Sends \ {s} : ~Under(t) /\ Under(t)' = Under(t)
    BY <2>1, <2>2 DEF Acts, Alone, Under
  <2>4. QED
    BY <2>3 DEF Alone
<1>2. CASE ~\E s \in Sends : StepOf(s)
  <2>1. UNCHANGED pc
    BY <1>2, OtherSteps
  <2>2. QED
    BY <2>1 DEF Alone, Under
<1>3. QED
  BY <1>1, <1>2

\* Nothing is under way at the beginning.
LEMMA AloneInit == Init => Alone
  BY DEF Init, Alone, Under, Resting

\* One send under way is one at a worker.
LEMMA OneActiveHolds == ASSUME PatientUser PROVE Spec => []OneActive
<1>1. TypeOK /\ Alone /\ [Next]_vars => Alone'
  BY AloneStep
<1>2. Alone => OneActive
  BY DEF Alone, OneActive, Under, Resting, ActiveSteps, BeforeTry, SendTry, ChunkTry, EndSteps
<1>3. QED
  BY <1>1, <1>2, AloneInit, TypeInit, TypeStep, PTL DEF Spec

\* While a chunk is worked on, none of its rows is queued, and those it hands over
\* are rows of the chunk.
InChunk == {"chunk", "filter", "suppress", "claim", "persist", "prepare", "submit", "apply",
            "markQueued"}
ChunkFresh ==
    \A s \in Sends :
        /\ pc[s] \in InChunk => \A r \in send[s].chunk : rows[r] # "queued"
        /\ pc[s] \in InChunk \ {"chunk", "filter"} => send[s].subscribed \subseteq send[s].chunk

\* Only the last update of a chunk records rows as queued.
LEMMA QueuedBy ==
  ASSUME TypeOK, NEW s \in Sends, StepOf(s)
  PROVE  MarkQueued(s) \/ \A r \in Recipients : rows'[r] = "queued" => rows[r] = "queued"
<1> USE DEF TypeOK
<1>1. CASE ResetRows(s) \/ ClearSnapshot(s) \/ Suppress(s) \/ PrepareRows(s)
  BY <1>1 DEF ResetRows, ClearSnapshot, Suppress, PrepareRows
<1>2. CASE InsertBatch(s)
  BY <1>2 DEF InsertBatch
<1>3. CASE UNCHANGED rows
  BY <1>3
<1>4. QED
  BY <1>1, <1>2, <1>3
  DEF StepOf, RequestStep, JobStep, ReceiveRequest, ResetComms, ResetCampaign, RejectRequest,
      Enqueue, TakeJob, Decide, MarkResolving, SnapshotDone, RecordSnapshot, ResumeCheck,
      ResumeDone, Precheck, ReadReservation, TakeCredits, TakeCreditsFails, RecordReservation,
      Start, LoadChunk, GuardChunk, FilterSubscribed, ClaimCampaign, PersistCommunications,
      Submit, ApplyResults, UpdateStats, Bookkeep, Finish, FinalizeCredits, ReleaseCredits,
      ClearReservation, Complete, ChunkFailed, SendCatch, JobCatch, AttemptFailed, SubmitFails,
      Throw, ThrowInRequest, Crash, docs

\* A chunk is entered by loading it and then passed step by step.
LEMMA ChunkSteps ==
  ASSUME TypeOK, NEW s \in Sends, StepOf(s), pc'[s] \in InChunk
  PROVE  \/ LoadChunk(s) /\ pc'[s] = "chunk"
         \/ /\ pc[s] \in InChunk /\ send'[s].chunk = send[s].chunk
            /\ \/ FilterSubscribed(s)
               \/ /\ send'[s].subscribed = send[s].subscribed
                  /\ pc'[s] \in {"chunk", "filter"} \/ pc[s] \notin {"chunk", "filter"}
<1> USE DEF InChunk, At, Goto, TypeOK, SendLocals
<1>1. CASE LoadChunk(s)
  BY <1>1 DEF LoadChunk
<1>2. CASE FilterSubscribed(s)
  BY <1>2 DEF FilterSubscribed
<1>3. CASE \/ GuardChunk(s) \/ Suppress(s) \/ ClaimCampaign(s) \/ PersistCommunications(s)
           \/ PrepareRows(s) \/ ApplyResults(s)
  BY <1>3 DEF GuardChunk, Suppress, ClaimCampaign, PersistCommunications, PrepareRows, ApplyResults
<1>4. CASE Submit(s)
  BY <1>4 DEF Submit
<1>5. CASE ReceiveRequest(s) \/ RequestStep(s) \/ ThrowInRequest(s)
  BY <1>5 DEF ReceiveRequest, RequestStep, ResetRows, ResetComms, ResetCampaign, RejectRequest,
              Enqueue, ThrowInRequest
<1>6. CASE \/ TakeJob(s) \/ Decide(s) \/ MarkResolving(s) \/ ClearSnapshot(s) \/ SnapshotDone(s)
           \/ RecordSnapshot(s) \/ ResumeCheck(s) \/ ResumeDone(s) \/ Precheck(s)
  BY <1>6 DEF TakeJob, Decide, MarkResolving, ClearSnapshot, SnapshotDone, RecordSnapshot,
              ResumeCheck, ResumeDone, Precheck
<1>7. CASE \/ ReadReservation(s) \/ TakeCredits(s) \/ TakeCreditsFails(s) \/ RecordReservation(s)
           \/ FinalizeCredits(s) \/ ReleaseCredits(s) \/ ClearReservation(s) \/ Start(s)
  BY <1>7 DEF ReadReservation, TakeCredits, TakeCreditsFails, RecordReservation, FinalizeCredits,
              ReleaseCredits, ClearReservation, Start
<1>8. CASE \/ MarkQueued(s) \/ UpdateStats(s) \/ Bookkeep(s) \/ Finish(s) \/ Complete(s)
           \/ ChunkFailed(s) \/ SendCatch(s) \/ JobCatch(s) \/ AttemptFailed(s)
  BY <1>8 DEF MarkQueued, UpdateStats, Bookkeep, Finish, Complete, ChunkFailed, SendCatch,
              JobCatch, AttemptFailed
<1>9. CASE InsertBatch(s)
  <2>1. pc[s] = "insert" /\ UNCHANGED pc
    BY <1>9 DEF InsertBatch
  <2>2. QED
    BY <2>1
<1>10. CASE SubmitFails(s) \/ Throw(s) \/ Crash(s)
  BY <1>10 DEF SubmitFails, Throw, Crash, Handler
<1>11. QED
  BY <1>1, <1>2, <1>3, <1>4, <1>5, <1>6, <1>7, <1>8, <1>9, <1>10 DEF StepOf, JobStep

\* While one send runs, no other queues the rows of its chunk.
LEMMA ChunkFreshStep ==
  TypeOK /\ TypeOK' /\ OneActive /\ ChunkFresh /\ [Next]_vars => ChunkFresh'
<1> SUFFICES ASSUME TypeOK, TypeOK', OneActive, ChunkFresh, [Next]_vars PROVE ChunkFresh'
  OBVIOUS
<1>r. \A t \in Sends : send[t].chunk \subseteq Recipients /\ send'[t].chunk \subseteq Recipients
  BY DEF TypeOK, SendLocals
<1>i. InChunk \subseteq ActiveSteps
  BY DEF InChunk, ActiveSteps, SendTry, ChunkTry
<1>1. ASSUME NEW s \in Sends, StepOf(s) PROVE ChunkFresh'
  <2>1. Acts(s)
    BY <1>1, StepMoves
  <2>q. ASSUME ~MarkQueued(s) PROVE \A r \in Recipients : rows'[r] = "queued" => rows[r] = "queued"
    BY <1>1, <2>q, QueuedBy
  <2>2. ASSUME NEW t \in Sends \ {s}
        PROVE  /\ pc'[t] \in InChunk => \A r \in send'[t].chunk : rows'[r] # "queued"
               /\ pc'[t] \in InChunk \ {"chunk", "filter"} =>
                    send'[t].subscribed \subseteq send'[t].chunk
    <3>1. pc'[t] = pc[t] /\ send'[t] = send[t]
      BY <2>1 DEF Acts
    <3>2. CASE MarkQueued(s)
      <4>1. pc[s] \in ActiveSteps
        BY <3>2 DEF MarkQueued, At, ActiveSteps, ChunkTry
      <4>2. pc[t] \notin InChunk
        BY <1>i, <4>1 DEF OneActive
      <4>3. QED
        BY <3>1, <4>2
    <3>3. CASE ~MarkQueued(s)
      BY <1>r, <2>q, <3>1, <3>3 DEF ChunkFresh
    <3>4. QED
      BY <3>2, <3>3
  <2>3. ASSUME pc'[s] \in InChunk
        PROVE  /\ \A r \in send'[s].chunk : rows'[r] # "queued"
               /\ pc'[s] \notin {"chunk", "filter"} => send'[s].subscribed \subseteq send'[s].chunk
    <3>0. ~MarkQueued(s)
      BY <2>3 DEF MarkQueued, Goto, TypeOK, InChunk
    <3>1. CASE LoadChunk(s) /\ pc'[s] = "chunk"
      <4>1. send'[s].chunk \subseteq PendingRows /\ UNCHANGED rows
        BY <3>1 DEF LoadChunk, docs, TypeOK, SendLocals
      <4>2. QED
        BY <3>1, <4>1 DEF PendingRows
    <3>2. CASE /\ pc[s] \in InChunk /\ send'[s].chunk = send[s].chunk
               /\ \/ FilterSubscribed(s)
                  \/ /\ send'[s].subscribed = send[s].subscribed
                     /\ pc'[s] \in {"chunk", "filter"} \/ pc[s] \notin {"chunk", "filter"}
      <4>1. \A r \in send'[s].chunk : rows'[r] # "queued"
        BY <1>r, <2>q, <3>0, <3>2 DEF ChunkFresh
      <4>2. CASE FilterSubscribed(s)
        BY <3>2, <4>1, <4>2 DEF FilterSubscribed, TypeOK, SendLocals
      <4>3. CASE ~FilterSubscribed(s)
        BY <3>2, <4>1, <4>3 DEF ChunkFresh
      <4>4. QED
        BY <4>2, <4>3
    <3>3. QED
      BY <1>1, <2>3, <3>1, <3>2, ChunkSteps
  <2>4. QED
    BY <2>2, <2>3 DEF ChunkFresh
<1>2. CASE ~\E s \in Sends : StepOf(s)
  <2>1. UNCHANGED <<pc, send, rows>>
    BY <1>2, OtherSteps
  <2>2. QED
    BY <2>1 DEF ChunkFresh
<1>3. QED
  BY <1>1, <1>2

\* The types, one send at a worker, and fresh chunks.
Orderly == TypeOK /\ OneActive /\ ChunkFresh

\* They hold of every behaviour with a user who waits.
LEMMA OrderlyHolds == ASSUME PatientUser PROVE Spec => []Orderly
<1>1. Spec => []OneActive
  BY OneActiveHolds
<1>2. Init => ChunkFresh
  BY DEF Init, ChunkFresh, InChunk
<1>3. QED
  BY <1>1, <1>2, TypeInit, TypeStep, ChunkFreshStep, PTL DEF Spec, Orderly

\* With a user who waits for a send to end, a recipient recorded as queued is neither
\* prepared nor handed to AMDS again, whatever crashes, throws or fails, and whatever
\* the counter of the slots says (loadCampaignRecipientChunk,
\* upsertCampaignRecipientSendRows).
THEOREM QueuedIsNotResubmitted ==
  ASSUME PatientUser PROVE Spec => NeverResubmitQueued
<1>1. Spec => []Orderly
  BY OrderlyHolds
<1>2. Orderly =>
        \A s \in Sends : PrepareRows(s) \/ Submit(s) =>
          \A r \in send[s].subscribed : rows[r] # "queued"
  BY DEF Orderly, ChunkFresh, InChunk, PrepareRows, Submit, At
<1>3. Orderly /\ [Next]_vars =>
        [\A s \in Sends : PrepareRows(s) \/ Submit(s) =>
           \A r \in send[s].subscribed : rows[r] # "queued"]_vars
  BY <1>2
<1>4. QED
  BY <1>1, <1>3, PTL DEF Spec, NeverResubmitQueued

-----------------------------------------------------------------------------
(* The count of the queued.  The rows that say "queued" and were accepted   *)
(* are at least as many as stats.queued says, except while a failed          *)
(* campaign is being reset: its rows are reset first, its count last.       *)

Done == {r \in accepted : rows[r] = "queued"}
Resets == {"resetRows", "resetComms", "resetCampaign"}

\* Rows reset and the count not yet: everything under way is the reset itself.
Exempt == campaign.status # "draft" /\ \A s \in Sends : Under(s) => pc[s] \in Resets

Counts == /\ campaign.queued <= Cardinality(accepted)
          /\ Exempt \/ campaign.queued <= Cardinality(Done)

\* What a send relies on from one update to the next: what it took is accepted, the
\* rows it handed over are prepared, those it is about to count are queued and not
\* counted yet, and a snapshot replaces no queued row.
Holding(s) ==
    /\ ~send[s].force
    /\ pc[s] \in Resets => campaign.status # "draft"
    /\ pc[s] \in {"resolving", "clear", "insert"} => \A r \in Recipients : rows[r] # "queued"
    /\ pc[s] \in {"submit", "apply", "markQueued"} =>
         \A r \in send[s].subscribed : rows[r] = "prepared"
    /\ pc[s] \in {"apply", "markQueued"} => send[s].took \subseteq accepted \cap send[s].subscribed
    /\ pc[s] = "stats" => campaign.queued + Cardinality(send[s].took) <= Cardinality(Done)

StatsInv == /\ TypeOK /\ Alone /\ ChunkFresh
            /\ userStatus # "draft"
            /\ Counts /\ \A s \in Sends : Holding(s)

\* The sends that do not act are at rest, and stay so.
LEMMA OthersRest ==
  ASSUME PatientUser, TypeOK, Alone, NEW s \in Sends, StepOf(s), NEW t \in Sends \ {s}
  PROVE  ~Under(t) /\ pc'[t] = pc[t] /\ send'[t] = send[t]
<1>1. Acts(s) /\ (Under(s) \/ ReceiveRequest(s))
  BY StepMoves
<1>2. ReceiveRequest(s) => ~Under(t)
  BY DEF ReceiveRequest, Quiet, Under, Resting
<1>3. QED
  BY <1>1, <1>2 DEF Acts, Alone

\* Only a new request sets the force flag.
LEMMA ForceKept ==
  ASSUME TypeOK, NEW s \in Sends, StepOf(s)
  PROVE  ReceiveRequest(s) \/ send'[s].force = send[s].force
<1> USE DEF TypeOK, SendLocals, CampaignDoc
<1>1. CASE ReceiveRequest(s)
  BY <1>1 DEF ReceiveRequest
<1>2. CASE Enqueue(s) \/ ClearSnapshot(s) \/ ReadReservation(s) \/ TakeCredits(s)
  BY <1>2 DEF Enqueue, ClearSnapshot, ReadReservation, TakeCredits
<1>3. CASE Decide(s)
  BY <1>3 DEF Decide
<1>4. CASE InsertBatch(s)
  BY <1>4 DEF InsertBatch
<1>5. CASE LoadChunk(s) \/ FilterSubscribed(s) \/ Submit(s)
  BY <1>5 DEF LoadChunk, FilterSubscribed, Submit
<1>6. CASE Bookkeep(s) \/ Throw(s)
  BY <1>6 DEF Bookkeep, Throw, Counted
<1>7. CASE Crash(s) \/ AttemptFailed(s)
  <2>1. PICK j \in SendLocals : j = JobData(s)
    BY JobDataType
  <2>2. j.force = send[s].force
    BY <2>1 DEF JobData, NoLocals
  <2>3. QED
    BY <1>7, <2>1, <2>2 DEF Crash, AttemptFailed
<1>8. CASE UNCHANGED send
  BY <1>8
<1>9. QED
  BY <1>1, <1>2, <1>3, <1>4, <1>5, <1>6, <1>7, <1>8
  DEF StepOf, RequestStep, JobStep, ResetRows, ResetComms, ResetCampaign, RejectRequest,
      TakeJob, MarkResolving, SnapshotDone, RecordSnapshot, ResumeCheck, ResumeDone,
      Precheck, TakeCreditsFails, RecordReservation, Start, GuardChunk, Suppress,
      ClaimCampaign, PersistCommunications, PrepareRows, ApplyResults, MarkQueued,
      UpdateStats, Finish, FinalizeCredits, ReleaseCredits, ClearReservation, Complete,
      ChunkFailed, SendCatch, JobCatch, SubmitFails, ThrowInRequest, docs, amds, world

\* Only the reset and the update of the stats write the count; only the reset makes a
\* campaign a draft.
LEMMA CountKept ==
  ASSUME TypeOK, NEW s \in Sends, StepOf(s)
  PROVE  UpdateStats(s) \/ ResetCampaign(s) \/
           /\ campaign'.queued = campaign.queued
           /\ campaign'.status = "draft" => campaign.status = "draft"
<1> USE DEF TypeOK, SendLocals, CampaignDoc
<1>1. CASE UpdateStats(s) \/ ResetCampaign(s)
  BY <1>1 DEF UpdateStats, ResetCampaign
<1>2. CASE Enqueue(s)
  BY <1>2 DEF Enqueue
<1>3. CASE \/ MarkResolving(s) \/ RecordSnapshot(s) \/ ResumeDone(s) \/ RecordReservation(s)
           \/ ClearReservation(s)
  BY <1>3 DEF MarkResolving, RecordSnapshot, ResumeDone, RecordReservation, ClearReservation
<1>4. CASE Start(s) \/ ClaimCampaign(s) \/ Bookkeep(s) \/ Complete(s)
  BY <1>4 DEF Start, ClaimCampaign, Bookkeep, Complete
<1>5. CASE ChunkFailed(s) \/ SendCatch(s) \/ JobCatch(s)
  BY <1>5 DEF ChunkFailed, SendCatch, JobCatch
<1>6. CASE UNCHANGED campaign
  BY <1>6
<1>7. QED
  BY <1>1, <1>2, <1>3, <1>4, <1>5, <1>6
  DEF StepOf, RequestStep, JobStep, ReceiveRequest, ResetRows, ResetComms, RejectRequest,
      TakeJob, Decide, ClearSnapshot, InsertBatch, SnapshotDone, ResumeCheck, Precheck,
      ReadReservation, TakeCredits, TakeCreditsFails, LoadChunk, GuardChunk,
      FilterSubscribed, Suppress, PersistCommunications, PrepareRows, Submit, ApplyResults,
      MarkQueued, Finish, FinalizeCredits, ReleaseCredits, AttemptFailed, SubmitFails,
      Throw, ThrowInRequest, Crash, docs, amds, world

\* What AMDS has accepted stays accepted; a user request is none of the send's.
LEMMA AcceptedGrows ==
  ASSUME TypeOK, NEW s \in Sends, StepOf(s)
  PROVE  userStatus' = userStatus /\ accepted \subseteq accepted'
<1> USE DEF TypeOK, SendLocals, CampaignDoc
<1>1. CASE Submit(s) \/ SubmitFails(s)
  BY <1>1 DEF Submit, SubmitFails, docs, world
<1>2. CASE UNCHANGED <<userStatus, accepted>>
  BY <1>2
<1>3. QED
  BY <1>1, <1>2
  DEF StepOf, RequestStep, JobStep, ReceiveRequest, ResetRows, ResetComms, ResetCampaign,
      RejectRequest, Enqueue, TakeJob, Decide, MarkResolving, ClearSnapshot, InsertBatch,
      SnapshotDone, RecordSnapshot, ResumeCheck, ResumeDone, Precheck, ReadReservation,
      TakeCredits, TakeCreditsFails, RecordReservation, Start, LoadChunk, GuardChunk,
      FilterSubscribed, Suppress, ClaimCampaign, PersistCommunications, PrepareRows,
      ApplyResults, MarkQueued, UpdateStats, Bookkeep, Finish, FinalizeCredits,
      ReleaseCredits, ClearReservation, Complete, ChunkFailed, SendCatch, JobCatch,
      AttemptFailed, Throw, ThrowInRequest, Crash, docs, amds, world

\* Together.
LEMMA StepKeeps ==
  ASSUME TypeOK, NEW s \in Sends, StepOf(s)
  PROVE  /\ ReceiveRequest(s) \/ send'[s].force = send[s].force
         /\ UpdateStats(s) \/ ResetCampaign(s) \/ campaign'.queued = campaign.queued
         /\ campaign'.status = "draft" => ResetCampaign(s) \/ campaign.status = "draft"
         /\ userStatus' = userStatus
         /\ accepted \subseteq accepted'
<1>1. UpdateStats(s) => campaign'.status # "draft"
  BY DEF UpdateStats, TypeOK, CampaignDoc
<1>2. QED
  BY <1>1, ForceKept, CountKept, AcceptedGrows

\* Only the reset of a failed campaign takes a queued row back.
LEMMA DoneGrows ==
  ASSUME TypeOK, ChunkFresh, NEW s \in Sends, Holding(s), StepOf(s), ~ResetRows(s)
  PROVE  Done \subseteq Done'
<1>1. accepted \subseteq accepted'
  BY StepKeeps
<1>2. SUFFICES \A r \in Recipients : rows[r] = "queued" => rows'[r] = "queued"
  BY <1>1 DEF Done, TypeOK
<1> USE DEF TypeOK, SendLocals
<1>3. CASE ClearSnapshot(s)
  BY <1>3 DEF ClearSnapshot, Holding, At
<1>4. CASE InsertBatch(s)
  BY <1>4 DEF InsertBatch
<1>5. CASE Suppress(s) \/ PrepareRows(s)
  BY <1>5 DEF Suppress, PrepareRows, ChunkFresh, InChunk, At
<1>6. CASE MarkQueued(s)
  BY <1>6 DEF MarkQueued
<1>7. CASE UNCHANGED rows
  BY <1>7
<1>8. QED
  BY <1>3, <1>4, <1>5, <1>6, <1>7
  DEF StepOf, RequestStep, JobStep, ReceiveRequest, ResetComms, ResetCampaign, RejectRequest,
      Enqueue, TakeJob, Decide, MarkResolving, SnapshotDone, RecordSnapshot, ResumeCheck,
      ResumeDone, Precheck, ReadReservation, TakeCredits, TakeCreditsFails, RecordReservation,
      Start, LoadChunk, GuardChunk, FilterSubscribed, ClaimCampaign, PersistCommunications,
      Submit, ApplyResults, UpdateStats, Bookkeep, Finish, FinalizeCredits, ReleaseCredits,
      ClearReservation, Complete, ChunkFailed, SendCatch, JobCatch, AttemptFailed, SubmitFails,
      Throw, ThrowInRequest, Crash, docs

\* A set of recipients inside another has no more members; two that share none have
\* together as many as both.
LEMMA CountsAdd ==
  ASSUME NEW A \in SUBSET Recipients, NEW B \in SUBSET Recipients
  PROVE  /\ A \subseteq B => Cardinality(A) <= Cardinality(B)
         /\ A \cap B = {} => Cardinality(A \cup B) = Cardinality(A) + Cardinality(B)
<1>1. IsFiniteSet(A) /\ IsFiniteSet(B) /\ Cardinality(A) \in Nat /\ Cardinality(B) \in Nat
  BY FS_Subset, FS_CardinalityType, RecipientsAssumption
<1>2. A \subseteq B => Cardinality(A) <= Cardinality(B)
  BY <1>1, FS_Subset
<1>3. A \cap B = {} => Cardinality(A \cup B) = Cardinality(A) + Cardinality(B)
  BY <1>1, FS_Union, FS_EmptySet
<1>4. QED
  BY <1>2, <1>3

\* An attempt that does not resume finds no queued row to replace.
LEMMA FreshFindsNoneQueued ==
  ASSUME TypeOK, ~(HasSnapshot /\ ResumePlan.isResume)
  PROVE  \A r \in Recipients : rows[r] # "queued"
<1> DEFINE All == {r \in Recipients : rows[r] # "none"}
<1>1. CASE ~HasSnapshot
  BY <1>1 DEF HasSnapshot
<1>2. CASE ~ResumePlan.isResume
  <2>1. PendingRows \subseteq All /\ IsFiniteSet(All)
    BY FS_Subset, RecipientsAssumption DEF PendingRows
  <2>2. Cardinality(PendingRows) \in Nat /\ Cardinality(All) \in Nat
    BY CountIsNat DEF PendingRows
  <2>3. ~(Cardinality(All) - Cardinality(PendingRows) > 0)
    BY <1>2 DEF ResumePlan, Total
  <2>4. Cardinality(PendingRows) <= Cardinality(All)
    BY <2>1, FS_Subset
  <2>5. Cardinality(PendingRows) = Cardinality(All)
    BY <2>2, <2>3, <2>4
  <2>6. PendingRows = All
    BY <2>1, <2>5, FS_Subset
  <2>7. QED
    BY <2>6 DEF PendingRows
<1>3. QED
  BY <1>1, <1>2

\* A reset comes with a status that is not draft, and waits for nothing.
LEMMA CountsStep ==
  ASSUME PatientUser, TypeOK, TypeOK', Alone, ChunkFresh, Counts, NEW s \in Sends, Holding(s),
         StepOf(s)
  PROVE  Counts'
<1>1. /\ Done \in SUBSET Recipients /\ Done' \in SUBSET Recipients
      /\ accepted \in SUBSET Recipients /\ accepted' \in SUBSET Recipients
      /\ Done' \subseteq accepted' /\ accepted \subseteq accepted'
  BY StepKeeps DEF TypeOK, Done
<1>2. \A A \in SUBSET Recipients : Cardinality(A) \in Nat
  BY CountIsNat
<1>3. campaign.queued \in Nat /\ campaign'.queued \in Nat
  BY DEF TypeOK, CampaignDoc
<1>4. /\ Cardinality(accepted) <= Cardinality(accepted')
      /\ Cardinality(Done') <= Cardinality(accepted')
  BY <1>1, CountsAdd
<1>5. Under(s) \/ ReceiveRequest(s)
  BY StepMoves
<1>6. CASE ResetCampaign(s)
  <2>1. campaign'.queued = 0
    BY <1>6 DEF ResetCampaign, TypeOK, CampaignDoc
  <2>2. QED
    BY <1>1, <1>2, <2>1 DEF Counts
<1>7. CASE UpdateStats(s)
  <2>1. campaign'.queued <= campaign.queued + Cardinality(send[s].took)
    <3> DEFINE n == Cardinality(send[s].took)
    <3>1. n \in Nat
      BY <1>2 DEF TypeOK, SendLocals
    <3> HIDE DEF n
    <3>2. QED
      BY <1>3, <1>7, <3>1 DEF UpdateStats, TypeOK, CampaignDoc, n
  <2>2. campaign.queued + Cardinality(send[s].took) <= Cardinality(Done)
    BY <1>7 DEF UpdateStats, At, Holding
  <2>3. Cardinality(Done) <= Cardinality(Done')
    BY <1>1, <1>7, DoneGrows, CountsAdd DEF UpdateStats, ResetRows, At
  <2>4. Cardinality(send[s].took) \in Nat
    BY <1>2 DEF TypeOK, SendLocals
  <2>5. QED
    BY <1>1, <1>2, <1>3, <1>4, <2>1, <2>2, <2>3, <2>4 DEF Counts
<1>8. CASE ~UpdateStats(s) /\ ~ResetCampaign(s)
  <2>1. campaign'.queued = campaign.queued
    BY <1>8, StepKeeps
  <2>2. campaign'.queued <= Cardinality(accepted')
    BY <1>1, <1>2, <1>3, <1>4, <2>1 DEF Counts
  <2>3. campaign.status # "draft" => campaign'.status # "draft"
    BY <1>8, StepKeeps
  <2>4. CASE campaign.queued <= Cardinality(Done) /\ ~ResetRows(s)
    <3>1. Cardinality(Done) <= Cardinality(Done')
      BY <1>1, <2>4, DoneGrows, CountsAdd
    <3>2. QED
      BY <1>1, <1>2, <1>3, <2>1, <2>2, <2>4, <3>1 DEF Counts
  <2>5. ASSUME ResetRows(s) \/ Exempt, campaign.status # "draft",
               pc'[s] \in Resets \/ pc'[s] \in Resting
        PROVE  Counts'
    <3>1. \A t \in Sends : Under(t)' => pc'[t] \in Resets
      <4>1. \A t \in Sends \ {s} : ~Under(t) /\ pc'[t] = pc[t]
        BY OthersRest
      <4>2. QED
        BY <2>5, <4>1 DEF Under
    <3>2. QED
      BY <2>2, <2>3, <2>5, <3>1 DEF Counts, Exempt
  <2>6. CASE ResetRows(s)
    <3>1. campaign.status # "draft" /\ pc'[s] \in Resets
      BY <2>6 DEF ResetRows, Holding, Resets, At, Goto, TypeOK
    <3>2. QED
      BY <2>5, <2>6, <3>1
  <2>7. CASE Exempt /\ ~ResetRows(s)
    <3>1. campaign.status # "draft"
      BY <2>7 DEF Exempt
    <3>2. CASE ReceiveRequest(s)
      <4>1. campaign.status = "failed"
        BY <3>1, <3>2 DEF ReceiveRequest, TypeOK, CampaignDoc, CampaignStatus, SENDABLE_STATUSES
      <4>2. pc'[s] \in Resets
        BY <3>2, <4>1 DEF ReceiveRequest, Goto, TypeOK, Resets
      <4>3. QED
        BY <2>5, <2>7, <3>1, <4>2
    <3>3. CASE ~ReceiveRequest(s)
      <4>1. pc[s] \in Resets
        BY <1>5, <2>7, <3>3 DEF Exempt
      <4>2. ResetComms(s) \/ ThrowInRequest(s)
        BY <1>8, <2>7, <3>3, <4>1
        DEF StepOf, RequestStep, JobStep, RejectRequest, At, Resets,
      Enqueue, TakeJob, Decide, MarkResolving, SnapshotDone, RecordSnapshot, ResumeCheck,
      ResumeDone, Precheck, ReadReservation, TakeCredits, TakeCreditsFails, RecordReservation,
      Start, LoadChunk, GuardChunk, FilterSubscribed, ClaimCampaign, PersistCommunications,
      Submit, ApplyResults, UpdateStats, Bookkeep, Finish, FinalizeCredits, ReleaseCredits,
      ClearReservation, Complete, ChunkFailed, SendCatch, JobCatch, AttemptFailed, SubmitFails,
      Throw, Crash, ActiveSteps, BeforeTry, SendTry, ChunkTry, ClearSnapshot, InsertBatch,
      Suppress, PrepareRows, MarkQueued
      <4>3. pc'[s] \in Resets \/ pc'[s] \in Resting
        BY <4>2 DEF ResetComms, ThrowInRequest, Goto, Resets, Resting, EndSteps, TypeOK
      <4>4. QED
        BY <2>5, <2>7, <3>1, <4>3
    <3>4. QED
      BY <3>2, <3>3
  <2>8. QED
    BY <2>4, <2>6, <2>7 DEF Counts
<1>9. QED
  BY <1>6, <1>7, <1>8

\* The steps that lead to a point where a send holds on to something.
Watched == Resets \cup {"resolving", "clear", "insert", "submit", "apply", "markQueued", "stats"}
LEMMA WatchedSteps ==
  ASSUME TypeOK, NEW s \in Sends, StepOf(s), pc'[s] \in Watched
  PROVE  \/ ReceiveRequest(s) \/ ResetRows(s) \/ ResetComms(s) \/ Decide(s)
         \/ MarkResolving(s) \/ ClearSnapshot(s) \/ InsertBatch(s) \/ PrepareRows(s)
         \/ Submit(s) \/ ApplyResults(s) \/ MarkQueued(s)
<1> USE DEF Watched, Resets, At, Goto, TypeOK
<1>1. CASE \/ ResetCampaign(s) \/ RejectRequest(s) \/ Enqueue(s) \/ TakeJob(s)
           \/ SnapshotDone(s) \/ RecordSnapshot(s) \/ ResumeCheck(s) \/ ResumeDone(s)
           \/ Precheck(s)
  BY <1>1 DEF ResetCampaign, RejectRequest, Enqueue, TakeJob, SnapshotDone, RecordSnapshot,
              ResumeCheck, ResumeDone, Precheck
<1>2. CASE \/ ReadReservation(s) \/ TakeCredits(s) \/ TakeCreditsFails(s) \/ RecordReservation(s)
           \/ FinalizeCredits(s) \/ ReleaseCredits(s) \/ ClearReservation(s) \/ Start(s)
  BY <1>2 DEF ReadReservation, TakeCredits, TakeCreditsFails, RecordReservation, FinalizeCredits,
              ReleaseCredits, ClearReservation, Start
<1>3. CASE \/ LoadChunk(s) \/ GuardChunk(s) \/ FilterSubscribed(s) \/ Suppress(s)
           \/ ClaimCampaign(s) \/ PersistCommunications(s)
  BY <1>3 DEF LoadChunk, GuardChunk, FilterSubscribed, Suppress, ClaimCampaign,
              PersistCommunications
<1>4. CASE \/ UpdateStats(s) \/ Bookkeep(s) \/ Finish(s) \/ Complete(s) \/ ChunkFailed(s)
           \/ SendCatch(s) \/ JobCatch(s) \/ AttemptFailed(s)
  BY <1>4 DEF UpdateStats, Bookkeep, Finish, Complete, ChunkFailed, SendCatch, JobCatch,
              AttemptFailed
<1>5. CASE SubmitFails(s) \/ Throw(s) \/ ThrowInRequest(s) \/ Crash(s)
  BY <1>5 DEF SubmitFails, Throw, ThrowInRequest, Crash, Handler
<1>6. QED
  BY <1>1, <1>2, <1>3, <1>4, <1>5 DEF StepOf, RequestStep, JobStep

\* The send that acts holds what it relies on.
LEMMA HoldingStep ==
  ASSUME PatientUser, ForceOptions \subseteq {FALSE},
         TypeOK, TypeOK', Alone, ChunkFresh, Counts, NEW s \in Sends, Holding(s), StepOf(s)
  PROVE  Holding(s)'
<1> USE DEF TypeOK, SendLocals, CampaignDoc, At, Goto
<1>1. ~send'[s].force
  <2>1. ASSUME ReceiveRequest(s) PROVE ~send'[s].force
    <3>1. PICK f \in ForceOptions : send' = [send EXCEPT ![s].force = f]
      BY <2>1 DEF ReceiveRequest
    <3>2. f = FALSE
      OBVIOUS
    <3>3. QED
      BY <3>1, <3>2
  <2>2. QED
    BY <2>1, StepKeeps DEF Holding
<1>2. CASE pc'[s] \notin Watched
  BY <1>1, <1>2 DEF Holding, Watched, Resets
<1> USE DEF Resets, docs, amds
<1>3. CASE ReceiveRequest(s) \/ ResetRows(s) \/ ResetComms(s)
  BY <1>1, <1>3 DEF ReceiveRequest, ResetRows, ResetComms, Holding
<1>4. CASE Decide(s)
  <2>1. pc'[s] \in {"resolving", "jobCatch", "resumeCheck"} /\ UNCHANGED rows
    BY <1>4 DEF Decide
  <2>2. pc'[s] = "resolving" => ~(HasSnapshot /\ ResumePlan.isResume)
    BY <1>4 DEF Decide, Holding
  <2>3. pc'[s] = "resolving" => \A r \in Recipients : rows'[r] # "queued"
    BY <2>1, <2>2, FreshFindsNoneQueued
  <2>4. QED
    BY <1>1, <2>1, <2>3 DEF Holding
<1>5. CASE MarkResolving(s) \/ ClearSnapshot(s)
  BY <1>1, <1>5 DEF MarkResolving, ClearSnapshot, Holding
<1>6. CASE InsertBatch(s)
  <2>1. pc[s] = "insert" /\ UNCHANGED pc
    BY <1>6 DEF InsertBatch
  <2>2. \A r \in Recipients : rows'[r] \in {rows[r], "pending"}
    <3>1. PICK batch \in SUBSET send[s].toInsert :
            rows' = [r \in Recipients |->
                       IF r \in batch /\ rows[r] = "none" THEN "pending" ELSE rows[r]]
      BY <1>6 DEF InsertBatch
    <3>2. QED
      BY <3>1
  <2>3. QED
    BY <1>1, <2>1, <2>2 DEF Holding
<1>7. CASE PrepareRows(s)
  BY <1>1, <1>7 DEF PrepareRows, Holding
<1>8. CASE Submit(s) \/ ApplyResults(s)
  BY <1>1, <1>8 DEF Submit, ApplyResults, Holding
<1>9. CASE MarkQueued(s)
  <2> DEFINE took == send[s].took
  <2>1. took \subseteq accepted \cap send[s].subscribed
    BY <1>9 DEF MarkQueued, Holding
  <2>2. \A r \in took : rows[r] = "prepared" /\ rows'[r] = "queued"
    BY <1>9, <2>1 DEF MarkQueued, Holding
  <2>3. /\ UNCHANGED <<accepted, campaign, send>>
        /\ pc[s] = "markQueued" /\ pc'[s] = "stats" /\ ~ResetRows(s)
    BY <1>9 DEF MarkQueued, ResetRows
  <2>4. Done \in SUBSET Recipients /\ Done' \in SUBSET Recipients /\ took \in SUBSET Recipients
    BY DEF Done
  <2>5. Done \subseteq Done'
    BY <2>3, DoneGrows
  <2>6. Done \cap took = {} /\ Done \cup took \subseteq Done'
    BY <2>1, <2>2, <2>3, <2>5 DEF Done
  <2> HIDE DEF took
  <2>7. Cardinality(Done \cup took) = Cardinality(Done) + Cardinality(took)
    BY <2>4, <2>6, CountsAdd
  <2>8. Cardinality(Done \cup took) <= Cardinality(Done')
    <3>1. PICK B \in SUBSET Recipients : B = Done \cup took
      BY <2>4
    <3>2. QED
      BY <2>4, <2>6, <3>1, CountsAdd
  <2>9. campaign.queued <= Cardinality(Done)
    <3>1. Under(s) /\ pc[s] \notin Resets
      BY <2>3 DEF Under, Resting, EndSteps
    <3>2. QED
      BY <3>1 DEF Counts, Exempt
  <2>10. /\ Cardinality(Done) \in Nat /\ Cardinality(Done') \in Nat
         /\ Cardinality(took) \in Nat /\ campaign.queued \in Nat
    BY <2>4, CountIsNat
  <2>11. campaign.queued + Cardinality(took) <= Cardinality(Done')
    BY <2>7, <2>8, <2>9, <2>10
  <2>12. QED
    BY <1>1, <2>3, <2>11 DEF Holding, took
<1>10. QED
  BY <1>2, <1>3, <1>4, <1>5, <1>6, <1>7, <1>8, <1>9, WatchedSteps

\* Nothing is counted before the first send.
LEMMA StatsInit == Init => StatsInv
<1> SUFFICES ASSUME Init PROVE StatsInv
  OBVIOUS
<1>1. TypeOK /\ Alone
  BY TypeInit, AloneInit
<1>2. Done = {} /\ accepted = {} /\ Cardinality({}) = 0
  BY FS_EmptySet DEF Init, Done
<1>3. Counts
  BY <1>2 DEF Init, Counts
<1>4. QED
  BY <1>1, <1>3 DEF Init, StatsInv, Holding, ChunkFresh, InChunk, Resets, NoLocals

\* No step counts a recipient twice.
LEMMA StatsStep ==
  ASSUME PatientUser, ForceOptions \subseteq {FALSE} PROVE StatsInv /\ [Next]_vars => StatsInv'
<1> SUFFICES ASSUME StatsInv, [Next]_vars PROVE StatsInv'
  OBVIOUS
<1>1. TypeOK /\ TypeOK' /\ Alone /\ ChunkFresh
  BY TypeStep DEF StatsInv
<1>2. Alone' /\ ChunkFresh'
  <2>1. Alone => OneActive
    BY DEF Alone, OneActive, Under, Resting, ActiveSteps, BeforeTry, SendTry, ChunkTry, EndSteps
  <2>2. QED
    BY <1>1, <2>1, AloneStep, ChunkFreshStep
<1>3. ASSUME NEW s \in Sends, StepOf(s) PROVE StatsInv'
  <2>1. Counts' /\ Holding(s)'
    BY <1>1, <1>3, CountsStep, HoldingStep DEF StatsInv
  <2>2. userStatus' # "draft"
    BY <1>1, <1>3, StepKeeps DEF StatsInv
  <2>3. ASSUME NEW t \in Sends \ {s} PROVE Holding(t)'
    <3>1. ~Under(t) /\ pc'[t] = pc[t] /\ send'[t] = send[t]
      BY <1>1, <1>3, OthersRest
    <3>2. QED
      BY <3>1 DEF StatsInv, Holding, Under, Resting, EndSteps, Resets
  <2>4. QED
    BY <1>1, <1>2, <2>1, <2>2, <2>3 DEF StatsInv
<1>4. CASE ~\E s \in Sends : StepOf(s)
  <2>1. UNCHANGED <<pc, send, rows, accepted>> /\ (UNCHANGED campaign \/ SaveTransition)
    BY <1>1, <1>4, OtherSteps
  <2>2. /\ campaign'.queued = campaign.queued
        /\ campaign.status # "draft" => campaign'.status # "draft"
    BY <1>1, <2>1 DEF SaveTransition, StatsInv, TypeOK, CampaignDoc
  <2>3. userStatus' # "draft"
    <3>1. ASSUME NEW t \in UserTargets, ReadTransition(t) PROVE userStatus' # "draft"
      BY <3>1, OptionsAssumption DEF ReadTransition
    <3>2. CASE SaveTransition
      BY <3>2 DEF SaveTransition
    <3>3. CASE ~SaveTransition /\ ~\E t \in UserTargets : ReadTransition(t)
      <4>1. UNCHANGED userStatus
        BY <1>4, <3>3
        DEF Next, Environment, StepOf, SlotsWiped, Unsubscribe, ChangePolicyStatus, world, vars
      <4>2. QED
        BY <4>1 DEF StatsInv
    <3>4. QED
      BY <3>1, <3>2, <3>3
  <2>4. Done' = Done
    BY <2>1 DEF Done
  <2>5. Counts' /\ \A s \in Sends : Holding(s)'
    BY <2>1, <2>2, <2>4 DEF StatsInv, Counts, Exempt, Under, Holding
  <2>6. QED
    BY <1>1, <1>2, <2>3, <2>5 DEF StatsInv
<1>5. QED
  BY <1>3, <1>4

\* The invariant of the count.
LEMMA StatsHolds ==
  ASSUME PatientUser, ForceOptions \subseteq {FALSE} PROVE Spec => []StatsInv
<1>1. StatsInv /\ [Next]_vars => StatsInv'
  BY StatsStep
<1>2. QED
  BY <1>1, StatsInit, PTL DEF Spec

\* With a user who waits for a send to end and an audience that is not resolved again
\* by force, stats.queued counts each accepted recipient at most once, however many
\* chunks are retried after crashes, throws and failures of AMDS between the updates of
\* rows, communications and stats (processCampaignSendChunk).
THEOREM QueuedIsNotOvercounted ==
  ASSUME PatientUser, ForceOptions \subseteq {FALSE} PROVE Spec => []StatsNeverOvercount
<1>1. Spec => []StatsInv
  BY StatsHolds
<1>2. StatsInv => StatsNeverOvercount
  BY DEF StatsInv, Counts, StatsNeverOvercount
<1>3. QED
  BY <1>1, <1>2, PTL

-----------------------------------------------------------------------------
(* The audience.  The snapshot either has a row for every recipient, or is  *)
(* one that no send has begun to work on and that the next attempt builds    *)
(* again.  A throw in the middle of a snapshot breaks this: the phase        *)
(* "failed" makes the retry resume from the rows it finds.                  *)

Whole == \A r \in Recipients : rows[r] # "none"
Raw == /\ \A r \in Recipients : rows[r] \in {"none", "pending"}
       /\ campaign.lastChunk = 0 /\ campaign.phase \notin {"running", "failed"}

Building == {"resolving", "clear", "insert"}
Past == ActiveSteps \ ({"decide"} \cup Building)

\* What an attempt knows of the snapshot: it resumes, is retried or works only on a
\* whole one, builds one only where nothing has begun, and ends when nothing is pending.
Snapshot(s) ==
    /\ pc[s] \in {"idle"} \cup RequestSteps => send[s].attemptsMade = 0 /\ ~send[s].resume
    /\ pc[s] \in Past => Whole
    /\ pc[s] \in ActiveSteps \cup {"waiting"} =>
         /\ send[s].resume => Whole
         /\ send[s].attemptsMade > 0 => Whole /\ campaign.phase \in {"running", "failed"}
    /\ pc[s] = "attemptFailed" => campaign.phase = "failed"
    /\ pc[s] \in Building =>
         send[s].attemptsMade = 0 /\ ~send[s].resume /\ campaign.lastChunk = 0
    /\ pc[s] \in {"clear", "insert"} => campaign.phase \notin {"running", "failed"}
    /\ pc[s] = "insert" => Raw /\ \A r \in Recipients \ send[s].toInsert : rows[r] = "pending"
    /\ pc[s] \in {"finish", "finalize", "finalizeClear", "complete"} => PendingRows = {}

\* A completed campaign is at rest and has nothing pending.
Ended == campaign.status = "completed" =>
           (\A s \in Sends : ~Under(s)) /\ Whole /\ PendingRows = {}

SnapInv == /\ Whole \/ Raw
           /\ \A s \in Sends : Snapshot(s)
           /\ Ended /\ userStatus # "completed"

\* A snapshot nobody has begun to work on is not resumed.
LEMMA RawIsNotResumed == ASSUME TypeOK, Raw PROVE ~ResumePlan.isResume
<1>1. PendingRows = {r \in Recipients : rows[r] # "none"}
  BY DEF Raw, PendingRows
<1>2. Cardinality(PendingRows) \in Nat
  BY CountIsNat DEF PendingRows
<1>3. Total = Cardinality(PendingRows)
  BY <1>1 DEF Total
<1>4. ~(Total - Cardinality(PendingRows) > 0)
  BY <1>2, <1>3
<1>5. QED
  BY <1>4 DEF Raw, ResumePlan

\* A whole one that was begun is.
LEMMA BegunIsResumed ==
  ASSUME TypeOK, Whole, campaign.phase \in {"running", "failed"}
  PROVE  HasSnapshot /\ ResumePlan.isResume
<1>1. HasSnapshot
  BY RecipientsAssumption DEF HasSnapshot, Whole
<1>2. Total = Cardinality(Recipients) /\ IsFiniteSet(Recipients) /\ Recipients # {}
  <2>1. {r \in Recipients : rows[r] # "none"} = Recipients
    BY DEF Whole
  <2>2. QED
    BY <2>1, RecipientsAssumption DEF Total
<1>3. Total \in Nat /\ Total > 0
  BY <1>2, FS_CardinalityType, FS_EmptySet
<1>4. Cardinality(PendingRows) \in Nat
  BY CountIsNat DEF PendingRows
<1>5. Total - Cardinality(PendingRows) > 0 \/ Cardinality(PendingRows) > 0
  BY <1>3, <1>4
<1>6. QED
  BY <1>1, <1>5 DEF ResumePlan

\* Only a new snapshot removes rows.
LEMMA WholeKept ==
  ASSUME TypeOK, NEW s \in Sends, StepOf(s), Whole, ~ClearSnapshot(s)
  PROVE  Whole'
<1> USE DEF TypeOK, SendLocals, Whole
<1>1. CASE ResetRows(s) \/ Suppress(s) \/ PrepareRows(s) \/ MarkQueued(s)
  BY <1>1 DEF ResetRows, Suppress, PrepareRows, MarkQueued
<1>2. CASE InsertBatch(s)
  BY <1>2 DEF InsertBatch
<1>3. CASE UNCHANGED rows
  BY <1>3
<1>4. QED
  BY <1>1, <1>2, <1>3
  DEF StepOf, RequestStep, JobStep, ReceiveRequest, ResetComms, ResetCampaign,
      RejectRequest, Enqueue, TakeJob, Decide, MarkResolving, ClearSnapshot, SnapshotDone,
      RecordSnapshot, ResumeCheck, ResumeDone, Precheck, ReadReservation, TakeCredits,
      TakeCreditsFails, RecordReservation, Start, LoadChunk, GuardChunk, FilterSubscribed,
      ClaimCampaign, PersistCommunications, Submit, ApplyResults, UpdateStats, Bookkeep,
      Finish, FinalizeCredits, ReleaseCredits, ClearReservation, Complete, ChunkFailed,
      SendCatch, JobCatch, AttemptFailed, SubmitFails, Throw, ThrowInRequest, Crash, docs,
      amds, world

\* No throw happens.
LEMMA NothingThrows ==
  ASSUME MaxThrows = 0, TypeOK, NEW s \in Sends PROVE ~Throw(s) /\ ~ThrowInRequest(s)
<1>1. ~(throws < 0)
  BY DEF TypeOK
<1>2. QED
  BY <1>1 DEF Throw, ThrowInRequest

\* The snapshot stays whole or raw.
LEMMA IntactStep ==
  ASSUME MaxThrows = 0, TypeOK, NEW s \in Sends, StepOf(s), Snapshot(s), Whole \/ Raw
  PROVE  Whole' \/ Raw'
<1> USE DEF TypeOK, SendLocals, CampaignDoc, At, Goto
<1>1. CASE ClearSnapshot(s)
  BY <1>1 DEF ClearSnapshot, Raw, Snapshot, Building
<1>2. CASE Whole /\ ~ClearSnapshot(s)
  BY <1>2, WholeKept
<1>3. CASE Raw /\ ~Whole
  <2>1. pc[s] \notin Past
    BY <1>3 DEF Snapshot
  <2>2. CASE InsertBatch(s)
    BY <1>3, <2>2 DEF InsertBatch, Raw
  <2>3. CASE ReceiveRequest(s) \/ ResetRows(s) \/ ResetComms(s) \/ ResetCampaign(s)
    BY <1>3, <2>3 DEF ReceiveRequest, ResetRows, ResetComms, ResetCampaign, Raw, docs
  <2>4. CASE RejectRequest(s) \/ TakeJob(s) \/ Decide(s) \/ MarkResolving(s) \/ SnapshotDone(s)
    BY <1>3, <2>4 DEF RejectRequest, TakeJob, Decide, MarkResolving, SnapshotDone, Raw, docs
  <2>5. CASE Enqueue(s) \/ Crash(s)
    BY <1>3, <2>5 DEF Enqueue, Crash, Raw, docs
  <2>6. QED
    BY <1>1, <2>1, <2>2, <2>3, <2>4, <2>5, NothingThrows
    DEF StepOf, RequestStep, JobStep, RecordSnapshot, ResumeCheck,
      ResumeDone, Precheck, ReadReservation, TakeCredits, TakeCreditsFails, RecordReservation,
      Start, LoadChunk, GuardChunk, FilterSubscribed, ClaimCampaign, PersistCommunications,
      Submit, ApplyResults, UpdateStats, Bookkeep, Finish, FinalizeCredits, ReleaseCredits,
      ClearReservation, Complete, ChunkFailed, SendCatch, JobCatch, AttemptFailed, SubmitFails,
      Suppress, PrepareRows, MarkQueued, Past, ActiveSteps, BeforeTry, SendTry, ChunkTry, Building
<1>4. QED
  BY <1>1, <1>2, <1>3

\* The attempt that acts knows what it needs of the snapshot.
LEMMA SnapshotStep ==
  ASSUME MaxThrows = 0, TypeOK, TypeOK', NEW s \in Sends, StepOf(s), Snapshot(s), ~send[s].force,
         Whole \/ Raw
  PROVE  Snapshot(s)'
<1> USE DEF TypeOK, SendLocals, CampaignDoc, At, Goto, Building, Past, ActiveSteps, BeforeTry,
            SendTry, ChunkTry, RequestSteps, EndSteps
<1>w. Whole => ClearSnapshot(s) \/ Whole'
  BY WholeKept
<1>1. CASE \/ ReceiveRequest(s) \/ ResetRows(s) \/ ResetComms(s) \/ ResetCampaign(s)
           \/ RejectRequest(s)
  BY <1>1 DEF ReceiveRequest, ResetRows, ResetComms, ResetCampaign, RejectRequest, Snapshot
<1>2. CASE Enqueue(s)
  <2>1. PICK b \in BOOLEAN : b = (~send[s].force /\ ResumePlan.isResume)
    BY ResumePlanType
  <2>2. b => Whole
    BY <2>1, RawIsNotResumed
  <2>3. /\ send' = [send EXCEPT ![s].resume = b] /\ pc[s] = "request" /\ pc'[s] = "waiting"
        /\ UNCHANGED rows
    BY <1>2, <2>1 DEF Enqueue
  <2>4. Whole' = Whole
    BY <2>3 DEF Whole
  <2>5. QED
    BY <2>2, <2>3, <2>4 DEF Snapshot
<1>3. CASE TakeJob(s)
  BY <1>3 DEF TakeJob, Snapshot, docs, Whole
<1>4. CASE Decide(s)
  <2> DEFINE isResume == \/ send[s].resume
                         \/ send[s].attemptsMade > 1
                         \/ HasSnapshot /\ ResumePlan.isResume /\ ~send[s].force
  <2>1. /\ pc[s] = "decide" /\ UNCHANGED <<rows, campaign>>
        /\ send'[s].attemptsMade = send[s].attemptsMade /\ send'[s].resume = send[s].resume
        /\ IF isResume THEN pc'[s] \in {"jobCatch", "resumeCheck"} ELSE pc'[s] = "resolving"
    BY <1>4 DEF Decide, docs
  <2>2. isResume => Whole
    BY <2>1, RawIsNotResumed DEF Snapshot
  <2>3. ~isResume => /\ send[s].attemptsMade = 0 /\ ~send[s].resume
                     /\ ~(HasSnapshot /\ ResumePlan.isResume)
    BY <2>1, BegunIsResumed DEF Snapshot
  <2>4. ~(HasSnapshot /\ ResumePlan.isResume) => campaign.lastChunk = 0
    <3>1. CASE ~HasSnapshot
      <4>1. ~Whole
        BY <3>1, RecipientsAssumption DEF HasSnapshot, Whole
      <4>2. QED
        BY <4>1 DEF Raw
    <3>2. CASE ~ResumePlan.isResume
      BY <3>2 DEF ResumePlan
    <3>3. QED
      BY <3>1, <3>2
  <2>5. Whole' = Whole
    BY <2>1 DEF Whole
  <2> HIDE DEF isResume
  <2>6. QED
    BY <2>1, <2>2, <2>3, <2>4, <2>5 DEF Snapshot
<1>5. CASE MarkResolving(s)
  BY <1>5 DEF MarkResolving, Snapshot
<1>6. CASE ClearSnapshot(s)
  BY <1>6 DEF ClearSnapshot, Snapshot, Raw
<1>7. CASE InsertBatch(s)
  <2>1. pc[s] = "insert" /\ UNCHANGED <<pc, campaign>>
    BY <1>7 DEF InsertBatch
  <2>2. PICK batch \in SUBSET send[s].toInsert :
          /\ rows' = [r \in Recipients |->
                        IF r \in batch /\ rows[r] = "none" THEN "pending" ELSE rows[r]]
          /\ send' = [send EXCEPT
               ![s].toInsert = @ \ batch,
               ![s].total = @ + Cardinality({r \in batch : rows[r] = "none"})]
    BY <1>7 DEF InsertBatch
  <2>3. /\ send'[s].toInsert = send[s].toInsert \ batch
        /\ send'[s].attemptsMade = send[s].attemptsMade /\ send'[s].resume = send[s].resume
    <3>1. PICK n : n = send[s].total + Cardinality({r \in batch : rows[r] = "none"})
      OBVIOUS
    <3>2. send' = [send EXCEPT ![s].toInsert = send[s].toInsert \ batch, ![s].total = n]
      BY <2>2, <3>1
    <3>3. QED
      BY <3>2
  <2>4. Raw' /\ \A r \in Recipients \ send'[s].toInsert : rows'[r] = "pending"
    BY <2>1, <2>2, <2>3 DEF Snapshot, Raw
  <2>5. QED
    BY <2>1, <2>3, <2>4 DEF Snapshot
<1>8. CASE SnapshotDone(s)
  <2>1. Whole'
    BY <1>8 DEF SnapshotDone, Snapshot, Whole, docs
  <2>2. QED
    BY <1>8, <2>1 DEF SnapshotDone, Snapshot
<1>9. CASE AttemptFailed(s) \/ Crash(s)
  <2>1. PICK j \in SendLocals : j = JobData(s)
    BY JobDataType
  <2>2. j.attemptsMade = send[s].attemptsMade /\ j.resume = send[s].resume
    BY <2>1 DEF JobData, NoLocals
  <2>3. UNCHANGED <<rows, campaign>> /\ Whole' = Whole
    BY <1>9 DEF AttemptFailed, Crash, docs, Whole
  <2>4. CASE AttemptFailed(s)
    BY <2>1, <2>2, <2>3, <2>4 DEF AttemptFailed, Snapshot
  <2>5. CASE Crash(s)
    BY <2>1, <2>2, <2>3, <2>5 DEF Crash, Snapshot
  <2>6. QED
    BY <1>9, <2>4, <2>5
<1>10. CASE pc[s] \in Past /\ ~AttemptFailed(s) /\ ~Crash(s)
  <2>1. Whole /\ Whole'
    BY <1>w, <1>10 DEF Snapshot, ClearSnapshot
  <2>2. /\ pc'[s] \in (Past \cup EndSteps)
        /\ send'[s].attemptsMade = send[s].attemptsMade /\ send'[s].resume = send[s].resume
        /\ campaign'.phase \in {campaign.phase, "running", "failed"} \/ pc'[s] \in EndSteps
        /\ pc'[s] = "attemptFailed" => campaign'.phase = "failed"
        /\ pc'[s] \in {"finish", "finalize", "finalizeClear", "complete"} =>
              UNCHANGED rows /\ PendingRows = {}
    <3>1. CASE RecordSnapshot(s) \/ ResumeCheck(s) \/ ResumeDone(s) \/ Precheck(s)
      BY <3>1 DEF RecordSnapshot, ResumeCheck, ResumeDone, Precheck, docs
    <3>2. CASE ReadReservation(s) \/ TakeCredits(s)
      <4>1. \E n : send' = [send EXCEPT ![s].reserved = n]
        BY <3>2 DEF ReadReservation, TakeCredits
      <4>2. /\ pc[s] \in {"reserve", "reserveTake"} /\ UNCHANGED campaign
            /\ pc'[s] \in {"start", "reserveTake", "reserveRecord"}
        BY <3>2 DEF ReadReservation, TakeCredits, docs
      <4>3. send'[s].attemptsMade = send[s].attemptsMade /\ send'[s].resume = send[s].resume
        BY <4>1
      <4>4. QED
        BY <4>2, <4>3
    <3>8. CASE TakeCreditsFails(s) \/ RecordReservation(s) \/ ReleaseCredits(s) \/ Start(s)
      BY <3>8 DEF TakeCreditsFails, RecordReservation, ReleaseCredits, Start, docs
    <3>3. CASE LoadChunk(s) \/ Finish(s) \/ FinalizeCredits(s) \/ ClearReservation(s) \/ Complete(s)
      BY <3>3 DEF LoadChunk, Finish, FinalizeCredits, ClearReservation, Complete, Snapshot, docs
    <3>4. CASE \/ GuardChunk(s) \/ FilterSubscribed(s) \/ Suppress(s)
               \/ ClaimCampaign(s) \/ PersistCommunications(s) \/ PrepareRows(s)
      BY <3>4 DEF GuardChunk, FilterSubscribed, Suppress, ClaimCampaign, PersistCommunications,
                  PrepareRows, docs
    <3>5. CASE Submit(s) \/ ApplyResults(s) \/ MarkQueued(s)
      BY <3>5 DEF Submit, ApplyResults, MarkQueued, docs
    <3>6. CASE ChunkFailed(s) \/ SendCatch(s) \/ JobCatch(s) \/ SubmitFails(s)
      BY <3>6 DEF ChunkFailed, SendCatch, JobCatch, SubmitFails, docs
    <3>9. CASE UpdateStats(s)
      BY <3>9 DEF UpdateStats
    <3>10. CASE Bookkeep(s)
      <4>1. PICK j \in SendLocals : j = Counted(s)
        BY CountedType
      <4>2. j.attemptsMade = send[s].attemptsMade /\ j.resume = send[s].resume
        BY <4>1 DEF Counted
      <4>3. QED
        BY <3>10, <4>1, <4>2 DEF Bookkeep
    <3>7. QED
      BY <1>10, <3>1, <3>2, <3>3, <3>4, <3>5, <3>6, <3>8, <3>9, <3>10, NothingThrows
      DEF StepOf, RequestStep, JobStep, ReceiveRequest, ResetRows, ResetComms, ResetCampaign,
          RejectRequest, Enqueue, TakeJob, Decide, MarkResolving, ClearSnapshot, InsertBatch,
          SnapshotDone
  <2>3. \/ PendingRows' = PendingRows
        \/ pc'[s] \notin {"finish", "finalize", "finalizeClear", "complete"}
    BY <2>2 DEF PendingRows
  <2>4. QED
    BY <1>10, <2>1, <2>2, <2>3 DEF Snapshot
<1>11. QED
  BY <1>1, <1>2, <1>3, <1>4, <1>5, <1>6, <1>7, <1>8, <1>9, <1>10, NothingThrows
  DEF StepOf, RequestStep, JobStep, RecordSnapshot, ResumeCheck,
      ResumeDone, Precheck, ReadReservation, TakeCredits, TakeCreditsFails, RecordReservation,
      Start, LoadChunk, GuardChunk, FilterSubscribed, ClaimCampaign, PersistCommunications,
      Submit, ApplyResults, UpdateStats, Bookkeep, Finish, FinalizeCredits, ReleaseCredits,
      ClearReservation, Complete, ChunkFailed, SendCatch, JobCatch, SubmitFails,
      Suppress, PrepareRows, MarkQueued

\* Only the end of a send makes a campaign completed.
LEMMA CompletedBy ==
  ASSUME TypeOK, NEW s \in Sends, StepOf(s), campaign'.status = "completed"
  PROVE  campaign.status = "completed" \/ Complete(s)
<1> USE DEF TypeOK, CampaignDoc
<1>1. CASE UpdateStats(s) \/ ResetCampaign(s)
  BY <1>1 DEF UpdateStats, ResetCampaign
<1>2. CASE Enqueue(s)
  BY <1>2 DEF Enqueue
<1>3. CASE \/ MarkResolving(s) \/ RecordSnapshot(s) \/ ResumeDone(s) \/ RecordReservation(s)
           \/ ClearReservation(s)
  BY <1>3 DEF MarkResolving, RecordSnapshot, ResumeDone, RecordReservation, ClearReservation
<1>4. CASE Start(s) \/ ClaimCampaign(s) \/ Bookkeep(s) \/ Complete(s)
  BY <1>4 DEF Start, ClaimCampaign, Bookkeep, Complete
<1>5. CASE ChunkFailed(s) \/ SendCatch(s) \/ JobCatch(s)
  BY <1>5 DEF ChunkFailed, SendCatch, JobCatch
<1>6. CASE UNCHANGED campaign
  BY <1>6
<1>7. QED
  BY <1>1, <1>2, <1>3, <1>4, <1>5, <1>6
  DEF StepOf, RequestStep, JobStep, ReceiveRequest, ResetRows, ResetComms, RejectRequest,
      TakeJob, Decide, ClearSnapshot, InsertBatch, SnapshotDone, ResumeCheck, Precheck,
      ReadReservation, TakeCredits, TakeCreditsFails, LoadChunk, GuardChunk,
      FilterSubscribed, Suppress, PersistCommunications, PrepareRows, Submit, ApplyResults,
      MarkQueued, Finish, FinalizeCredits, ReleaseCredits, AttemptFailed, SubmitFails,
      Throw, ThrowInRequest, Crash, docs, amds, world

\* A completed campaign is not sent again.
LEMMA EndedStep ==
  ASSUME PatientUser, TypeOK, TypeOK', Alone, NEW s \in Sends, StepOf(s), Snapshot(s), Ended
  PROVE  Ended'
<1>1. campaign.status # "completed"
  <2>1. Under(s) \/ ReceiveRequest(s)
    BY StepMoves
  <2>2. ReceiveRequest(s) => campaign.status # "completed"
    BY DEF ReceiveRequest, SENDABLE_STATUSES
  <2>3. QED
    BY <2>1, <2>2 DEF Ended
<1>2. CASE Complete(s)
  <2>1. /\ pc[s] = "complete" /\ pc'[s] = "done" /\ UNCHANGED rows
    BY <1>2 DEF Complete, At, Goto, TypeOK
  <2>2. Whole' /\ PendingRows' = {}
    BY <2>1 DEF Snapshot, Past, ActiveSteps, SendTry, Building, Whole, PendingRows
  <2>3. \A t \in Sends : ~Under(t)'
    <3>1. \A t \in Sends \ {s} : ~Under(t) /\ pc'[t] = pc[t]
      BY OthersRest
    <3>2. QED
      BY <2>1, <3>1 DEF Under, Resting, EndSteps
  <2>4. QED
    BY <2>2, <2>3 DEF Ended
<1>3. CASE ~Complete(s)
  BY <1>1, <1>3, CompletedBy DEF Ended
<1>4. QED
  BY <1>2, <1>3

\* What the audience of a campaign relies on is inductive.
LEMMA SnapInit == Init => SnapInv
  BY DEF Init, SnapInv, Raw, Snapshot, NoLocals, Past, ActiveSteps, BeforeTry, SendTry, ChunkTry,
         Building, RequestSteps, Ended

LEMMA SnapStep ==
  ASSUME PatientUser, ForceOptions \subseteq {FALSE}, MaxThrows = 0
  PROVE  StatsInv /\ StatsInv' /\ SnapInv /\ [Next]_vars => SnapInv'
<1> SUFFICES ASSUME StatsInv, StatsInv', SnapInv, [Next]_vars PROVE SnapInv'
  OBVIOUS
<1>1. TypeOK /\ TypeOK' /\ Alone
  BY DEF StatsInv
<1>2. ASSUME NEW s \in Sends, StepOf(s) PROVE SnapInv'
  <2>1. Snapshot(s) /\ ~send[s].force /\ (Whole \/ Raw) /\ Ended
    BY DEF SnapInv, StatsInv, Holding
  <2>2. Snapshot(s)' /\ (Whole' \/ Raw') /\ Ended'
    BY <1>1, <1>2, <2>1, SnapshotStep, IntactStep, EndedStep
  <2>3. userStatus' # "completed"
    BY <1>1, <1>2, StepKeeps DEF SnapInv
  <2>4. ASSUME NEW t \in Sends \ {s} PROVE Snapshot(t)'
    <3>1. ~Under(t) /\ pc'[t] = pc[t] /\ send'[t] = send[t]
      BY <1>1, <1>2, OthersRest
    <3>2. QED
      BY <3>1 DEF SnapInv, Snapshot, Under, Resting, EndSteps, Past, ActiveSteps, BeforeTry,
                  SendTry, ChunkTry, Building, RequestSteps
  <2>5. QED
    BY <2>2, <2>3, <2>4 DEF SnapInv
<1>3. CASE ~\E s \in Sends : StepOf(s)
  <2>1. UNCHANGED <<pc, send, rows>> /\ (UNCHANGED campaign \/ SaveTransition)
    BY <1>1, <1>3, OtherSteps
  <2>2. /\ campaign'.phase = campaign.phase /\ campaign'.lastChunk = campaign.lastChunk
        /\ campaign'.status = "completed" => campaign.status = "completed"
    BY <1>1, <2>1 DEF SaveTransition, SnapInv, TypeOK, CampaignDoc
  <2>3. userStatus' # "completed"
    <3>1. ASSUME NEW t \in UserTargets, ReadTransition(t) PROVE userStatus' # "completed"
      BY <3>1, OptionsAssumption DEF ReadTransition
    <3>2. CASE SaveTransition
      BY <3>2 DEF SaveTransition
    <3>3. CASE ~SaveTransition /\ ~\E t \in UserTargets : ReadTransition(t)
      <4>1. UNCHANGED userStatus
        BY <1>3, <3>3
        DEF Next, Environment, StepOf, SlotsWiped, Unsubscribe, ChangePolicyStatus, world, vars
      <4>2. QED
        BY <4>1 DEF SnapInv
    <3>4. QED
      BY <3>1, <3>2, <3>3
  <2>4. Whole' = Whole /\ Raw' = Raw /\ PendingRows' = PendingRows
    BY <2>1, <2>2 DEF Whole, Raw, PendingRows
  <2>5. \A s \in Sends : Snapshot(s)'
    BY <2>1, <2>2, <2>4 DEF SnapInv, Snapshot
  <2>6. QED
    BY <2>1, <2>2, <2>3, <2>4, <2>5 DEF SnapInv, Ended, Under
<1>4. QED
  BY <1>2, <1>3

\* It holds of every behaviour without throws.
LEMMA SnapHolds ==
  ASSUME PatientUser, ForceOptions \subseteq {FALSE}, MaxThrows = 0
  PROVE  Spec => [](StatsInv /\ SnapInv)
<1>1. StatsInv /\ StatsInv' /\ SnapInv /\ [Next]_vars => SnapInv'
  BY SnapStep
<1>2. Spec => []StatsInv
  BY StatsHolds
<1>3. QED
  BY <1>1, <1>2, SnapInit, PTL DEF Spec

\* With a user who waits and an audience that is not resolved again by force, and as
\* long as nothing throws, a campaign shown as completed has handed every recipient to
\* AMDS or suppressed it, whatever crashes and failures of AMDS the snapshot, the chunks
\* and the retries meet (snapshotCampaignRecipients, buildCampaignSnapshotResumePlan).
THEOREM CompletedReachedEveryone ==
  ASSUME PatientUser, ForceOptions \subseteq {FALSE}, MaxThrows = 0
  PROVE  Spec => []CompletedCoversAudience
<1>1. Spec => [](StatsInv /\ SnapInv)
  BY SnapHolds
<1>2. StatsInv /\ SnapInv => CompletedCoversAudience
  BY DEF StatsInv, SnapInv, Ended, Whole, PendingRows, CompletedCoversAudience, TypeOK, RowStatus
<1>3. QED
  BY <1>1, <1>2, PTL

-----------------------------------------------------------------------------
(* The credits.  One reservation of as many credits as there are recipients *)
(* is taken, recorded, and given back or settled; without crashes the pool, *)
(* the reservation and the campaign agree whenever no update is outstanding. *)

N == Cardinality(Recipients)

\* The steps at which a send knows nothing yet, knows its audience, works on chunks,
\* holds the reservation, and those at which what it counted is in the stats.
Opening == {"idle", "waiting", "decide", "resolving", "clear"} \cup RequestSteps
Sized == {"resolved", "resumeCheck", "precheck", "reserve", "reserveTake"}
Chunking == {"load", "chunk", "filter", "suppress", "claim", "persist", "prepare", "submit"}
Holder == {"start", "apply", "markQueued", "stats", "bookkeep", "finish", "finalize",
           "chunkFailed", "sendCatch", "release"} \cup Chunking
Tallied == {"resolving", "clear", "insert", "reserveRecord", "start", "apply", "markQueued",
            "stats", "finish", "finalize"} \cup Sized \cup Chunking

\* Between the two updates of a reservation, a release or a settlement.
Between == {"reserveRecord", "releaseClear", "finalizeClear", "complete"}

Reserved == /\ policy.reserved = campaign.creditsReserved
            /\ policy.remaining + policy.reserved = InitialCredits
Settled == policy.reserved = 0 /\ policy.remaining = InitialCredits - campaign.queued
Closed == (\A s \in Sends : ~Under(s)) /\ campaign.status \notin {"draft", "failed"}

Ledger == (\E s \in Sends : pc[s] \in Between) \/ Reserved \/ (Settled /\ Closed)

\* What the locals of a send say of the pool, of the audience and of the stats.
Account(s) ==
    /\ pc[s] \in Opening \cup {"insert"} \cup Sized => send[s].accepted = 0
    /\ pc[s] \in Opening \cup {"insert"} => send[s].initialQueued = 0
    /\ pc[s] \in Opening => send[s].total = 0
    /\ pc[s] \in Opening \cup {"insert", "reserveRecord", "start"} \cup Sized \cup Chunking =>
         send[s].took = {}
    /\ pc[s] = "insert" => /\ send[s].total = Cardinality(Recipients \ send[s].toInsert)
                           /\ \A r \in send[s].toInsert : rows[r] = "none"
    /\ pc[s] \in Sized \cup {"reserveRecord"} \cup Holder => send[s].total = N
    /\ pc[s] \in {"reserveRecord"} \cup Holder => send[s].reserved = N
    /\ pc[s] \in Holder => Reserved /\ policy.reserved = N
    /\ pc[s] = "reserveTake" => campaign.creditsReserved = 0
    /\ pc[s] \in Tallied => /\ campaign.queued = send[s].initialQueued + send[s].accepted
                            /\ campaign.queued > 0 => Append(s)
    /\ pc[s] = "bookkeep" => campaign.queued = send[s].initialQueued + send[s].accepted
                                                + Cardinality(send[s].took)
    /\ pc[s] = "reserveRecord" => policy.reserved = N /\ policy.remaining + N = InitialCredits
    /\ pc[s] = "releaseClear" => policy.reserved = 0 /\ policy.remaining = InitialCredits
    /\ pc[s] \in {"finalizeClear", "complete"} => Settled

Accounts == /\ campaign.creditsReserved \in {0, N} /\ campaign.resolved \in {0, N}
            /\ \A s \in Sends : Account(s)
            /\ Ledger
            /\ campaign.status = "completed" => Settled

CredInv == (crashes = 0 => Accounts) /\ userStatus \notin {"draft", "failed", "completed"}

\* The size of the audience.
LEMMA AudienceSize == N \in Nat /\ N > 0 /\ \A S \in SUBSET Recipients : Cardinality(S) <= N
<1>1. IsFiniteSet(Recipients) /\ Recipients # {}
  BY RecipientsAssumption
<1>2. N \in Nat /\ N # 0
  BY <1>1, FS_CardinalityType, FS_EmptySet DEF N
<1>3. \A S \in SUBSET Recipients : Cardinality(S) <= N
  BY <1>1, FS_Subset DEF N
<1>4. QED
  BY <1>2, <1>3

\* A whole snapshot has as many rows.
LEMMA WholeCount == ASSUME Whole PROVE HasSnapshot /\ Total = N
<1>1. {r \in Recipients : rows[r] # "none"} = Recipients
  BY DEF Whole
<1>2. QED
  BY <1>1, RecipientsAssumption DEF HasSnapshot, Whole, Total, N

\* A resume takes every queued row as processed.
LEMMA DoneIsProcessed == ASSUME TypeOK PROVE Cardinality(Done) <= ResumePlan.prepared
<1> DEFINE All == {r \in Recipients : rows[r] # "none"}
<1>1. PICK A \in SUBSET Recipients : A = All
  OBVIOUS
<1>2. PICK P \in SUBSET Recipients : P = PendingRows
  BY DEF PendingRows
<1>3. PICK D \in SUBSET Recipients : D = Done
  BY DEF Done, TypeOK
<1>4. D \cap P = {} /\ D \cup P \subseteq A
  BY <1>1, <1>2, <1>3 DEF PendingRows, Done, TypeOK
<1>5. Cardinality(D \cup P) = Cardinality(D) + Cardinality(P)
  BY <1>4, CountsAdd
<1>6. Cardinality(D \cup P) <= Cardinality(A)
  <2>1. PICK U \in SUBSET Recipients : U = D \cup P
    OBVIOUS
  <2>2. QED
    BY <1>4, <2>1, CountsAdd
<1>7. Cardinality(D) \in Nat /\ Cardinality(P) \in Nat /\ Cardinality(A) \in Nat
  BY CountIsNat
<1>8. Total = Cardinality(A)
  BY <1>1 DEF Total
<1>9. Cardinality(D) <= Total - Cardinality(P)
  BY <1>5, <1>6, <1>7, <1>8
<1>10. ResumePlan.prepared = Max2(Total - Cardinality(P), campaign.prepared)
  BY <1>2 DEF ResumePlan
<1>11. campaign.prepared \in Nat
  BY DEF TypeOK, CampaignDoc
<1>12. QED
  BY <1>3, <1>7, <1>8, <1>9, <1>10, <1>11 DEF Max2

\* A send at work finds the stats within the queued rows.
LEMMA CountedAtWork ==
  ASSUME StatsInv, NEW s \in Sends, Under(s), pc[s] \notin Resets
  PROVE  campaign.queued <= Cardinality(Done)
  BY DEF StatsInv, Counts, Exempt

\* Where no update is outstanding, the pool and the campaign agree.
LEMMA Standing ==
  ASSUME PatientUser, StatsInv, Ledger, NEW s \in Sends, StepOf(s), pc[s] \notin Between
  PROVE  Reserved
<1>1. \A t \in Sends : pc[t] \notin Between
  <2>1. \A t \in Sends \ {s} : ~Under(t)
    BY OthersRest DEF StatsInv
  <2>2. \A t \in Sends : pc[t] \in Between => Under(t)
    BY DEF Between, Under, Resting, EndSteps
  <2>3. QED
    BY <2>1, <2>2
<1>2. ~Closed
  <2>1. Under(s) \/ ReceiveRequest(s)
    BY StepMoves DEF StatsInv
  <2>2. ReceiveRequest(s) => campaign.status \in {"draft", "failed"}
    BY DEF ReceiveRequest, SENDABLE_STATUSES, StatsInv, TypeOK, CampaignDoc, CampaignStatus
  <2>3. QED
    BY <2>1, <2>2 DEF Closed
<1>3. QED
  BY <1>1, <1>2 DEF Ledger

\* The request, and the job up to the audience.
LEMMA OpeningAccount ==
  ASSUME TypeOK, TypeOK', NEW s \in Sends, Account(s),
         \/ ReceiveRequest(s) \/ ResetRows(s) \/ ResetComms(s) \/ ResetCampaign(s)
         \/ RejectRequest(s) \/ Enqueue(s) \/ TakeJob(s) \/ MarkResolving(s)
  PROVE  Account(s)'
<1> USE DEF TypeOK, SendLocals, CampaignDoc, At, Goto, Opening, Sized, Chunking, Holder, Tallied,
            RequestSteps
<1>1. CASE ReceiveRequest(s) \/ ResetRows(s) \/ ResetComms(s) \/ ResetCampaign(s)
  BY <1>1 DEF ReceiveRequest, ResetRows, ResetComms, ResetCampaign, Account
<1>2. CASE RejectRequest(s) \/ TakeJob(s) \/ MarkResolving(s)
  BY <1>2 DEF RejectRequest, TakeJob, MarkResolving, Account, Append
<1>3. CASE Enqueue(s)
  <2>1. \E b : send' = [send EXCEPT ![s].resume = b]
    BY <1>3 DEF Enqueue
  <2>2. pc[s] = "request" /\ pc'[s] = "waiting"
    BY <1>3 DEF Enqueue
  <2>3. /\ send'[s].accepted = send[s].accepted /\ send'[s].initialQueued = send[s].initialQueued
        /\ send'[s].total = send[s].total /\ send'[s].took = send[s].took
    BY <2>1
  <2>4. QED
    BY <2>2, <2>3 DEF Account
<1>4. QED
  BY <1>1, <1>2, <1>3

\* The decision: a resume starts from what the stats say.
LEMMA DecideAccount ==
  ASSUME StatsInv, StatsInv', SnapInv', NEW s \in Sends, Account(s), Decide(s),
         campaign.resolved \in {0, N}
  PROVE  Account(s)'
<1> USE DEF SendLocals, CampaignDoc, At, Goto, Opening, Sized, Chunking, Holder, Tallied,
            RequestSteps
<1>0. TypeOK /\ TypeOK'
  BY DEF StatsInv
<1>1. pc[s] = "decide" /\ UNCHANGED <<rows, campaign, policy, accepted>>
  BY DEF Decide, docs, amds
<1>2. campaign.queued <= Cardinality(Done)
  BY <1>1, CountedAtWork DEF Under, Resting, EndSteps, Resets
<1>3. campaign.queued \in Nat /\ Cardinality(Done) \in Nat
  BY <1>0, CountIsNat DEF TypeOK, Done
<1>4. CASE pc'[s] = "resolving"
  <2>1. UNCHANGED send
    BY <1>0, <1>4 DEF Decide, TypeOK
  <2>2. \A r \in Recipients : rows[r] # "queued"
    BY <1>1, <1>4 DEF StatsInv, Holding
  <2>3. Done = {} /\ Cardinality({}) = 0
    BY <1>0, <2>2, FS_EmptySet DEF Done, TypeOK
  <2>4. campaign.queued = 0
    BY <1>2, <1>3, <2>3
  <2>5. QED
    BY <1>1, <1>4, <2>1, <2>4 DEF Account
<1>5. CASE pc'[s] = "resumeCheck"
  <2>1. PICK total, prepared, chunkIndex, initialQueued :
          /\ total = (IF HasSnapshot THEN ResumePlan.resolved ELSE 0)
          /\ prepared = ResumePlan.prepared
          /\ chunkIndex = ResumePlan.lastChunk /\ initialQueued = ResumePlan.initialQueued
    OBVIOUS
  <2>2. send' = [send EXCEPT ![s].total = total, ![s].prepared = prepared,
                             ![s].chunkIndex = chunkIndex, ![s].initialQueued = initialQueued]
    BY <1>0, <1>5, <2>1 DEF Decide, TypeOK
  <2>3. Whole
    BY <1>1, <1>5 DEF SnapInv, Snapshot, Past, ActiveSteps, BeforeTry, Building, Whole
  <2>4. total = N
    BY <2>1, <2>3, WholeCount, AudienceSize DEF ResumePlan
  <2>5. initialQueued = campaign.queued
    BY <2>1 DEF ResumePlan
  <2>6. prepared \in Nat /\ (campaign.queued > 0 => prepared > 0)
    BY <1>0, <1>2, <1>3, <2>1, DoneIsProcessed, ResumePlanType
  <2>7. /\ send'[s].total = total /\ send'[s].prepared = prepared
        /\ send'[s].initialQueued = initialQueued
        /\ send'[s].accepted = send[s].accepted /\ send'[s].took = send[s].took
    BY <1>0, <2>2 DEF TypeOK
  <2>8. QED
    BY <1>1, <1>3, <1>5, <2>4, <2>5, <2>6, <2>7 DEF Account, Append
<1>6. CASE pc'[s] = "jobCatch"
  BY <1>6 DEF Account
<1>7. QED
  BY <1>0, <1>4, <1>5, <1>6 DEF Decide, TypeOK

\* The snapshot: what is inserted is counted.
LEMMA SnapshotAccount ==
  ASSUME TypeOK, TypeOK', NEW s \in Sends, Account(s),
         ClearSnapshot(s) \/ InsertBatch(s) \/ SnapshotDone(s)
  PROVE  Account(s)'
<1> USE DEF TypeOK, SendLocals, CampaignDoc, At, Goto, Opening, Sized, Chunking, Holder, Tallied,
            RequestSteps
<1>1. CASE ClearSnapshot(s)
  <2>1. Cardinality(Recipients \ Recipients) = 0
    <3>1. Recipients \ Recipients = {}
      OBVIOUS
    <3>2. QED
      BY <3>1, FS_EmptySet
  <2>2. QED
    BY <1>1, <2>1 DEF ClearSnapshot, Account, Append
<1>2. CASE InsertBatch(s)
  <2>1. PICK batch \in SUBSET send[s].toInsert :
          /\ rows' = [r \in Recipients |->
                        IF r \in batch /\ rows[r] = "none" THEN "pending" ELSE rows[r]]
          /\ send' = [send EXCEPT
               ![s].toInsert = @ \ batch,
               ![s].total = @ + Cardinality({r \in batch : rows[r] = "none"})]
    BY <1>2 DEF InsertBatch
  <2>2. pc[s] = "insert" /\ UNCHANGED <<pc, campaign, policy>>
    BY <1>2 DEF InsertBatch
  <2>3. PICK old \in SUBSET Recipients, new \in SUBSET Recipients :
          /\ old = Recipients \ send[s].toInsert
          /\ new = Recipients \ (send[s].toInsert \ batch)
    OBVIOUS
  <2>4. {r \in batch : rows[r] = "none"} = batch
    BY <2>2 DEF Account
  <2>5. batch \in SUBSET Recipients /\ old \cap batch = {} /\ old \cup batch = new
    BY <2>3
  <2>6. Cardinality(new) = Cardinality(old) + Cardinality(batch)
    BY <2>5, CountsAdd
  <2>7. send' = [send EXCEPT ![s].toInsert = send[s].toInsert \ batch,
                             ![s].total = send[s].total + Cardinality(batch)]
    BY <2>1, <2>4
  <2>8. PICK n : n = send[s].total + Cardinality(batch)
    OBVIOUS
  <2>9. /\ send'[s].toInsert = send[s].toInsert \ batch /\ send'[s].total = n
        /\ send'[s].accepted = send[s].accepted /\ send'[s].took = send[s].took
        /\ send'[s].initialQueued = send[s].initialQueued
        /\ send'[s].prepared = send[s].prepared /\ send'[s].chunkIndex = send[s].chunkIndex
    BY <2>7, <2>8
  <2>10. n = Cardinality(new)
    BY <2>2, <2>3, <2>6, <2>8 DEF Account
  <2>11. \A r \in send'[s].toInsert : rows'[r] = "none"
    BY <2>1, <2>2, <2>9 DEF Account
  <2>12. QED
    BY <2>2, <2>3, <2>9, <2>10, <2>11 DEF Account, Append
<1>3. CASE SnapshotDone(s)
  <2>1. send[s].toInsert = {} => Recipients \ send[s].toInsert = Recipients
    OBVIOUS
  <2>2. pc[s] = "insert" /\ send[s].total = N
    BY <1>3, <2>1 DEF SnapshotDone, Account, N
  <2>3. UNCHANGED <<send, campaign, policy>> /\ pc'[s] \in {"jobCatch", "resolved"}
    BY <1>3 DEF SnapshotDone, docs
  <2>4. QED
    BY <2>2, <2>3 DEF Account, Append
<1>4. QED
  BY <1>1, <1>2, <1>3

\* From the audience to the reservation.
LEMMA ReservationAccount ==
  ASSUME TypeOK, TypeOK', NEW s \in Sends, Account(s), pc[s] \notin Between => Reserved,
         campaign.creditsReserved \in {0, N},
         \/ RecordSnapshot(s) \/ ResumeCheck(s) \/ ResumeDone(s) \/ Precheck(s)
         \/ ReadReservation(s) \/ TakeCredits(s) \/ TakeCreditsFails(s)
         \/ RecordReservation(s) \/ Start(s)
  PROVE  Account(s)'
<1> USE DEF TypeOK, SendLocals, CampaignDoc, At, Goto, Opening, Sized, Chunking, Holder, Tallied,
            RequestSteps
<1>1. CASE RecordSnapshot(s) \/ ResumeCheck(s) \/ ResumeDone(s) \/ Precheck(s)
  <2>1. CASE RecordSnapshot(s)
    BY <1>1, <2>1 DEF RecordSnapshot, Account, Append
  <2>2. CASE ResumeDone(s)
    BY <1>1, <2>2 DEF ResumeDone, Account
  <2>3. CASE ResumeCheck(s) \/ Precheck(s)
    <3>1. /\ pc[s] \in {"resumeCheck", "precheck"} /\ UNCHANGED <<send, campaign, policy>>
          /\ pc'[s] \in {"precheck", "reserve", "jobCatch", "resumeDone"}
      BY <2>3 DEF ResumeCheck, Precheck, docs
    <3>2. QED
      BY <3>1 DEF Account, Append
  <2>4. QED
    BY <1>1, <2>1, <2>2, <2>3
<1>2. CASE ReadReservation(s)
  <2>1. PICK n : n = campaign.creditsReserved
    OBVIOUS
  <2>2. /\ send'[s].total = send[s].total /\ send'[s].reserved = n
        /\ send'[s].accepted = send[s].accepted /\ send'[s].took = send[s].took
        /\ send'[s].initialQueued = send[s].initialQueued
        /\ send'[s].prepared = send[s].prepared /\ send'[s].chunkIndex = send[s].chunkIndex
    BY <1>2, <2>1 DEF ReadReservation
  <2>3. /\ pc[s] = "reserve" /\ UNCHANGED <<campaign, policy>>
        /\ pc'[s] = IF n > 0 THEN "start" ELSE "reserveTake"
    BY <1>2, <2>1 DEF ReadReservation, docs
  <2>4. Reserved /\ Reserved' = Reserved
    BY <2>3 DEF Between, Reserved
  <2>5. n = 0 \/ (n = N /\ policy.reserved = N)
    BY <2>1, <2>4 DEF Reserved
  <2>6. CASE n > 0
    BY <2>1, <2>2, <2>3, <2>4, <2>5, <2>6 DEF Account, Append
  <2>7. CASE ~(n > 0)
    BY <2>1, <2>2, <2>3, <2>5, <2>7, AudienceSize DEF Account, Append
  <2>8. QED
    BY <2>6, <2>7
<1>3. CASE TakeCredits(s)
  <2>1. Reserved /\ pc[s] = "reserveTake"
    BY <1>3 DEF TakeCredits, Between
  <2>2. policy.reserved = 0 /\ policy.remaining = InitialCredits /\ send[s].total = N
    BY <2>1, SizesAssumption DEF Account, Reserved, PolicyDoc
  <2>3. policy'.remaining = InitialCredits - N /\ policy'.reserved = N
    BY <1>3, <2>2, AudienceSize DEF TakeCredits, PolicyDoc
  <2>4. /\ send'[s].total = send[s].total /\ send'[s].reserved = send[s].total
        /\ send'[s].accepted = send[s].accepted /\ send'[s].took = send[s].took
        /\ send'[s].initialQueued = send[s].initialQueued
        /\ send'[s].prepared = send[s].prepared /\ send'[s].chunkIndex = send[s].chunkIndex
    BY <1>3 DEF TakeCredits
  <2>5. pc'[s] = "reserveRecord" /\ UNCHANGED campaign
    BY <1>3 DEF TakeCredits
  <2>6. policy'.remaining + N = InitialCredits
    BY <2>3, AudienceSize, SizesAssumption
  <2>7. QED
    BY <2>1, <2>2, <2>3, <2>4, <2>5, <2>6 DEF Account, Append
<1>4. CASE TakeCreditsFails(s)
  BY <1>4 DEF TakeCreditsFails, Account
<1>5. CASE RecordReservation(s)
  <2>1. /\ pc[s] = "reserveRecord" /\ pc'[s] = "start" /\ UNCHANGED <<send, policy>>
        /\ campaign'.creditsReserved = N /\ campaign'.queued = campaign.queued
    BY <1>5 DEF RecordReservation, Account
  <2>2. Reserved' /\ policy'.reserved = N
    BY <2>1 DEF Reserved, Account
  <2>3. QED
    BY <2>1, <2>2 DEF Account, Append
<1>6. CASE Start(s)
  <2>1. /\ pc[s] = "start" /\ pc'[s] = "load" /\ UNCHANGED <<send, policy>>
        /\ campaign'.creditsReserved = campaign.creditsReserved
        /\ campaign'.queued = campaign.queued
    BY <1>6 DEF Start
  <2>2. Reserved' = Reserved
    BY <2>1 DEF Reserved
  <2>3. QED
    BY <2>1, <2>2 DEF Account, Append
<1>7. QED
  BY <1>1, <1>2, <1>3, <1>4, <1>5, <1>6

\* A chunk: the stats move with what the send took, the credits do not.
LEMMA ChunkAccount ==
  ASSUME TypeOK, TypeOK', NEW s \in Sends, Account(s),
         \/ LoadChunk(s) \/ GuardChunk(s) \/ FilterSubscribed(s) \/ Suppress(s)
         \/ ClaimCampaign(s) \/ PersistCommunications(s) \/ PrepareRows(s)
         \/ Submit(s) \/ SubmitFails(s) \/ ApplyResults(s) \/ MarkQueued(s) \/ UpdateStats(s)
         \/ Bookkeep(s) \/ Finish(s) \/ ChunkFailed(s) \/ SendCatch(s) \/ JobCatch(s)
  PROVE  Account(s)'
<1> USE DEF TypeOK, SendLocals, CampaignDoc, At, Goto, Opening, Sized, Chunking, Holder, Tallied,
            RequestSteps
<1>0. Reserved => Reserved'
  <2>1. UNCHANGED policy /\ campaign'.creditsReserved = campaign.creditsReserved
    BY DEF LoadChunk, GuardChunk, FilterSubscribed, Suppress, ClaimCampaign,
           PersistCommunications, PrepareRows, Submit, SubmitFails, ApplyResults, MarkQueued,
           UpdateStats, Bookkeep, Finish, ChunkFailed, SendCatch, JobCatch, docs
  <2>2. QED
    BY <2>1 DEF Reserved
<1>1. CASE LoadChunk(s) \/ GuardChunk(s) \/ FilterSubscribed(s)
  BY <1>0, <1>1 DEF LoadChunk, GuardChunk, FilterSubscribed, Account, Append, docs
<1>2. CASE Suppress(s)
  <2>1. /\ pc[s] = "suppress" /\ UNCHANGED <<campaign, policy, send>>
        /\ pc'[s] \in {"bookkeep", "claim"}
    BY <1>2 DEF Suppress
  <2>2. send[s].took = {} /\ Cardinality(send[s].took) = 0
    BY <2>1, FS_EmptySet DEF Account
  <2>3. QED
    BY <1>0, <2>1, <2>2 DEF Account, Append
<1>3. CASE ClaimCampaign(s)
  <2>1. campaign'.queued = campaign.queued
    BY <1>3 DEF ClaimCampaign
  <2>2. QED
    BY <1>0, <1>3, <2>1 DEF ClaimCampaign, Account, Append
<1>4. CASE PersistCommunications(s) \/ PrepareRows(s)
  BY <1>0, <1>4 DEF PersistCommunications, PrepareRows, Account, Append
<1>5. CASE Submit(s)
  BY <1>0, <1>5 DEF Submit, Account, Append, docs
<1>6. CASE ApplyResults(s) \/ MarkQueued(s)
  BY <1>0, <1>6 DEF ApplyResults, MarkQueued, Account, Append
<1>7. CASE UpdateStats(s)
  <2>1. PICK n \in Nat : n = Cardinality(send[s].took)
    BY CountIsNat
  <2>2. /\ pc[s] = "stats" /\ pc'[s] = "bookkeep" /\ UNCHANGED <<policy, send>>
        /\ campaign'.queued = IF Append(s) THEN campaign.queued + n ELSE n
    BY <1>7, <2>1 DEF UpdateStats
  <2>3. campaign'.queued = send[s].initialQueued + send[s].accepted + n
    BY <2>1, <2>2 DEF Account
  <2>4. QED
    BY <1>0, <2>1, <2>2, <2>3 DEF Account
<1>8. CASE Bookkeep(s)
  <2>1. PICK n \in Nat, m \in Nat : n = Cardinality(send[s].took) /\ m = Cardinality(send[s].chunk)
    BY CountIsNat
  <2>2. PICK c \in SendLocals : c = Counted(s)
    BY CountedType
  <2>3. /\ c.accepted = send[s].accepted + n /\ c.chunkIndex = send[s].chunkIndex + 1
        /\ c.took = {} /\ c.total = send[s].total /\ c.reserved = send[s].reserved
        /\ c.initialQueued = send[s].initialQueued
    BY <2>1, <2>2 DEF Counted
  <2>4. /\ pc[s] = "bookkeep" /\ pc'[s] = "load" /\ send'[s] = c
        /\ UNCHANGED policy /\ campaign'.queued = campaign.queued
    BY <1>8, <2>2 DEF Bookkeep
  <2>5. c.chunkIndex > 0 /\ campaign.queued = c.initialQueued + c.accepted
    BY <2>1, <2>3, <2>4 DEF Account
  <2>6. QED
    BY <1>0, <2>3, <2>4, <2>5 DEF Account, Append
<1>9. CASE Finish(s) \/ SubmitFails(s)
  BY <1>0, <1>9 DEF Finish, SubmitFails, Account, Append, docs
<1>10. CASE ChunkFailed(s) \/ SendCatch(s) \/ JobCatch(s)
  BY <1>0, <1>10 DEF ChunkFailed, SendCatch, JobCatch, Account, Append
<1>11. QED
  BY <1>1, <1>2, <1>3, <1>4, <1>5, <1>6, <1>7, <1>8, <1>9, <1>10

\* The end: release, settlement and retry.
LEMMA ClosingAccount ==
  ASSUME StatsInv, TypeOK', NEW s \in Sends, Account(s),
         \/ FinalizeCredits(s) \/ ReleaseCredits(s) \/ ClearReservation(s) \/ Complete(s)
         \/ AttemptFailed(s)
  PROVE  Account(s)'
<1> USE DEF TypeOK, SendLocals, CampaignDoc, At, Goto, Opening, Sized, Chunking, Holder, Tallied,
            RequestSteps
<1>0. TypeOK
  BY DEF StatsInv
<1>1. CASE FinalizeCredits(s)
  <2>1. pc[s] = "finalize" /\ pc'[s] = "finalizeClear" /\ UNCHANGED campaign
    BY <1>0, <1>1 DEF FinalizeCredits
  <2>2. /\ policy.reserved = N /\ send[s].reserved = N /\ policy.remaining + N = InitialCredits
        /\ campaign.queued = send[s].initialQueued + send[s].accepted
    BY <2>1 DEF Account, Reserved
  <2>3. campaign.queued \in Nat /\ campaign.queued <= N
    <3>1. campaign.queued \in Nat /\ accepted \in SUBSET Recipients
      BY <1>0
    <3>2. campaign.queued <= Cardinality(accepted)
      BY DEF StatsInv, Counts
    <3>3. Cardinality(accepted) \in Nat /\ Cardinality(accepted) <= N
      BY <3>1, AudienceSize, CountIsNat
    <3>4. QED
      BY <3>1, <3>2, <3>3, AudienceSize
  <2>4. /\ policy'.reserved = policy.reserved - N
        /\ policy'.remaining = policy.remaining + Max2(0, N - campaign.queued)
    BY <1>0, <1>1, <2>2 DEF FinalizeCredits, PolicyDoc
  <2>5. policy.remaining \in Int /\ N \in Nat /\ InitialCredits \in Nat
    BY <1>0, AudienceSize, SizesAssumption DEF PolicyDoc
  <2>6. Settled'
    BY <2>1, <2>2, <2>3, <2>4, <2>5 DEF Settled, Max2
  <2>7. QED
    BY <2>1, <2>6 DEF Account
<1>2. CASE ReleaseCredits(s)
  <2>1. pc[s] = "release" /\ pc'[s] = "releaseClear"
    BY <1>0, <1>2 DEF ReleaseCredits
  <2>2. policy.reserved = N /\ send[s].reserved = N /\ policy.remaining + N = InitialCredits
    BY <2>1 DEF Account, Reserved
  <2>3. policy'.reserved = policy.reserved - N /\ policy'.remaining = policy.remaining + N
    BY <1>0, <1>2, <2>2 DEF ReleaseCredits, PolicyDoc
  <2>4. N \in Nat
    BY AudienceSize
  <2>5. QED
    BY <2>1, <2>2, <2>3, <2>4 DEF Account
<1>3. CASE ClearReservation(s)
  <2>1. /\ (pc[s] = "finalizeClear" /\ pc'[s] = "complete") \/ pc'[s] = "jobCatch"
        /\ UNCHANGED policy /\ campaign'.queued = campaign.queued
    BY <1>0, <1>3 DEF ClearReservation
  <2>2. QED
    BY <2>1 DEF Account, Settled
<1>4. CASE Complete(s)
  BY <1>0, <1>4 DEF Complete, Account
<1>5. CASE AttemptFailed(s)
  <2>5. PICK j \in SendLocals : j = JobData(s)
    BY <1>0, JobDataType
  <2>6. [j EXCEPT !.attemptsMade = j.attemptsMade + 1] \in SendLocals
    OBVIOUS
  <2>1. PICK k \in SendLocals : k = [j EXCEPT !.attemptsMade = j.attemptsMade + 1]
    BY <2>6, Zenon
  <2>2. j.total = 0 /\ j.accepted = 0 /\ j.initialQueued = 0 /\ j.took = {}
    BY <2>5 DEF JobData, NoLocals
  <2>3. k.total = 0 /\ k.accepted = 0 /\ k.initialQueued = 0 /\ k.took = {}
    BY <2>1, <2>2
  <2>4. send'[s] = k /\ pc'[s] \in {"waiting", "failed"}
    BY <1>0, <1>5, <2>1, <2>5 DEF AttemptFailed
  <2>7. QED
    BY <2>3, <2>4 DEF Account
<1>6. QED
  BY <1>1, <1>2, <1>3, <1>4, <1>5

\* Only three steps move credits.
LEMMA PoolKept ==
  ASSUME TypeOK, NEW s \in Sends, StepOf(s)
  PROVE  TakeCredits(s) \/ FinalizeCredits(s) \/ ReleaseCredits(s) \/ UNCHANGED policy
<1> USE DEF TypeOK, SendLocals, CampaignDoc
<1>1. CASE TakeCredits(s) \/ FinalizeCredits(s) \/ ReleaseCredits(s)
  BY <1>1 DEF TakeCredits, FinalizeCredits, ReleaseCredits
<1>2. CASE UNCHANGED policy
  BY <1>2
<1>3. QED
  BY <1>1, <1>2
  DEF StepOf, RequestStep, JobStep, ReceiveRequest, ResetRows, ResetComms, ResetCampaign,
      RejectRequest, Enqueue, TakeJob, Decide, MarkResolving, ClearSnapshot, InsertBatch,
      SnapshotDone, RecordSnapshot, ResumeCheck, ResumeDone, Precheck, ReadReservation,
      TakeCreditsFails, RecordReservation, Start, LoadChunk, GuardChunk, FilterSubscribed,
      Suppress, ClaimCampaign, PersistCommunications, PrepareRows, Submit, ApplyResults,
      MarkQueued, UpdateStats, Bookkeep, Finish, ClearReservation, Complete, ChunkFailed,
      SendCatch, JobCatch, AttemptFailed, SubmitFails, Throw, ThrowInRequest, Crash, docs,
      amds, world

\* Two write the reservation of the campaign, three its audience.
LEMMA ReservationKept ==
  ASSUME TypeOK, NEW s \in Sends, StepOf(s)
  PROVE  /\ RecordReservation(s) \/ ClearReservation(s) \/
              campaign'.creditsReserved = campaign.creditsReserved
         /\ Enqueue(s) \/ RecordSnapshot(s) \/ Start(s) \/
              campaign'.resolved = campaign.resolved
<1> USE DEF TypeOK, SendLocals, CampaignDoc
<1>1. CASE RecordReservation(s) \/ ClearReservation(s)
  BY <1>1 DEF RecordReservation, ClearReservation
<1>2. CASE UpdateStats(s) \/ ResetCampaign(s)
  BY <1>2 DEF UpdateStats, ResetCampaign
<1>3. CASE Enqueue(s) \/ RecordSnapshot(s) \/ Start(s)
  BY <1>3 DEF Enqueue, RecordSnapshot, Start
<1>4. CASE MarkResolving(s) \/ ResumeDone(s)
  BY <1>4 DEF MarkResolving, ResumeDone
<1>5. CASE ClaimCampaign(s) \/ Bookkeep(s) \/ Complete(s)
  BY <1>5 DEF ClaimCampaign, Bookkeep, Complete
<1>6. CASE ChunkFailed(s) \/ SendCatch(s) \/ JobCatch(s)
  BY <1>6 DEF ChunkFailed, SendCatch, JobCatch
<1>7. CASE UNCHANGED campaign
  BY <1>7
<1>8. QED
  BY <1>1, <1>2, <1>3, <1>4, <1>5, <1>6, <1>7
  DEF StepOf, RequestStep, JobStep, ReceiveRequest, ResetRows, ResetComms, RejectRequest,
      TakeJob, Decide, ClearSnapshot, InsertBatch, SnapshotDone, ResumeCheck, Precheck,
      ReadReservation, TakeCredits, TakeCreditsFails, LoadChunk, GuardChunk,
      FilterSubscribed, Suppress, PersistCommunications, PrepareRows, Submit, ApplyResults,
      MarkQueued, Finish, FinalizeCredits, ReleaseCredits, AttemptFailed, SubmitFails,
      Throw, ThrowInRequest, Crash, docs, amds, world

\* The credits of the campaign and its audience are none or all of the audience.
LEMMA AudienceStep ==
  ASSUME TypeOK, NEW s \in Sends, StepOf(s), Account(s), Whole \/ Raw,
         campaign.creditsReserved \in {0, N}, campaign.resolved \in {0, N}
  PROVE  campaign'.creditsReserved \in {0, N} /\ campaign'.resolved \in {0, N}
<1>1. campaign'.creditsReserved \in {0, N}
  <2>1. CASE RecordReservation(s)
    BY <2>1 DEF RecordReservation, At, Account, TypeOK, CampaignDoc
  <2>2. CASE ClearReservation(s)
    BY <2>2 DEF ClearReservation, TypeOK, CampaignDoc
  <2>3. QED
    BY <2>1, <2>2, ReservationKept
<1>2. campaign'.resolved \in {0, N}
  <2>1. CASE Enqueue(s)
    <3>1. ResumePlan.isResume => ResumePlan.resolved = N
      BY RawIsNotResumed, WholeCount, AudienceSize DEF ResumePlan
    <3>2. Estimate = N
      BY AudienceSize DEF Estimate, Max2, N
    <3>3. QED
      BY <2>1, <3>1, <3>2 DEF Enqueue, TypeOK, CampaignDoc
  <2>2. CASE RecordSnapshot(s) \/ Start(s)
    BY <2>2 DEF RecordSnapshot, Start, At, Account, Sized, Holder, TypeOK, CampaignDoc
  <2>3. QED
    BY <2>1, <2>2, ReservationKept
<1>3. QED
  BY <1>1, <1>2

\* The ledger stays balanced, or the update that balances it is outstanding.
LEMMA LedgerStep ==
  ASSUME PatientUser, MaxThrows = 0, StatsInv, StatsInv', Ledger, NEW s \in Sends, StepOf(s),
         ~Crash(s), Account(s), Account(s)'
  PROVE  Ledger'
<1> USE DEF At, Goto
<1>0. TypeOK /\ TypeOK'
  BY DEF StatsInv
<1>1. CASE pc'[s] \in Between
  BY <1>1 DEF Ledger
<1>2. CASE pc[s] \notin Between /\ pc'[s] \notin Between
  <2>1. Reserved
    BY <1>2, Standing
  <2>2. UNCHANGED policy
    <3>1. ~TakeCredits(s) /\ ~FinalizeCredits(s) /\ ~ReleaseCredits(s)
      BY <1>0, <1>2 DEF TakeCredits, FinalizeCredits, ReleaseCredits, Between, TypeOK
    <3>2. QED
      BY <1>0, <3>1, PoolKept
  <2>3. campaign'.creditsReserved = campaign.creditsReserved
    <3>1. ~RecordReservation(s) /\ ~ClearReservation(s)
      BY <1>2 DEF RecordReservation, ClearReservation, Between
    <3>2. QED
      BY <1>0, <3>1, ReservationKept
  <2>4. QED
    BY <2>1, <2>2, <2>3 DEF Ledger, Reserved
<1>3. CASE pc[s] \in Between /\ pc'[s] \notin Between
  <2>1. CASE RecordReservation(s)
    BY <1>0, <2>1 DEF RecordReservation, TypeOK, Account, Holder, Ledger
  <2>2. CASE ClearReservation(s)
    <3>1. /\ pc[s] = "releaseClear" /\ UNCHANGED policy
          /\ campaign'.creditsReserved = 0
      BY <1>0, <1>3, <2>2 DEF ClearReservation, TypeOK, CampaignDoc, Between
    <3>2. policy.reserved = 0 /\ policy.remaining = InitialCredits
      BY <3>1 DEF Account
    <3>3. Reserved'
      BY <3>1, <3>2, SizesAssumption DEF Reserved
    <3>4. QED
      BY <3>3 DEF Ledger
  <2>3. CASE Complete(s)
    <3>1. /\ pc[s] = "complete" /\ pc'[s] = "done" /\ UNCHANGED policy
          /\ campaign'.queued = campaign.queued /\ campaign'.status = "completed"
      BY <1>0, <2>3 DEF Complete, TypeOK, CampaignDoc
    <3>2. Settled'
      BY <3>1 DEF Account, Settled
    <3>3. \A t \in Sends : ~Under(t)'
      <4>1. \A t \in Sends \ {s} : ~Under(t) /\ pc'[t] = pc[t]
        BY OthersRest DEF StatsInv
      <4>2. QED
        BY <3>1, <4>1 DEF Under, Resting, EndSteps
    <3>4. QED
      BY <3>1, <3>2, <3>3 DEF Ledger, Closed
  <2>4. QED
    BY <1>0, <1>3, <2>1, <2>2, <2>3, NothingThrows
  DEF StepOf, RequestStep, JobStep, ReceiveRequest, ResetRows, ResetComms, ResetCampaign,
      RejectRequest, Enqueue, TakeJob, Decide, MarkResolving, ClearSnapshot, InsertBatch,
      SnapshotDone, RecordSnapshot, ResumeCheck, ResumeDone, Precheck, ReadReservation,
      TakeCredits, TakeCreditsFails, Start, LoadChunk, GuardChunk, FilterSubscribed,
      Suppress, ClaimCampaign, PersistCommunications, PrepareRows, Submit, ApplyResults,
      MarkQueued, UpdateStats, Bookkeep, Finish, FinalizeCredits, ReleaseCredits,
      ChunkFailed, SendCatch, JobCatch, AttemptFailed, SubmitFails, Between, TypeOK, RequestSteps,
      ActiveSteps, BeforeTry, SendTry, ChunkTry
<1>4. QED
  BY <1>1, <1>2, <1>3

\* A campaign a send works on is not completed.
LEMMA NotCompletedAtWork ==
  ASSUME TypeOK, Ended, NEW s \in Sends, StepOf(s) PROVE campaign.status # "completed"
<1>1. Under(s) \/ ReceiveRequest(s)
  BY StepMoves
<1>2. ReceiveRequest(s) => campaign.status # "completed"
  BY DEF ReceiveRequest, SENDABLE_STATUSES
<1>3. QED
  BY <1>1, <1>2 DEF Ended

\* The send that acts keeps its account.
LEMMA AccountStep ==
  ASSUME PatientUser, MaxThrows = 0, StatsInv, StatsInv', SnapInv', Accounts,
         NEW s \in Sends, StepOf(s), ~Crash(s)
  PROVE  Account(s)'
<1>1. /\ TypeOK /\ TypeOK' /\ Account(s)
      /\ campaign.resolved \in {0, N} /\ campaign.creditsReserved \in {0, N}
  BY DEF StatsInv, Accounts
<1>2. pc[s] \notin Between => Reserved
  BY Standing DEF Accounts
<1>3. QED
  BY <1>1, <1>2, OpeningAccount, DecideAccount, SnapshotAccount, ReservationAccount,
     ChunkAccount, ClosingAccount, NothingThrows DEF StepOf, RequestStep, JobStep

\* The accounts at the beginning, and at every step.
LEMMA CredInit == Init => CredInv
<1> SUFFICES ASSUME Init PROVE CredInv
  OBVIOUS
<1>1. Reserved
  BY SizesAssumption DEF Init, Reserved
<1>2. QED
  BY <1>1 DEF Init, CredInv, Accounts, Account, Ledger, NoLocals, Opening, Sized, Chunking,
              Holder, Tallied

LEMMA CredStep ==
  ASSUME PatientUser, MaxThrows = 0
  PROVE  StatsInv /\ StatsInv' /\ SnapInv /\ SnapInv' /\ CredInv /\ [Next]_vars => CredInv'
<1> SUFFICES ASSUME StatsInv, StatsInv', SnapInv, SnapInv', CredInv, [Next]_vars PROVE CredInv'
  OBVIOUS
<1>0. TypeOK /\ TypeOK' /\ Alone /\ (Whole \/ Raw) /\ Ended
  BY DEF StatsInv, SnapInv
<1>1. ASSUME NEW s \in Sends, StepOf(s) PROVE CredInv'
  <2>1. ASSUME crashes' = 0 PROVE Accounts'
    <3>1. crashes = 0 /\ ~Crash(s)
      <4>1. crashes' \in {crashes, crashes + 1} /\ (Crash(s) => crashes' = crashes + 1)
        BY <1>1
        DEF StepOf, RequestStep, JobStep, ReceiveRequest, ResetRows, ResetComms, ResetCampaign,
            RejectRequest, Enqueue, TakeJob, Decide, MarkResolving, ClearSnapshot, InsertBatch,
            SnapshotDone, RecordSnapshot, ResumeCheck, ResumeDone, Precheck, ReadReservation,
            TakeCredits, TakeCreditsFails, RecordReservation, Start, LoadChunk, GuardChunk,
            FilterSubscribed, Suppress, ClaimCampaign, PersistCommunications, PrepareRows, Submit,
            ApplyResults, MarkQueued, UpdateStats, Bookkeep, Finish, FinalizeCredits,
            ReleaseCredits, ClearReservation, Complete, ChunkFailed, SendCatch, JobCatch,
            AttemptFailed, ReleaseSlot, SubmitFails, Throw, ThrowInRequest, Crash, counts
      <4>2. crashes \in Nat
        BY <1>0 DEF TypeOK
      <4>3. QED
        BY <2>1, <4>1, <4>2
    <3>2. Accounts /\ Account(s) /\ Ledger
      BY <3>1 DEF CredInv, Accounts
    <3>3. Account(s)'
      BY <1>1, <3>1, <3>2, AccountStep
    <3>4. campaign'.creditsReserved \in {0, N} /\ campaign'.resolved \in {0, N}
      BY <1>0, <1>1, <3>2, AudienceStep DEF Accounts
    <3>5. Ledger'
      BY <1>1, <3>1, <3>2, <3>3, LedgerStep
    <3>6. ASSUME NEW t \in Sends \ {s} PROVE Account(t)'
      <4>1. ~Under(t) /\ pc'[t] = pc[t] /\ send'[t] = send[t]
        BY <1>0, <1>1, OthersRest
      <4>2. QED
        BY <3>2, <4>1 DEF Accounts, Account, Under, Resting, EndSteps, Opening, Sized, Chunking,
                          Holder, Tallied, RequestSteps
    <3>7. campaign'.status = "completed" => Settled'
      <4>1. SUFFICES ASSUME campaign'.status = "completed" PROVE Settled'
        OBVIOUS
      <4>2. Complete(s)
        BY <1>0, <1>1, <4>1, CompletedBy, NotCompletedAtWork
      <4>3. /\ pc[s] = "complete" /\ UNCHANGED policy /\ campaign'.queued = campaign.queued
        BY <1>0, <4>2 DEF Complete, At, TypeOK, CampaignDoc
      <4>4. QED
        BY <3>2, <4>3 DEF Account, Settled
    <3>8. QED
      BY <3>3, <3>4, <3>5, <3>6, <3>7 DEF Accounts, N
  <2>2. userStatus' = userStatus
    BY <1>0, <1>1, StepKeeps
  <2>3. QED
    BY <2>1, <2>2 DEF CredInv
<1>2. CASE ~\E s \in Sends : StepOf(s)
  <2>1. /\ UNCHANGED <<pc, send, rows, crashes>> /\ (UNCHANGED campaign \/ SaveTransition)
        /\ policy'.remaining = policy.remaining /\ policy'.reserved = policy.reserved
    BY <1>0, <1>2, OtherSteps
  <2>2. /\ campaign'.creditsReserved = campaign.creditsReserved
        /\ campaign'.resolved = campaign.resolved /\ campaign'.queued = campaign.queued
        /\ campaign'.status \in {"draft", "failed", "completed"} =>
              campaign'.status = campaign.status
    BY <1>0, <2>1 DEF SaveTransition, CredInv, TypeOK, CampaignDoc
  <2>3. userStatus' \notin {"draft", "failed", "completed"}
    <3>1. ASSUME NEW t \in UserTargets, ReadTransition(t)
          PROVE  userStatus' \notin {"draft", "failed", "completed"}
      BY <3>1, OptionsAssumption DEF ReadTransition
    <3>2. CASE SaveTransition
      BY <3>2 DEF SaveTransition
    <3>3. CASE ~SaveTransition /\ ~\E t \in UserTargets : ReadTransition(t)
      <4>1. UNCHANGED userStatus
        BY <1>2, <3>3
        DEF Next, Environment, StepOf, SlotsWiped, Unsubscribe, ChangePolicyStatus, world, vars
      <4>2. QED
        BY <4>1 DEF CredInv
    <3>4. QED
      BY <3>1, <3>2, <3>3
  <2>4. Reserved' = Reserved /\ Settled' = Settled
    BY <2>1, <2>2 DEF Reserved, Settled
  <2>5. ASSUME NEW s \in Sends, Account(s) PROVE Account(s)'
    BY <2>1, <2>2, <2>4, <2>5 DEF Account, Append, N
  <2>6. Ledger => Ledger'
    BY <2>1, <2>2, <2>4 DEF Ledger, Closed, Under
  <2>7. Accounts => Accounts'
    BY <2>2, <2>4, <2>5, <2>6 DEF Accounts, N
  <2>8. QED
    BY <2>1, <2>3, <2>7 DEF CredInv
<1>3. QED
  BY <1>1, <1>2

\* With a user who waits and an audience that is not resolved again by force, and as
\* long as nothing throws or crashes, a completed campaign has paid for what it queued and
\* returned the rest of its reservation, whatever AMDS refuses and however often the job
\* is retried or a failed campaign sent again (reserveCampaignSendCredits,
\* finalizeCampaignSendCredits, releaseCampaignSendCredits).
THEOREM CompletedIsSettled ==
  ASSUME PatientUser, ForceOptions \subseteq {FALSE}, MaxThrows = 0
  PROVE  Spec => []CompletedSettlesCredits
<1>1. Spec => [](StatsInv /\ SnapInv)
  BY SnapHolds
<1>2. StatsInv /\ StatsInv' /\ SnapInv /\ SnapInv' /\ CredInv /\ [Next]_vars => CredInv'
  BY CredStep
<1>3. CredInv => CompletedSettlesCredits
  BY DEF CredInv, Accounts, Settled, CompletedSettlesCredits
<1>4. QED
  BY <1>1, <1>2, <1>3, CredInit, PTL DEF Spec
=============================================================================
