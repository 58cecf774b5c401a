------------------------ MODULE EmailDispatch_proofs ------------------------
(***************************************************************************)
(* For every set of mails and processes, with and without Redis, whatever   *)
(* crashes, throws, stalls and cancellations fall in between: the provider   *)
(* is called at most once per mail, and the outcome of a hand-over on record *)
(* is a real one that no run of a job, poll or retry writes again.  What the *)
(* webhooks of AMDS make of it later is not modelled.                       *)
(***************************************************************************)
EXTENDS EmailDispatch, TLAPS

\* The insert comes first: no job, no process and no cancellation knows a mail
\* that was not created, and only a queue hands out jobs.
CreatedFirst ==
    /\ \A p \in Procs : /\ pc[p] # "idle" => request[mail[p]] # "none"
                        /\ owns[p] => QueueAvailable
    /\ \A m \in Mails : job[m] # "none" \/ cancel[m] # "none" => request[m] # "none"

\* The facts that carry each other from step to step.
Facts == CallAccounting /\ AtMostOneCall /\ OutcomeIsReal /\ CreatedFirst

\* The inductive invariant.
IInv == TypeOK /\ Facts

\* The program starts with typed documents.
LEMMA TypeInit == Init => TypeOK
  BY MailsAssumption DEF Init, TypeOK, MailStatus, JobState, ProcStep

\* It starts with nothing created, and so with nothing to account for.
LEMMA FactsInit == Init => Facts
  BY MailsAssumption
  DEF Init, Facts, CallAccounting, AtMostOneCall, OutcomeIsReal, CreatedFirst

\* No step of a request, of Bull, of a process or of time leaves the types.
LEMMA TypeStep == TypeOK /\ [Next]_vars => TypeOK'
<1> SUFFICES ASSUME TypeOK, [Next]_vars PROVE TypeOK'
  OBVIOUS
<1> USE DEF TypeOK, MailStatus, JobState, ProcStep, doc, bull, http, proc
<1>1. ASSUME NEW m \in Mails, Create(m) PROVE TypeOK'
  BY <1>1 DEF Create
<1>2. ASSUME NEW m \in Mails, Enqueue(m) PROVE TypeOK'
  BY <1>2 DEF Enqueue, Added
<1>3. ASSUME NEW m \in Mails, SyncSend(m) PROVE TypeOK'
  BY <1>3 DEF SyncSend
<1>4. ASSUME NEW m \in Mails, SyncWrite(m) PROVE TypeOK'
  BY <1>4 DEF SyncWrite
<1>5. ASSUME NEW m \in Mails, RequestLost(m) PROVE TypeOK'
  BY <1>5 DEF RequestLost
<1>6. ASSUME NEW m \in Mails, CancelRead(m) PROVE TypeOK'
  BY <1>6 DEF CancelRead
<1>7. ASSUME NEW m \in Mails, CancelSave(m) PROVE TypeOK'
  BY <1>7 DEF CancelSave
<1>8. ASSUME NEW m \in Mails, CancelRemove(m) PROVE TypeOK'
  BY <1>8 DEF CancelRemove
<1>9. ASSUME NEW m \in Mails, BecomeDue(m) PROVE TypeOK'
  BY <1>9 DEF BecomeDue
<1>10. ASSUME NEW m \in Mails, Promote(m) PROVE TypeOK'
  BY <1>10 DEF Promote
<1>11. ASSUME NEW m \in Mails, Evict(m) PROVE TypeOK'
  BY <1>11 DEF Evict
<1>12. ASSUME NEW p \in Procs, NEW m \in Mails, TakeJob(p, m) PROVE TypeOK'
  BY <1>12 DEF TakeJob
<1>13. ASSUME NEW p \in Procs, NEW m \in Mails, PollFind(p, m) PROVE TypeOK'
  BY <1>13 DEF PollFind
<1>14. ASSUME NEW p \in Procs, PollClaim(p) PROVE TypeOK'
  BY <1>14 DEF PollClaim
<1>15. ASSUME NEW p \in Procs, PollEnqueue(p) PROVE TypeOK'
  BY <1>15 DEF PollEnqueue, Added
<1>16. ASSUME NEW p \in Procs, Read(p) PROVE TypeOK'
  BY <1>16 DEF Read, Leave
<1>17. ASSUME NEW p \in Procs, Claim(p) PROVE TypeOK'
  <2>1. CASE Claimable(p)
    BY <1>17, <2>1 DEF Claim
  <2>2. CASE ~Claimable(p)
    BY <1>17, <2>2 DEF Claim, Leave
  <2>3. QED
    BY <2>1, <2>2
<1>18. ASSUME NEW p \in Procs, AppendEvent(p) PROVE TypeOK'
  BY <1>18 DEF AppendEvent
<1>19. ASSUME NEW p \in Procs, CallProvider(p) PROVE TypeOK'
  BY <1>19 DEF CallProvider
<1>20. ASSUME NEW p \in Procs, WriteResult(p) PROVE TypeOK'
  BY <1>20 DEF WriteResult
<1>21. ASSUME NEW p \in Procs, Effects(p) PROVE TypeOK'
  BY <1>21 DEF Effects, Leave
<1>22. ASSUME NEW p \in Procs, Stall(p) PROVE TypeOK'
  BY <1>22 DEF Stall
<1>23. ASSUME NEW p \in Procs, Throw(p) PROVE TypeOK'
  <2>1. mail[p] \in Mails /\ tries[mail[p]].failed + 1 \in Nat
    OBVIOUS
  <2>2. calls' \in [Mails -> Nat]
    BY <1>23, <2>1 DEF Throw
  <2>3. job' \in [Mails -> JobState] /\ tries' \in [Mails -> [failed : Nat, stalled : Nat]]
    <3>1. CASE owns[p]
      <4>1. JobThrew(mail[p])
        BY <1>23, <3>1 DEF Throw
      <4>2. job' \in [Mails -> JobState]
        BY <4>1 DEF JobThrew
      <4>3. tries' = [tries EXCEPT ![mail[p]].failed = tries[mail[p]].failed + 1]
        BY <4>1 DEF JobThrew
      <4>4. tries' \in [Mails -> [failed : Nat, stalled : Nat]]
        BY <2>1, <4>3
      <4>5. QED
        BY <4>2, <4>4
    <3>2. CASE ~owns[p]
      BY <1>23, <3>2 DEF Throw
    <3>3. QED
      BY <3>1, <3>2
  <2>4. pc' \in [Procs -> ProcStep] /\ owns' \in [Procs -> BOOLEAN] /\ faults' \in Nat
    BY <1>23 DEF Throw
  <2>5. QED
    BY <1>23, <2>2, <2>3, <2>4 DEF Throw
<1>24. ASSUME NEW p \in Procs, Crash(p) PROVE TypeOK'
  BY <1>24 DEF Crash
<1>25. ASSUME UNCHANGED vars PROVE TypeOK'
  BY <1>25 DEF vars
<1>26. QED
  BY <1>1, <1>2, <1>3, <1>4, <1>5, <1>6, <1>7, <1>8, <1>9, <1>10, <1>11, <1>12, <1>13,
     <1>14, <1>15, <1>16, <1>17, <1>18, <1>19, <1>20, <1>21, <1>22, <1>23, <1>24, <1>25
  DEF Next, RequestStep, CancelStep, ProcStepOf, Pick, Poll

\* Every step keeps the account of who may call the provider and who has.
LEMMA FactsStep == IInv /\ [Next]_vars => Facts'
<1> SUFFICES ASSUME IInv, [Next]_vars PROVE Facts'
  OBVIOUS
<1> USE DEF TypeOK, doc, bull, http, proc, Facts, CallAccounting, AtMostOneCall,
            OutcomeIsReal, CreatedFirst
<1>0. TypeOK /\ Facts
  BY DEF IInv
<1>1. ASSUME NEW m \in Mails, Create(m) PROVE Facts'
  BY <1>0, <1>1 DEF Create
<1>2. ASSUME NEW m \in Mails, Enqueue(m) PROVE Facts'
  BY <1>0, <1>2 DEF Enqueue, Added
<1>3. ASSUME NEW m \in Mails, SyncSend(m) PROVE Facts'
  BY <1>0, <1>3 DEF SyncSend
<1>4. ASSUME NEW m \in Mails, SyncWrite(m) PROVE Facts'
  BY <1>0, <1>4 DEF SyncWrite
<1>5. ASSUME NEW m \in Mails, RequestLost(m) PROVE Facts'
  BY <1>0, <1>5 DEF RequestLost
<1>6. ASSUME NEW m \in Mails, CancelRead(m) PROVE Facts'
  BY <1>0, <1>6 DEF CancelRead
<1>7. ASSUME NEW m \in Mails, CancelSave(m) PROVE Facts'
  BY <1>0, <1>7 DEF CancelSave
<1>8. ASSUME NEW m \in Mails, CancelRemove(m) PROVE Facts'
  BY <1>0, <1>8 DEF CancelRemove
<1>9. ASSUME NEW m \in Mails, BecomeDue(m) PROVE Facts'
  BY <1>0, <1>9 DEF BecomeDue
<1>10. ASSUME NEW m \in Mails, Promote(m) PROVE Facts'
  BY <1>0, <1>10 DEF Promote
<1>11. ASSUME NEW m \in Mails, Evict(m) PROVE Facts'
  BY <1>0, <1>11 DEF Evict
<1>12. ASSUME NEW p \in Procs, NEW m \in Mails, TakeJob(p, m) PROVE Facts'
  BY <1>0, <1>12 DEF TakeJob
<1>13. ASSUME NEW p \in Procs, NEW m \in Mails, PollFind(p, m) PROVE Facts'
  BY <1>0, <1>13 DEF PollFind
<1>14. ASSUME NEW p \in Procs, PollClaim(p) PROVE Facts'
  <2>1. CASE status[mail[p]] = "scheduled"
    BY <1>0, <1>14, <2>1 DEF PollClaim
  <2>2. CASE status[mail[p]] # "scheduled"
    BY <1>0, <1>14, <2>2 DEF PollClaim
  <2>3. QED
    BY <2>1, <2>2
<1>15. ASSUME NEW p \in Procs, PollEnqueue(p) PROVE Facts'
  <2>1. CASE QueueAvailable
    BY <1>0, <1>15, <2>1 DEF PollEnqueue, Added
  <2>2. CASE ~QueueAvailable
    BY <1>0, <1>15, <2>2 DEF PollEnqueue
  <2>3. QED
    BY <2>1, <2>2
<1>16. ASSUME NEW p \in Procs, Read(p) PROVE Facts'
  BY <1>0, <1>16 DEF Read, Leave
<1>17. ASSUME NEW p \in Procs, Claim(p) PROVE Facts'
  <2>1. CASE Claimable(p)
    <3>1. mail[p] \in Mails /\ request[mail[p]] # "none" /\ calls[mail[p]] = 0 /\ ~claimed[mail[p]]
      BY <1>0, <1>17, <2>1 DEF Claim, Claimable
    <3>2. /\ status' = [status EXCEPT ![mail[p]] = "sending"]
          /\ claimed' = [claimed EXCEPT ![mail[p]] = TRUE]
          /\ pc' = [pc EXCEPT ![p] = "event"]
          /\ UNCHANGED <<owns, job, tries, request, cancel, mail, calls>>
      BY <1>17, <2>1 DEF Claim
    <3>3. CallAccounting'
      BY <1>0, <1>17, <3>1, <3>2 DEF Claim
    <3>4. (AtMostOneCall /\ OutcomeIsReal /\ CreatedFirst)'
      BY <1>0, <1>17, <3>1, <3>2 DEF Claim
    <3>5. QED
      BY <3>3, <3>4
  <2>2. CASE ~Claimable(p)
    BY <1>0, <1>17, <2>2 DEF Claim, Leave
  <2>3. QED
    BY <2>1, <2>2
<1>18. ASSUME NEW p \in Procs, AppendEvent(p) PROVE Facts'
  BY <1>0, <1>18 DEF AppendEvent
<1>19. ASSUME NEW p \in Procs, CallProvider(p) PROVE Facts'
  BY <1>0, <1>19 DEF CallProvider
<1>20. ASSUME NEW p \in Procs, WriteResult(p) PROVE Facts'
  BY <1>0, <1>20 DEF WriteResult
<1>21. ASSUME NEW p \in Procs, Effects(p) PROVE Facts'
  BY <1>0, <1>21 DEF Effects, Leave
<1>22. ASSUME NEW p \in Procs, Stall(p) PROVE Facts'
  BY <1>0, <1>22 DEF Stall
<1>23. ASSUME NEW p \in Procs, Throw(p) PROVE Facts'
  BY <1>0, <1>23 DEF Throw, JobThrew
<1>24. ASSUME NEW p \in Procs, Crash(p) PROVE Facts'
  BY <1>0, <1>24 DEF Crash
<1>25. ASSUME UNCHANGED vars PROVE Facts'
  BY <1>0, <1>25 DEF vars
<1>26. QED
  BY <1>1, <1>2, <1>3, <1>4, <1>5, <1>6, <1>7, <1>8, <1>9, <1>10, <1>11, <1>12, <1>13,
     <1>14, <1>15, <1>16, <1>17, <1>18, <1>19, <1>20, <1>21, <1>22, <1>23, <1>24, <1>25
  DEF Next, RequestStep, CancelStep, ProcStepOf, Pick, Poll

\* The types and the account together hold in every reachable state.
LEMMA Inductive == Spec => []IInv
<1>1. Init => IInv
  BY TypeInit, FactsInit DEF IInv
<1>2. IInv /\ [Next]_vars => IInv'
  BY TypeStep, FactsStep DEF IInv
<1>3. QED
  BY <1>1, <1>2, PTL DEF Spec

\* Every document, job and local variable keeps its type.
THEOREM EmailTypeCorrect == Spec => []TypeOK
<1>1. IInv => TypeOK
  BY DEF IInv
<1>2. QED
  BY Inductive, <1>1, PTL

\* The provider is called at most once for a mail, whatever is retried, stalls,
\* dies or is polled: a claim is never given back.
THEOREM NeverSentTwice == Spec => []AtMostOneCall
<1>1. IInv => AtMostOneCall
  BY DEF IInv, Facts
<1>2. QED
  BY Inductive, <1>1, PTL

\* A mail shown as sent or failed was handed to the provider, exactly once.
THEOREM OutcomesAreReal == Spec => []OutcomeIsReal
<1>1. IInv => OutcomeIsReal
  BY DEF IInv, Facts
<1>2. QED
  BY Inductive, <1>1, PTL

\* Who holds a claim may call, and only it may.
THEOREM ClaimIsExclusive == Spec => []CallAccounting
<1>1. IInv => CallAccounting
  BY DEF IInv, Facts
<1>2. QED
  BY Inductive, <1>1, PTL

-----------------------------------------------------------------------------
(* An outcome is written once.                                             *)

Calling == {"event", "provider", "writeSent", "writeFailed"}
Sending == {"syncSend", "syncSent", "syncFailed"}
Outcome == {"sent", "failed"}

\* Whoever is on the way to write an outcome is alone, and finds none.
OneWriter ==
    /\ \A p \in Procs : /\ pc[p] = "claim" => seen[p] \in {"scheduled", "sending"}
                        /\ pc[p] \in Calling => status[mail[p]] \notin Outcome
    /\ \A p, q \in Procs :
         p # q /\ mail[p] = mail[q] => pc[p] \notin Calling \/ pc[q] \notin Calling
    /\ \A m \in Mails : request[m] \in Sending => status[m] \notin Outcome

\* The step keeps an outcome, unless it saves a cancellation.
Final(m) == status[m] \in Outcome /\ ~CancelSave(m) => status'[m] = status[m]
KeepsOutcomes == \A m \in Mails : Final(m)

\* Processes, requests and documents stay.
LEMMA WriterFrame ==
  ASSUME TypeOK, OneWriter, UNCHANGED <<status, request, mail, seen>>,
         \A p \in Procs : pc'[p] = pc[p] \/ pc'[p] \notin Calling \cup {"claim"}
  PROVE  OneWriter' /\ KeepsOutcomes
  BY DEF OneWriter, KeepsOutcomes, Final

\* Every step keeps the writer alone, and the outcomes.
LEMMA OutcomeStep == IInv /\ OneWriter /\ [Next]_vars => OneWriter' /\ KeepsOutcomes
<1> SUFFICES ASSUME IInv, OneWriter, [Next]_vars PROVE OneWriter' /\ KeepsOutcomes
  OBVIOUS
<1>0. /\ TypeOK /\ CallAccounting
      /\ \A p \in Procs : mail[p] \in Mails
  BY DEF IInv, Facts, TypeOK
<1> USE DEF doc, bull, http, proc
<1>1. ASSUME NEW m \in Mails, Create(m) PROVE OneWriter' /\ KeepsOutcomes
  <2>1. request[m] = "none" /\ status[m] = "none" /\ UNCHANGED <<pc, mail, seen>>
    BY <1>0, <1>1 DEF Create, CallAccounting
  <2>2. /\ status'[m] \notin Outcome
        /\ \A n \in Mails : n # m => status'[n] = status[n] /\ request'[n] = request[n]
    BY <1>0, <1>1 DEF Create, TypeOK, Outcome
  <2>3. OneWriter'
    BY <1>0, <2>1, <2>2 DEF OneWriter
  <2>4. KeepsOutcomes
    BY <2>1, <2>2 DEF KeepsOutcomes, Final, Outcome
  <2>5. QED
    BY <2>3, <2>4
<1>2. ASSUME NEW m \in Mails, Enqueue(m) \/ SyncSend(m) \/ RequestLost(m)
      PROVE OneWriter' /\ KeepsOutcomes
  <2>1. /\ UNCHANGED <<status, pc, mail, seen>>
        /\ \A n \in Mails : request'[n] \in Sending => request[n] \in Sending
    BY <1>0, <1>2 DEF Enqueue, SyncSend, RequestLost, TypeOK, Sending
  <2>2. QED
    BY <2>1 DEF OneWriter, KeepsOutcomes, Final
<1>3. ASSUME NEW m \in Mails, SyncWrite(m) PROVE OneWriter' /\ KeepsOutcomes
  <2>1. /\ request[m] \in Sending /\ request'[m] = "done" /\ UNCHANGED <<pc, mail, seen>>
        /\ \A n \in Mails : n # m => status'[n] = status[n] /\ request'[n] = request[n]
    BY <1>0, <1>3 DEF SyncWrite, TypeOK, Sending
  <2>2. \A p \in Procs : pc[p] # "idle" => mail[p] # m
    BY <1>0, <2>1 DEF CallAccounting, Sending
  <2>3. OneWriter'
    BY <1>0, <2>1, <2>2 DEF OneWriter, Calling, Sending
  <2>4. KeepsOutcomes
    BY <2>1 DEF OneWriter, KeepsOutcomes, Final
  <2>5. QED
    BY <2>3, <2>4
<1>4. ASSUME NEW m \in Mails, CancelSave(m) PROVE OneWriter' /\ KeepsOutcomes
  <2>1. /\ status' = [status EXCEPT ![m] = "cancelled"] /\ UNCHANGED <<request, pc, mail, seen>>
    BY <1>4 DEF CancelSave
  <2>2. \A n \in Mails : status'[n] = status[n] \/ (n = m /\ status'[n] \notin Outcome)
    BY <1>0, <2>1 DEF TypeOK, Outcome
  <2>3. OneWriter'
    BY <1>0, <2>1, <2>2 DEF OneWriter
  <2>4. KeepsOutcomes
    BY <1>4, <2>2 DEF KeepsOutcomes, Final
  <2>5. QED
    BY <2>3, <2>4
<1>5. ASSUME NEW m \in Mails,
             CancelRead(m) \/ CancelRemove(m) \/ BecomeDue(m) \/ Promote(m) \/ Evict(m)
      PROVE OneWriter' /\ KeepsOutcomes
  BY <1>0, <1>5, WriterFrame DEF CancelRead, CancelRemove, BecomeDue, Promote, Evict
<1>6. ASSUME NEW p \in Procs, NEW m \in Mails, TakeJob(p, m) \/ PollFind(p, m)
      PROVE OneWriter' /\ KeepsOutcomes
  <2>1. /\ UNCHANGED <<status, request, seen>> /\ pc'[p] \notin Calling \cup {"claim"}
        /\ \A q \in Procs : q # p => pc'[q] = pc[q] /\ mail'[q] = mail[q]
    BY <1>0, <1>6 DEF TakeJob, PollFind, TypeOK, Calling
  <2>2. QED
    BY <2>1 DEF OneWriter, KeepsOutcomes, Final
<1>7. ASSUME NEW p \in Procs, PollClaim(p) PROVE OneWriter' /\ KeepsOutcomes
  <2>1. /\ UNCHANGED <<request, mail, seen>> /\ pc'[p] \notin Calling \cup {"claim"}
        /\ \A q \in Procs : q # p => pc'[q] = pc[q]
    BY <1>0, <1>7 DEF PollClaim, TypeOK, Calling
  <2>2. \A n \in Mails : \/ status'[n] = status[n]
                         \/ status[n] \notin Outcome /\ status'[n] \notin Outcome
    BY <1>0, <1>7 DEF PollClaim, TypeOK, Outcome
  <2>3. QED
    BY <1>0, <2>1, <2>2 DEF OneWriter, KeepsOutcomes, Final
<1>8. ASSUME NEW p \in Procs, Read(p) PROVE OneWriter' /\ KeepsOutcomes
  <2>1. /\ UNCHANGED <<status, request, mail>> /\ pc'[p] \in {"claim", "idle"}
        /\ pc'[p] = "claim" => seen'[p] \in {"scheduled", "sending"}
        /\ \A q \in Procs : q # p => pc'[q] = pc[q] /\ seen'[q] = seen[q]
    BY <1>0, <1>8 DEF Read, Leave, TypeOK
  <2>2. QED
    BY <2>1 DEF OneWriter, KeepsOutcomes, Final, Calling
<1>9. ASSUME NEW p \in Procs, Claim(p) PROVE OneWriter' /\ KeepsOutcomes
  <2>1. CASE Claimable(p)
    <3>1. PICK m \in Mails : m = mail[p] /\ status[m] = seen[p] /\ ~claimed[m]
      BY <1>0, <2>1 DEF Claimable
    <3>2. /\ status' = [status EXCEPT ![m] = "sending"] /\ pc' = [pc EXCEPT ![p] = "event"]
          /\ UNCHANGED <<request, mail, seen>> /\ pc[p] = "claim"
      BY <1>9, <2>1, <3>1 DEF Claim
    <3>3. status[m] \notin Outcome
      BY <3>1, <3>2 DEF OneWriter, Outcome
    <3>4. \A q \in Procs : mail[q] = m => pc[q] \notin Calling
      <4>1. calls[m] = 0
        BY <1>0, <3>1, <3>2 DEF CallAccounting
      <4>2. QED
        BY <1>0, <3>1, <4>1 DEF CallAccounting, Calling
    <3>5. /\ \A n \in Mails : \/ status'[n] = status[n]
                              \/ status[n] \notin Outcome /\ status'[n] \notin Outcome
          /\ status'[m] \notin Outcome /\ pc'[p] = "event"
          /\ \A q \in Procs : q # p => pc'[q] = pc[q]
      BY <1>0, <3>2, <3>3 DEF TypeOK, Outcome
    <3>6. OneWriter'
      BY <1>0, <3>1, <3>2, <3>4, <3>5 DEF OneWriter
    <3>7. KeepsOutcomes
      BY <3>5 DEF KeepsOutcomes, Final
    <3>8. QED
      BY <3>6, <3>7
  <2>2. CASE ~Claimable(p)
    <3>1. UNCHANGED <<status, request, mail, seen>> /\ pc' = [pc EXCEPT ![p] = "idle"]
      BY <1>9, <2>2 DEF Claim, Leave
    <3>2. \A q \in Procs : pc'[q] = pc[q] \/ pc'[q] \notin Calling \cup {"claim"}
      BY <1>0, <3>1 DEF TypeOK, Calling
    <3>3. QED
      BY <1>0, <3>1, <3>2, WriterFrame
  <2>3. QED
    BY <2>1, <2>2
<1>10. ASSUME NEW p \in Procs, AppendEvent(p) \/ CallProvider(p)
       PROVE OneWriter' /\ KeepsOutcomes
  <2>1. /\ UNCHANGED <<status, request, mail, seen>>
        /\ \A q \in Procs : /\ pc'[q] \in Calling <=> pc[q] \in Calling
                            /\ pc'[q] = "claim" => pc[q] = "claim"
    BY <1>0, <1>10 DEF AppendEvent, CallProvider, TypeOK, Calling
  <2>2. QED
    BY <2>1 DEF OneWriter, KeepsOutcomes, Final
<1>11. ASSUME NEW p \in Procs, WriteResult(p) PROVE OneWriter' /\ KeepsOutcomes
  <2>1. PICK m \in Mails : m = mail[p]
    BY <1>0
  <2>2. /\ UNCHANGED <<request, mail, seen>> /\ pc[p] \in Calling /\ pc' = [pc EXCEPT ![p] = "effects"]
        /\ \A n \in Mails : n # m => status'[n] = status[n]
    BY <1>0, <1>11, <2>1 DEF WriteResult, TypeOK, Calling
  <2>3. pc'[p] \notin Calling \cup {"claim"} /\ \A q \in Procs : q # p => pc'[q] = pc[q]
    BY <1>0, <2>2 DEF TypeOK, Calling
  <2>4. \A q \in Procs : mail[q] = m => pc'[q] \notin Calling
    BY <2>1, <2>2, <2>3 DEF OneWriter
  <2>5. request[m] \notin Sending /\ status[m] \notin Outcome
    BY <1>0, <2>1, <2>2 DEF CallAccounting, OneWriter, Calling, Sending
  <2>6. OneWriter'
    <3>1. \A q \in Procs : /\ pc'[q] = "claim" => seen'[q] \in {"scheduled", "sending"}
                           /\ pc'[q] \in Calling => status'[mail'[q]] \notin Outcome
      BY <1>0, <2>2, <2>3, <2>4 DEF OneWriter
    <3>2. \A q, r \in Procs :
            q # r /\ mail'[q] = mail'[r] => pc'[q] \notin Calling \/ pc'[r] \notin Calling
      BY <2>2, <2>3 DEF OneWriter
    <3>3. \A n \in Mails : request'[n] \in Sending => status'[n] \notin Outcome
      BY <2>2, <2>5 DEF OneWriter
    <3>4. QED
      BY <3>1, <3>2, <3>3 DEF OneWriter
  <2>7. KeepsOutcomes
    BY <2>2, <2>5 DEF KeepsOutcomes, Final
  <2>8. QED
    BY <2>6, <2>7
<1>12. ASSUME NEW p \in Procs,
              PollEnqueue(p) \/ Effects(p) \/ Stall(p) \/ Throw(p) \/ Crash(p)
       PROVE OneWriter' /\ KeepsOutcomes
  <2>1. /\ UNCHANGED <<status, request, mail, seen>>
        /\ \A q \in Procs : pc'[q] = pc[q] \/ pc'[q] \notin Calling \cup {"claim"}
    BY <1>0, <1>12 DEF PollEnqueue, Effects, Leave, Stall, Throw, Crash, TypeOK, Calling
  <2>2. QED
    BY <1>0, <2>1, WriterFrame
<1>13. CASE UNCHANGED vars
  BY <1>0, <1>13, WriterFrame DEF vars
<1>14. QED
  BY <1>1, <1>2, <1>3, <1>4, <1>5, <1>6, <1>7, <1>8, <1>9, <1>10, <1>11, <1>12, <1>13
  DEF Next, RequestStep, CancelStep, ProcStepOf, Pick, Poll

\* Once sent or failed is on record, no retry, stall, poll or second process writes
\* another outcome: of the dispatch itself only a cancellation that had read
\* 'scheduled' before can.
THEOREM OutcomesAreFinal == Spec => OutcomeIsFinal
<1>1. Init => OneWriter
  BY DEF Init, OneWriter, Calling, Sending
<1>2. KeepsOutcomes =>
        \A m \in Mails :
          status[m] \in {"sent", "failed"} /\ ~CancelSave(m) => status'[m] = status[m]
  BY DEF KeepsOutcomes, Final, Outcome
<1>3. IInv /\ OneWriter /\ [Next]_vars =>
        /\ OneWriter'
        /\ [\A m \in Mails :
              status[m] \in {"sent", "failed"} /\ ~CancelSave(m) => status'[m] = status[m]]_vars
  BY <1>2, OutcomeStep
<1>4. QED
  BY <1>1, <1>3, Inductive, PTL DEF Spec, OutcomeIsFinal
=============================================================================
