--------------------------- MODULE TallyPush_proofs ---------------------------
(***************************************************************************)
(* For any number of rows, drains, overlapping polls and flushes, timeouts and   *)
(* faults: a row reported as pushed had a post answered with a 2xx, XML waits in  *)
(* the queue file until a flush had one, every job goes through ClaimedWork, and  *)
(* without faults the outbox and the jobs tell one story.                     *)
(***************************************************************************)
EXTENDS TallyPush, WellFoundedInduction, TLAPS

\* An acknowledgement of success is on its way only after a 2xx.
Reported ==
    /\ ProcessedIsAnswered
    /\ \A j \in JobIds : ack[<<j, TRUE>>] # "none" => j \in answered

\* The items a flush has not settled yet.
InHand(f) == flush[f].items \cup flush[f].left
             \cup (IF flush[f].step = "post" THEN {flush[f].job} ELSE {})

\* What a flush has not settled yet is still in its hands.
Kept ==
    /\ KeptUntilAnswered
    /\ \A f \in Flushes : flush[f].step # "idle" => safe \subseteq InHand(f) \cup flushed

\* The jobs a poll has to post, or is posting.
Own(p) == poll[p].mine \cup (IF poll[p].step \in {"wait", "post"} THEN {poll[p].job} ELSE {})

\* A drain creates a job once, for the rows it has left.
DrainsOnce ==
    \A d \in Drains, r \in Rows :
        /\ drain[d].step \in {"idle", "find"} \/ r \in drain[d].todo => job[<<d, r>>] = "none"
        /\ drain[d].step = "create" => drain[d].todo # {}

\* A job that is claimed has one owner, or was lost, or is being acknowledged; it
\* is posted while its owner posts it.
OwnedOnce ==
    /\ \A p, q \in Polls : p # q => Own(p) \cap Own(q) = {}
    /\ \A p \in Polls : poll[p].step \in {"wait", "post"} => poll[p].job \notin poll[p].mine
    /\ \A p \in Polls : \A j \in Own(p) :
         /\ job[j] = "running"
         /\ \A ok \in BOOLEAN : ack[<<j, ok>>] = "none"
         /\ ~(poll[p].step = "post" /\ poll[p].job = j) => posted[j] = 0
Acknowledged ==
    /\ \A j \in JobIds, ok \in BOOLEAN :
         ack[<<j, ok>>] # "none" => job[j] \in {"running", "succeeded", "failed"}
    /\ \A p \in Polls : poll[p].step \in {"acking", "lastAck"} =>
         /\ job[poll[p].job] \in {"running", "succeeded", "failed"}
         /\ \A q \in Polls : poll[p].job \notin Own(q)
PostedOnce ==
    \A j \in JobIds : /\ posted[j] <= 1
                      /\ job[j] \in {"none", "queued"} => posted[j] = 0

\* The inductive invariants of the three results.
Exclusive == DrainsOnce /\ OwnedOnce /\ Acknowledged /\ PostedOnce

\* The parts of a job.
LEMMA JobParts ==
  \A j \in JobIds : j[1] \in Drains /\ j[2] \in Rows /\ j = <<j[1], j[2]>>
  BY DEF JobIds
LEMMA JobOf == \A d \in Drains, r \in Rows : <<d, r>> \in JobIds
  BY DEF JobIds

\* A drain with rows left has a first one.
LessThan == {ss \in Nat \X Nat : ss[1] < ss[2]}
LEMMA LeastIn == ASSUME NEW S \in SUBSET Rows, S # {} PROVE Least(S) \in S
<1>1. S \subseteq Nat
  BY PushAssumption
<1>2. IsWellFoundedOn(LessThan, Nat)
  BY NatLessThanWellFounded DEF OpToRel, LessThan
<1>3. PICK x \in S : \A y \in S : ~(<<y, x>> \in LessThan)
  BY <1>1, <1>2, WFMin
<1>4. ASSUME NEW y \in S PROVE x <= y
  <2>1. x \in Nat /\ y \in Nat
    BY <1>1
  <2>2. ~(y < x)
    BY <1>3, <2>1 DEF LessThan
  <2>3. QED
    BY <2>1, <2>2
<1>5. QED
  BY <1>4 DEF Least

\* There is a job.
LEMMA SomeJob == NoJob \in JobIds
<1>1. PICK d \in Drains, r \in Rows : TRUE
  BY PushAssumption
<1>2. <<d, r>> \in JobIds
  BY DEF JobIds
<1>3. QED
  BY <1>2 DEF NoJob

\* There is a row.
LEMMA SomeRow == \E r \in Rows : TRUE
  BY PushAssumption

\* Nothing is under way at the beginning.
LEMMA PushInit == Init => TypeOK /\ Reported /\ Kept /\ Exclusive
<1> SUFFICES ASSUME Init PROVE TypeOK /\ Reported /\ Kept /\ Exclusive
  OBVIOUS
<1>2. TypeOK
  BY SomeJob, PushAssumption DEF Init, TypeOK, Drain, Poll, Flush, IdlePoll, IdleFlush
<1>3. Reported /\ Kept
  BY DEF Init, Reported, ProcessedIsAnswered, Kept, KeptUntilAnswered, IdleFlush
<1>4. Exclusive
  BY JobOf DEF Init, Exclusive, DrainsOnce, OwnedOnce, Acknowledged, PostedOnce, Own, IdlePoll
<1>5. QED
  BY <1>2, <1>3, <1>4

\* Every step keeps the types.
LEMMA TypesStep == TypeOK /\ [Next]_vars => TypeOK'
<1> SUFFICES ASSUME TypeOK, [Next]_vars PROVE TypeOK'
  OBVIOUS
<1>n. MaxFaults \in Nat /\ MaxTimeouts \in Nat
  BY PushAssumption
<1>l. \A d \in Drains : drain[d].todo # {} => Least(drain[d].todo) \in drain[d].todo
  BY LeastIn DEF TypeOK, Drain
<1>p. \A p \in Polls : poll[p] \in Poll /\ poll[p].job \in JobIds
  BY DEF TypeOK, Poll
<1>f. \A f \in Flushes : flush[f] \in Flush /\ flush[f].job \in JobIds
  BY DEF TypeOK, Flush
<1>a. ASSUME NEW p \in Polls, NEW ok \in BOOLEAN, NEW step \in {"acking", "lastAck"},
             SendAck(p, ok, step)
      PROVE /\ ack' \in [JobIds \X BOOLEAN -> {"none", "outbox", "job"}]
            /\ poll' \in [Polls -> Poll] /\ UNCHANGED <<row, job, drain>>
  <2>1. UNCHANGED <<row, job, drain>> /\ poll' \in [Polls -> Poll]
    BY <1>a, <1>p DEF TypeOK, Poll, SendAck
  <2>2. ack' \in [JobIds \X BOOLEAN -> {"none", "outbox", "job"}]
    BY <1>a DEF TypeOK, SendAck
  <2>3. QED
    BY <2>1, <2>2
<1>q. {j \in JobIds : job[j] = "queued"} \in SUBSET JobIds
  OBVIOUS
<1>t. "claim" \in {"idle", "claim", "next", "wait", "post", "acking", "lastAck"}
  OBVIOUS
<1> USE DEF TypeOK, Drain, Poll, Flush, IdlePoll, IdleFlush, Fault, Draining,
            DrainTo, Polling, Flushing, cloud, agent, history
<1>1. ASSUME NEW d \in Drains, Trigger(d) PROVE TypeOK'
  BY <1>1, <1>n DEF Trigger
<1>2. ASSUME NEW d \in Drains, FindPending(d) PROVE TypeOK'
  BY <1>2, <1>n DEF FindPending
<1>3. ASSUME NEW d \in Drains, RefuseRow(d) PROVE TypeOK'
  BY <1>3, <1>n, <1>l DEF RefuseRow
<1>4. ASSUME NEW d \in Drains, MarkProcessing(d) PROVE TypeOK'
  BY <1>4, <1>n, <1>l DEF MarkProcessing
<1>5. ASSUME NEW d \in Drains, CreateJob(d) PROVE TypeOK'
  BY <1>5, <1>n, <1>l, JobOf DEF CreateJob
<1>6. ASSUME NEW d \in Drains, EndDrain(d) PROVE TypeOK'
  BY <1>6, <1>n DEF EndDrain
<1>7. ASSUME NEW d \in Drains, DrainLost(d) PROVE TypeOK'
  BY <1>7, <1>n DEF DrainLost
<1>8. ASSUME NEW p \in Polls, FindQueued(p) PROVE TypeOK'
  <2> DEFINE found == {j \in JobIds : job[j] = "queued"}
  <2>1. found \in SUBSET JobIds
    OBVIOUS
  <2>2. poll' = [poll EXCEPT ![p].step = "claim", ![p].todo = found]
    BY <1>8 DEF FindQueued
  <2> HIDE DEF found
  <2>3. [poll[p] EXCEPT !.step = "claim", !.todo = found] \in Poll
    BY <1>p, <2>1
  <2>4. poll' \in [Polls -> Poll]
    BY <2>2, <2>3
  <2>5. QED
    BY <1>8, <2>4 DEF FindQueued
<1>9. ASSUME NEW p \in Polls, NEW j \in JobIds, Claim(p, j) PROVE TypeOK'
  <2>1. poll' \in [Polls -> Poll]
    <3> DEFINE lost == [poll[p] EXCEPT !.todo = poll[p].todo \ {j}]
               won == [poll[p] EXCEPT !.todo = poll[p].todo \ {j},
                                      !.mine = poll[p].mine \cup {j}]
    <3>1. lost \in Poll /\ won \in Poll
      BY <1>p
    <3>2. CASE job[j] = "queued"
      <4>1. poll' = [poll EXCEPT ![p] = won]
        BY <1>9, <3>2 DEF Claim
      <4>2. QED
        BY <3>1, <4>1
    <3>3. CASE job[j] # "queued"
      <4>1. poll' = [poll EXCEPT ![p] = lost]
        BY <1>9, <3>3 DEF Claim
      <4>2. QED
        BY <3>1, <4>1
    <3>4. QED
      BY <3>2, <3>3
  <2>2. job' \in [JobIds -> {"none", "queued", "running", "succeeded", "failed"}]
    BY <1>9 DEF Claim
  <2>3. QED
    BY <1>9, <2>1, <2>2 DEF Claim
<1>10. ASSUME NEW p \in Polls, Deliver(p) PROVE TypeOK'
  <2>1. [poll[p] EXCEPT !.step = "next"] \in Poll
    BY <1>p
  <2>2. poll' \in [Polls -> Poll]
    BY <1>10, <2>1 DEF Deliver
  <2>3. QED
    BY <1>10, <2>2 DEF Deliver
<1>11. ASSUME NEW p \in Polls, PollLost(p) PROVE TypeOK'
  BY <1>11, <1>n, SomeJob DEF PollLost
<1>12. ASSUME NEW p \in Polls, NEW j \in JobIds, Handle(p, j) PROVE TypeOK'
  BY <1>12, <1>n DEF Handle
<1>13. ASSUME NEW p \in Polls, EndPoll(p) PROVE TypeOK'
  BY <1>13, <1>n, SomeJob DEF EndPoll
<1>14. ASSUME NEW p \in Polls, NotRunning(p) PROVE TypeOK'
  BY <1>14, <1>n, <1>a DEF NotRunning
<1>15. ASSUME NEW p \in Polls, StartPost(p) PROVE TypeOK'
  <2>1. posted' \in [JobIds -> Nat]
    BY <1>15, <1>p DEF StartPost
  <2>2. poll' \in [Polls -> Poll]
    BY <1>15, <1>p DEF StartPost
  <2>3. QED
    BY <1>15, <2>1, <2>2 DEF StartPost
<1>16. ASSUME NEW p \in Polls, PostAnswered(p) PROVE TypeOK'
  BY <1>16, <1>n, <1>a, <1>p DEF PostAnswered
<1>17. ASSUME NEW p \in Polls, PostRefused(p) PROVE TypeOK'
  BY <1>17, <1>n, <1>a DEF PostRefused
<1>18. ASSUME NEW p \in Polls, PostThrows(p) PROVE TypeOK'
  <2>1. /\ ack' \in [JobIds \X BOOLEAN -> {"none", "outbox", "job"}]
        /\ poll' \in [Polls -> Poll]
        /\ UNCHANGED <<row, job, drain, flush, posted, answered, flushed, faults>>
    BY <1>18, <1>a DEF PostThrows
  <2>3. offline' \subseteq JobIds /\ safe' \subseteq JobIds
    BY <1>18, <1>p DEF PostThrows
  <2>4. timeouts' \in 0 .. MaxTimeouts
    BY <1>18, <1>n DEF PostThrows
  <2>5. QED
    BY <2>1, <2>3, <2>4
<1>19. ASSUME NEW p \in Polls, AckAnswered(p) PROVE TypeOK'
  <2>1. [poll[p] EXCEPT !.step = "next"] \in Poll
    BY <1>p
  <2>2. poll' \in [Polls -> Poll]
    BY <1>19, <2>1 DEF AckAnswered
  <2>3. QED
    BY <1>19, <2>2 DEF AckAnswered
<1>20. ASSUME NEW p \in Polls, AckThrows(p) PROVE TypeOK'
  <2>1. ack' \in [JobIds \X BOOLEAN -> {"none", "outbox", "job"}]
    <3>1. <<poll[p].job, FALSE>> \in JobIds \X BOOLEAN
      BY <1>p
    <3>2. <<poll[p].job, poll[p].ok>> \in JobIds \X BOOLEAN
      BY <1>p
    <3>3. ack[<<poll[p].job, poll[p].ok>>] \in {"none", "outbox", "job"}
      BY <3>2
    <3>4. QED
      BY <1>20, <3>1, <3>2, <3>3 DEF AckThrows
  <2>2. poll' \in [Polls -> Poll]
    <3>1. [poll[p] EXCEPT !.step = "lastAck", !.ok = FALSE] \in Poll
      BY <1>p
    <3>2. [poll[p] EXCEPT !.step = "next"] \in Poll
      BY <1>p
    <3>3. \/ poll' = [poll EXCEPT ![p] = [poll[p] EXCEPT !.step = "lastAck", !.ok = FALSE]]
          \/ poll' = [poll EXCEPT ![p] = [poll[p] EXCEPT !.step = "next"]]
      BY <1>20 DEF AckThrows
    <3>4. QED
      BY <3>1, <3>2, <3>3
  <2>3. faults' \in 0 .. MaxFaults
    BY <1>20, <1>n DEF AckThrows
  <2>4. QED
    BY <1>20, <2>1, <2>2, <2>3 DEF AckThrows
<1>21. ASSUME NEW j \in JobIds, NEW ok \in BOOLEAN, AckOutbox(j, ok) PROVE TypeOK'
  BY <1>21, <1>n, JobParts DEF AckOutbox
<1>22. ASSUME NEW j \in JobIds, NEW ok \in BOOLEAN, AckOutboxFails(j, ok) PROVE TypeOK'
  BY <1>22, <1>n DEF AckOutboxFails
<1>23. ASSUME NEW j \in JobIds, NEW ok \in BOOLEAN, AckJob(j, ok) PROVE TypeOK'
  BY <1>23, <1>n DEF AckJob
<1>24. ASSUME NEW j \in JobIds, NEW ok \in BOOLEAN, AckLost(j, ok) PROVE TypeOK'
  BY <1>24, <1>n DEF AckLost
<1>25. ASSUME NEW f \in Flushes, StartFlush(f) PROVE TypeOK'
  <2>1. [flush[f] EXCEPT !.step = "items", !.items = offline] \in Flush
    BY <1>f
  <2>2. flush' \in [Flushes -> Flush]
    BY <1>25, <2>1 DEF StartFlush
  <2>3. QED
    BY <1>25, <2>2 DEF StartFlush
<1>26. ASSUME NEW f \in Flushes, NEW j \in JobIds, FlushPost(f, j) PROVE TypeOK'
  <2>1. [flush[f] EXCEPT !.step = "post", !.items = @ \ {j}, !.job = j] \in Flush
    BY <1>f
  <2>2. flush' \in [Flushes -> Flush]
    BY <1>26, <2>1 DEF FlushPost
  <2>3. QED
    BY <1>26, <2>2 DEF FlushPost
<1>27. ASSUME NEW f \in Flushes, FlushAnswered(f) PROVE TypeOK'
  <2>1. [flush[f] EXCEPT !.step = "items"] \in Flush
    BY <1>f
  <2>2. flush' \in [Flushes -> Flush]
    BY <1>27, <2>1 DEF FlushAnswered
  <2>3. QED
    BY <1>27, <1>f, <2>2 DEF FlushAnswered
<1>28. ASSUME NEW f \in Flushes, FlushRefused(f) PROVE TypeOK'
  <2>1. [flush[f] EXCEPT !.step = "items", !.left = @ \cup {flush[f].job}] \in Flush
    BY <1>f
  <2>2. flush' \in [Flushes -> Flush]
    BY <1>28, <2>1 DEF FlushRefused
  <2>3. QED
    BY <1>28, <2>2 DEF FlushRefused
<1>29. ASSUME NEW f \in Flushes, EndFlush(f) PROVE TypeOK'
  <2>1. IdleFlush \in Flush /\ flush[f].left \subseteq JobIds
    BY <1>f, SomeJob
  <2>2. flush' \in [Flushes -> Flush]
    BY <1>29, <2>1 DEF EndFlush
  <2>3. QED
    BY <1>29, <2>1, <2>2 DEF EndFlush
<1>30. ASSUME AgentCrash PROVE TypeOK'
  <2>1. offline' \subseteq JobIds /\ safe' \subseteq JobIds
    BY <1>30, <1>f DEF AgentCrash, CutShort
  <2>2. QED
    BY <1>30, <1>n, <2>1, SomeJob DEF AgentCrash
<1>31. CASE UNCHANGED vars
  BY <1>31 DEF vars
<1> HIDE DEF TypeOK, Drain, Poll, Flush
<1>32. QED
  BY <1>1, <1>2, <1>3, <1>4, <1>5, <1>6, <1>7, <1>8, <1>9, <1>10, <1>11, <1>12,
     <1>13, <1>14, <1>15, <1>16, <1>17, <1>18, <1>19, <1>20, <1>21, <1>22, <1>23,
     <1>24, <1>25, <1>26, <1>27, <1>28, <1>29, <1>30, <1>31
  DEF Next, DrainStep, PollStep, AckStep, FlushStep

\* A 2xx that came stays told.
LEMMA AnswersStay == [Next]_vars => answered \subseteq answered' /\ flushed \subseteq flushed'
<1> SUFFICES ASSUME [Next]_vars PROVE answered \subseteq answered' /\ flushed \subseteq flushed'
  OBVIOUS
<1>1. CASE \E f \in Flushes : FlushStep(f)
  BY <1>1
  DEF FlushStep, StartFlush, EndFlush, FlushPost, FlushAnswered, FlushRefused, history
<1>2. CASE \E p \in Polls : PollStep(p) \/ PollLost(p) \/ PostThrows(p) \/ AckThrows(p)
  BY <1>2
  DEF PollStep, FindQueued, Deliver, EndPoll, Claim, Handle, NotRunning, StartPost,
      PostAnswered, PostRefused, AckAnswered, PollLost, PostThrows, AckThrows, history
<1>3. CASE AgentCrash
  BY <1>3 DEF AgentCrash
<1>4. QED
  BY <1>1, <1>2, <1>3
  DEF Next, DrainStep, Trigger, FindPending, RefuseRow, MarkProcessing, CreateJob, EndDrain,
      DrainLost, AckStep, AckOutbox, AckJob, AckOutboxFails, AckLost, history, vars

\* Every step keeps the reports true.
LEMMA ReportedStep == TypeOK /\ Reported /\ [Next]_vars => Reported'
<1> SUFFICES ASSUME TypeOK, Reported, [Next]_vars PROVE Reported'
  OBVIOUS
<1>i. answered \subseteq answered'
  BY AnswersStay
<1>j. \A p \in Polls : poll[p].job \in JobIds
  BY DEF TypeOK, Poll
<1>q. ASSUME \A r \in Rows : row'[r] = row[r] \/ row'[r] # "processed",
             \A j \in JobIds : ack'[<<j, TRUE>>] \in {ack[<<j, TRUE>>], "none"}
      PROVE Reported'
  BY <1>i, <1>q, JobParts DEF Reported, ProcessedIsAnswered
<1> USE DEF TypeOK
<1>1. ASSUME NEW p \in Polls, PostAnswered(p) PROVE Reported'
  <2>1. poll[p].job \in answered'
    BY <1>1 DEF PostAnswered
  <2>2. /\ ack' = [ack EXCEPT ![<<poll[p].job, TRUE>>] = "outbox"] /\ UNCHANGED row
    BY <1>1 DEF PostAnswered, SendAck
  <2>3. \A j \in JobIds : j # poll[p].job => ack'[<<j, TRUE>>] = ack[<<j, TRUE>>]
    BY <2>2
  <2>4. QED
    BY <1>i, <2>1, <2>2, <2>3, JobParts DEF Reported, ProcessedIsAnswered
<1>2. ASSUME NEW j \in JobIds, NEW ok \in BOOLEAN, AckOutbox(j, ok) PROVE Reported'
  <2>1. CASE ok
    <3>1. <<j[1], j[2]>> \in answered /\ j[1] \in Drains
      BY <1>2, <2>1, JobParts DEF AckOutbox, Reported
    <3>2. /\ row' = [row EXCEPT ![j[2]] = "processed"] /\ UNCHANGED answered
          /\ ack' = [ack EXCEPT ![<<j, ok>>] = "job"] /\ ack[<<j, TRUE>>] # "none"
      BY <1>2, <2>1 DEF AckOutbox, history
    <3>3. \A k \in JobIds : ack'[<<k, TRUE>>] # "none" => ack[<<k, TRUE>>] # "none"
      BY <3>2
    <3>4. QED
      BY <3>1, <3>2, <3>3, JobParts DEF Reported, ProcessedIsAnswered
  <2>2. CASE ~ok
    BY <1>2, <1>q, <2>2, JobParts DEF AckOutbox
  <2>3. QED
    BY <2>1, <2>2
<1>3. ASSUME NEW j \in JobIds, NEW ok \in BOOLEAN, AckOutboxFails(j, ok) PROVE Reported'
  <2>1. /\ ack' = [ack EXCEPT ![<<j, ok>>] = "job"] /\ ack[<<j, ok>>] # "none"
        /\ UNCHANGED <<row, answered>>
    BY <1>3 DEF AckOutboxFails, history
  <2>2. \A k \in JobIds : ack'[<<k, TRUE>>] # "none" => ack[<<k, TRUE>>] # "none"
    BY <2>1
  <2>3. QED
    BY <2>1, <2>2, JobParts DEF Reported, ProcessedIsAnswered
<1>4. ASSUME NEW j \in JobIds, NEW ok \in BOOLEAN, AckJob(j, ok) \/ AckLost(j, ok) PROVE Reported'
  BY <1>4, <1>q DEF AckJob, AckLost
<1>5. ASSUME NEW p \in Polls, NotRunning(p) \/ PostRefused(p) \/ PostThrows(p) \/ AckThrows(p)
      PROVE Reported'
  <2>1. UNCHANGED row
    BY <1>5 DEF NotRunning, PostRefused, PostThrows, AckThrows, SendAck
  <2>2. ASSUME NEW j \in JobIds PROVE ack'[<<j, TRUE>>] \in {ack[<<j, TRUE>>], "none"}
    <3>1. CASE NotRunning(p) \/ PostRefused(p) \/ PostThrows(p)
      BY <3>1 DEF NotRunning, PostRefused, PostThrows, SendAck
    <3>2. CASE AckThrows(p)
      <4>1. CASE UNCHANGED ack
        BY <4>1
      <4>2. CASE ~UNCHANGED ack
        <5> DEFINE a == <<poll[p].job, poll[p].ok>>
                   f == <<poll[p].job, FALSE>>
        <5>1. PICK lost \in BOOLEAN :
                ack' = [ack EXCEPT ![a] = IF lost THEN "none" ELSE @, ![f] = "outbox"]
          BY <3>2, <4>2 DEF AckThrows
        <5>2. <<j, TRUE>> # f /\ <<j, TRUE>> \in DOMAIN ack
          BY DEF TypeOK
        <5>3. QED
          BY <5>1, <5>2
      <4>3. QED
        BY <4>1, <4>2
    <3>3. QED
      BY <1>5, <3>1, <3>2
  <2>3. QED
    BY <1>q, <2>1, <2>2
<1>6. ASSUME NEW d \in Drains, RefuseRow(d) \/ MarkProcessing(d) PROVE Reported'
  BY <1>6, <1>q DEF RefuseRow, MarkProcessing
<1>7. CASE UNCHANGED <<row, ack>>
  BY <1>7, <1>q
<1>8. QED
  BY <1>1, <1>2, <1>3, <1>4, <1>5, <1>6, <1>7
  DEF Next, DrainStep, PollStep, AckStep, FlushStep, Trigger, FindPending, CreateJob,
      EndDrain, DrainLost, FindQueued, Deliver, EndPoll, Claim, Handle, StartPost, AckAnswered,
      PollLost, StartFlush, EndFlush, FlushPost, FlushAnswered, FlushRefused, AgentCrash, cloud,
      vars

\* Every step keeps the waiting XML.
LEMMA KeptStep == TypeOK /\ Kept /\ [Next]_vars => Kept'
<1> SUFFICES ASSUME TypeOK, Kept, [Next]_vars PROVE Kept'
  OBVIOUS
<1>i. flushed \subseteq flushed'
  BY AnswersStay
<1> USE DEF Kept, KeptUntilAnswered
<1>1. ASSUME NEW p \in Polls, PostThrows(p) PROVE Kept'
  <2>1. /\ UNCHANGED <<flush, flushed>> /\ offline' = offline \cup {poll[p].job}
        /\ \/ safe' = safe
           \/ /\ safe' = safe \cup {poll[p].job}
              /\ \A f \in Flushes : flush[f].step = "idle"
    BY <1>1 DEF PostThrows
  <2>2. \A f \in Flushes : InHand(f)' = InHand(f)
    BY <2>1 DEF InHand
  <2>3. QED
    BY <2>1, <2>2
<1>2. ASSUME NEW f \in Flushes, StartFlush(f) \/ (\E j \in JobIds : FlushPost(f, j))
      PROVE Kept'
  <2>1. UNCHANGED <<offline, safe, flushed>> /\ \A g \in Flushes \ {f} : flush'[g] = flush[g]
    BY <1>2 DEF StartFlush, FlushPost, history, TypeOK
  <2>2. safe \subseteq InHand(f)' \cup flushed
    <3>1. flush[f] \in Flush
      BY DEF TypeOK
    <3>2. CASE StartFlush(f)
      <4>1. flush'[f] = [flush[f] EXCEPT !.step = "items", !.items = offline]
        BY <3>2 DEF StartFlush, TypeOK
      <4>2. flush'[f].items = offline
        BY <3>1, <4>1 DEF Flush
      <4>3. QED
        BY <2>1, <4>2 DEF InHand
    <3>3. ASSUME NEW j \in JobIds, FlushPost(f, j) PROVE safe \subseteq InHand(f)' \cup flushed
      <4>1. flush'[f] = [flush[f] EXCEPT !.step = "post", !.items = flush[f].items \ {j}, !.job = j]
        BY <3>3 DEF FlushPost, TypeOK
      <4>2. /\ flush'[f].step = "post" /\ flush'[f].job = j /\ flush'[f].left = flush[f].left
            /\ flush'[f].items = flush[f].items \ {j}
        BY <3>1, <4>1 DEF Flush
      <4>3. safe \subseteq flush[f].items \cup flush[f].left \cup flushed
        BY <3>3 DEF FlushPost, Flushing, InHand
      <4>4. QED
        BY <4>2, <4>3 DEF InHand
    <3>4. QED
      BY <1>2, <3>2, <3>3
  <2>3. \A g \in Flushes \ {f} : InHand(g)' = InHand(g)
    BY <2>1 DEF InHand
  <2>4. QED
    BY <2>1, <2>2, <2>3
<1>3. ASSUME NEW f \in Flushes, FlushAnswered(f) \/ FlushRefused(f) PROVE Kept'
  <2>1. UNCHANGED <<offline, safe>> /\ \A g \in Flushes \ {f} : flush'[g] = flush[g]
    BY <1>3 DEF FlushAnswered, FlushRefused, history, TypeOK
  <2>2. safe \subseteq InHand(f)' \cup flushed'
    <3>1. CASE FlushAnswered(f)
      BY <3>1 DEF FlushAnswered, Flushing, InHand, TypeOK, Flush
    <3>2. CASE FlushRefused(f)
      BY <3>2 DEF FlushRefused, Flushing, InHand, TypeOK, Flush, history
    <3>3. QED
      BY <1>3, <3>1, <3>2
  <2>3. \A g \in Flushes \ {f} : InHand(g)' = InHand(g)
    BY <2>1 DEF InHand
  <2>4. QED
    BY <1>i, <2>1, <2>2, <2>3
<1>4. ASSUME NEW f \in Flushes, EndFlush(f) PROVE Kept'
  <2>1. safe \subseteq flush[f].left \cup flushed
    BY <1>4 DEF EndFlush, Flushed, Flushing, InHand
  <2>2. offline' = flush[f].left /\ UNCHANGED <<safe, flushed>>
    BY <1>4 DEF EndFlush, history
  <2>3. flush'[f].step = "idle" /\ \A g \in Flushes \ {f} : flush'[g] = flush[g]
    BY <1>4 DEF EndFlush, IdleFlush, TypeOK
  <2>4. \A g \in Flushes \ {f} : InHand(g)' = InHand(g)
    BY <2>3 DEF InHand
  <2>5. QED
    BY <2>1, <2>2, <2>3, <2>4
<1>6. CASE AgentCrash
  <2>1. \A f \in Flushes : flush'[f].step = "idle"
    BY <1>6 DEF AgentCrash, IdleFlush
  <2>2. safe' \subseteq offline' \cup flushed /\ UNCHANGED flushed
    BY <1>6 DEF AgentCrash, CutShort
  <2>3. QED
    BY <2>1, <2>2
<1>7. CASE UNCHANGED <<flush, offline, safe>>
  <2>1. \A f \in Flushes : InHand(f)' = InHand(f)
    BY <1>7 DEF InHand
  <2>2. QED
    BY <1>7, <1>i, <2>1
<1>8. QED
  BY <1>1, <1>2, <1>3, <1>4, <1>6, <1>7
  DEF Next, DrainStep, PollStep, AckStep, FlushStep, Trigger, FindPending, RefuseRow,
      MarkProcessing, CreateJob, EndDrain, DrainLost, FindQueued, Deliver, EndPoll, Claim,
      Handle, NotRunning, StartPost, PostAnswered, PostRefused, AckAnswered, AckThrows, PollLost,
      AckOutbox, AckOutboxFails, AckJob, AckLost, agent, history, vars

-----------------------------------------------------------------------------
(* Every job goes through ClaimedWork.                                     *)

Begun == {"running", "succeeded", "failed"}

\* What a poll loses, another does not gain.
Gives(p) ==
    /\ \A q \in Polls \ {p} : poll'[q] = poll[q]
    /\ Own(p)' \subseteq Own(p)
    /\ poll'[p].step \in {"wait", "post"} => poll'[p].job \notin poll'[p].mine
    /\ \A j \in Own(p)' : poll[p].step = "post" /\ poll[p].job = j
                            => poll'[p].step = "post" /\ poll'[p].job = j

\* New acknowledgements are for jobs that are claimed and that no poll owns.
AcksBegun ==
    \A j \in JobIds, ok \in BOOLEAN :
        \/ ack'[<<j, ok>>] = "none" \/ ack[<<j, ok>>] # "none"
        \/ job[j] \in Begun /\ \A q \in Polls : j \notin Own(q)'

\* A poll that moves on without a claim or a post.
LEMMA MoveStep ==
  ASSUME TypeOK, TypeOK', Exclusive, NEW p \in Polls, Gives(p), AcksBegun,
         UNCHANGED <<job, drain, posted>>,
         poll'[p].step \in {"acking", "lastAck"} =>
            job[poll'[p].job] \in Begun /\ \A q \in Polls : poll'[p].job \notin Own(q)'
  PROVE  Exclusive'
<1>1. \A q \in Polls \ {p} : Own(q)' = Own(q) /\ poll'[q] = poll[q]
  BY DEF Gives, Own
<1>2. \A q \in Polls : Own(q)' \subseteq Own(q)
  BY <1>1 DEF Gives
<1>3. DrainsOnce' /\ PostedOnce'
  BY DEF Exclusive, DrainsOnce, PostedOnce
<1>4. OwnedOnce'
  <2>1. \A x, y \in Polls : x # y => Own(x)' \cap Own(y)' = {}
    BY <1>2 DEF Exclusive, OwnedOnce
  <2>2. \A x \in Polls : poll'[x].step \in {"wait", "post"} => poll'[x].job \notin poll'[x].mine
    BY <1>1 DEF Exclusive, OwnedOnce, Gives
  <2>3. ASSUME NEW x \in Polls, NEW j \in Own(x)'
        PROVE  /\ job'[j] = "running"
               /\ \A ok \in BOOLEAN : ack'[<<j, ok>>] = "none"
               /\ ~(poll'[x].step = "post" /\ poll'[x].job = j) => posted'[j] = 0
    <3>1. j \in Own(x) /\ j \in JobIds
      BY <1>2, <2>3 DEF TypeOK, Poll, Own
    <3>2. /\ job[j] = "running" /\ (\A ok \in BOOLEAN : ack[<<j, ok>>] = "none")
          /\ ~(poll[x].step = "post" /\ poll[x].job = j) => posted[j] = 0
      BY <3>1 DEF Exclusive, OwnedOnce
    <3>3. \A ok \in BOOLEAN : ack'[<<j, ok>>] = "none"
      BY <2>3, <3>1, <3>2 DEF AcksBegun
    <3>4. (poll[x].step = "post" /\ poll[x].job = j)
            => (poll'[x].step = "post" /\ poll'[x].job = j)
      BY <1>1, <2>3 DEF Gives
    <3>5. QED
      BY <3>2, <3>3, <3>4
  <2>4. QED
    BY <2>1, <2>2, <2>3 DEF OwnedOnce
<1>5. Acknowledged'
  <2>1. \A j \in JobIds, ok \in BOOLEAN : ack'[<<j, ok>>] # "none" => job'[j] \in Begun
    BY DEF Exclusive, Acknowledged, AcksBegun, Begun
  <2>2. ASSUME NEW x \in Polls, poll'[x].step \in {"acking", "lastAck"}
        PROVE  job'[poll'[x].job] \in Begun /\ \A q \in Polls : poll'[x].job \notin Own(q)'
    BY <1>1, <1>2, <2>2 DEF Exclusive, Acknowledged, Begun
  <2>3. QED
    BY <2>1, <2>2 DEF Acknowledged, Begun
<1>6. QED
  BY <1>3, <1>4, <1>5 DEF Exclusive

\* The polls stay; jobs and acknowledgements change where no poll owns the job.
LEMMA ServerStep ==
  ASSUME TypeOK, TypeOK', Exclusive, UNCHANGED <<poll, posted>>, DrainsOnce',
         \A j \in JobIds : job'[j] # job[j] =>
            /\ job[j] # "running" \/ \E ok \in BOOLEAN : ack[<<j, ok>>] # "none"
            /\ (job'[j] \in Begun /\ job[j] \in Begun) \/ job[j] = "none",
         \A j \in JobIds, ok \in BOOLEAN : ack'[<<j, ok>>] # "none" => ack[<<j, ok>>] # "none"
  PROVE  Exclusive'
<1>1. \A q \in Polls : Own(q)' = Own(q)
  BY DEF Own
<1>2. \A q \in Polls : \A j \in Own(q) : j \in JobIds /\ job'[j] = job[j]
  <2>1. \A q \in Polls : Own(q) \subseteq JobIds
    BY DEF TypeOK, Poll, Own
  <2>2. QED
    BY <2>1 DEF Exclusive, OwnedOnce
<1>3. OwnedOnce'
  BY <1>1, <1>2 DEF Exclusive, OwnedOnce
<1>4. Acknowledged'
  <2>1. \A q \in Polls : poll[q].job \in JobIds
    BY DEF TypeOK, Poll
  <2>2. \A j \in JobIds : job[j] \in Begun => job'[j] \in Begun
    BY DEF Begun
  <2>3. \A j \in JobIds, ok \in BOOLEAN : ack'[<<j, ok>>] # "none" => job'[j] \in Begun
    BY <2>2 DEF Exclusive, Acknowledged, Begun
  <2>4. \A q \in Polls : poll[q].step \in {"acking", "lastAck"} =>
           job'[poll[q].job] \in Begun /\ \A x \in Polls : poll[q].job \notin Own(x)'
    BY <1>1, <2>1, <2>2 DEF Exclusive, Acknowledged, Begun
  <2>5. QED
    BY <2>3, <2>4 DEF Acknowledged, Begun
<1>5. PostedOnce'
  BY DEF Exclusive, PostedOnce, Begun
<1>6. QED
  BY <1>3, <1>4, <1>5 DEF Exclusive

\* Every step keeps the jobs exclusive.
LEMMA ExclusiveStep == TypeOK /\ TypeOK' /\ Exclusive /\ [Next]_vars => Exclusive'
<1> SUFFICES ASSUME TypeOK, TypeOK', Exclusive, [Next]_vars PROVE Exclusive'
  OBVIOUS
<1>p. \A p \in Polls : poll[p] \in Poll /\ poll[p].job \in JobIds /\ poll[p].mine \subseteq JobIds
  BY DEF TypeOK, Poll
<1>d. ASSUME UNCHANGED job, NEW d \in Drains, NEW step, NEW todo, DrainTo(d, step, todo),
             step \in {"idle", "find"} => drain[d].step \in {"idle", "find"},
             todo \subseteq drain[d].todo \/ drain[d].step = "find", todo \subseteq Rows,
             step = "create" => todo # {}
      PROVE DrainsOnce'
  BY <1>d DEF TypeOK, DrainTo, Exclusive, DrainsOnce
<1>s. ASSUME UNCHANGED <<poll, posted, job, ack>>, DrainsOnce' PROVE Exclusive'
  BY <1>s, ServerStep
<1>k. ASSUME UNCHANGED <<poll, posted, drain, job>>,
             \A j \in JobIds, ok \in BOOLEAN : ack'[<<j, ok>>] # "none" => ack[<<j, ok>>] # "none"
      PROVE Exclusive'
  <2>1. DrainsOnce'
    BY <1>k DEF Exclusive, DrainsOnce
  <2>2. QED
    BY <1>k, <2>1, ServerStep
<1>1. ASSUME NEW d \in Drains, Trigger(d) PROVE Exclusive'
  BY <1>1, <1>d, <1>s DEF Trigger, Draining, agent, history, TypeOK, Drain
<1>2. ASSUME NEW d \in Drains, FindPending(d) PROVE Exclusive'
  BY <1>2, <1>d, <1>s DEF FindPending, Draining, agent, history, TypeOK, Drain
<1>3. ASSUME NEW d \in Drains, RefuseRow(d) PROVE Exclusive'
  BY <1>3, <1>d, <1>s DEF RefuseRow, Draining, agent, history, TypeOK, Drain
<1>4. ASSUME NEW d \in Drains, MarkProcessing(d) PROVE Exclusive'
  BY <1>4, <1>d, <1>s DEF MarkProcessing, Draining, agent, history, TypeOK, Drain
<1>5. ASSUME NEW d \in Drains, EndDrain(d) PROVE Exclusive'
  BY <1>5, <1>d, <1>s DEF EndDrain, Draining, agent, history, TypeOK, Drain
<1>6. ASSUME NEW d \in Drains, DrainLost(d) PROVE Exclusive'
  BY <1>6, <1>d, <1>s DEF DrainLost, Draining, agent, history, TypeOK, Drain
<1>7. ASSUME NEW d \in Drains, CreateJob(d) PROVE Exclusive'
  <2> DEFINE todo == drain[d].todo
             x == <<d, Least(todo)>>
  <2>1. Least(todo) \in todo /\ todo \subseteq Rows
    <3>1. drain[d].step = "create" /\ todo \subseteq Rows
      BY <1>7 DEF CreateJob, Draining, TypeOK, Drain
    <3>2. todo # {}
      BY <3>1, SomeRow DEF Exclusive, DrainsOnce
    <3>3. QED
      BY <3>1, <3>2, LeastIn
  <2>2. x \in JobIds /\ job[x] = "none"
    BY <2>1, JobOf DEF Exclusive, DrainsOnce
  <2>3. /\ job' = [job EXCEPT ![x] = "queued"] /\ UNCHANGED <<poll, posted, ack>>
        /\ drain' = [drain EXCEPT ![d] = [step |-> "row", todo |-> todo \ {Least(todo)}]]
    BY <1>7 DEF CreateJob, DrainTo, agent, history
  <2>4. \A j \in JobIds : j # x => job'[j] = job[j]
    BY <2>3
  <2>5. DrainsOnce'
    <3>1. ASSUME NEW e \in Drains, NEW r \in Rows
          PROVE  /\ drain'[e].step \in {"idle", "find"} \/ r \in drain'[e].todo
                      => job'[<<e, r>>] = "none"
                 /\ drain'[e].step = "create" => drain'[e].todo # {}
      <4>1. CASE e = d
        BY <2>1, <2>3, <2>4, <4>1, JobOf DEF TypeOK, Exclusive, DrainsOnce
      <4>2. CASE e # d
        BY <2>3, <2>4, <4>2, JobOf DEF TypeOK, Exclusive, DrainsOnce
      <4>3. QED
        BY <4>1, <4>2
    <3>2. QED
      BY <3>1 DEF DrainsOnce
  <2>6. \A j \in JobIds : job'[j] # job[j] => job[j] = "none"
    BY <2>2, <2>4
  <2>7. QED
    BY <2>3, <2>5, <2>6, ServerStep
<1>8. ASSUME NEW p \in Polls, FindQueued(p) PROVE Exclusive'
  <2>1. /\ UNCHANGED <<job, ack, drain, posted>> /\ poll[p].step = "idle"
        /\ \A q \in Polls \ {p} : poll'[q] = poll[q]
        /\ poll'[p].step = "claim" /\ poll'[p].mine = poll[p].mine
    <3> DEFINE found == {k \in JobIds : job[k] = "queued"}
    <3>1. /\ UNCHANGED <<job, ack, drain, posted>> /\ poll[p].step = "idle"
          /\ poll' = [poll EXCEPT ![p].step = "claim", ![p].todo = found]
      BY <1>8 DEF FindQueued, Polling, cloud, history
    <3> HIDE DEF found
    <3>2. QED
      BY <1>p, <3>1 DEF TypeOK, Poll
  <2>2. Gives(p) /\ AcksBegun
    BY <2>1 DEF Gives, Own, AcksBegun
  <2>3. QED
    BY <2>1, <2>2, MoveStep
<1>9. ASSUME NEW p \in Polls, Deliver(p) PROVE Exclusive'
  <2>1. /\ UNCHANGED <<job, ack, drain, posted>> /\ poll[p].step = "claim"
        /\ \A q \in Polls \ {p} : poll'[q] = poll[q]
        /\ poll'[p].step = "next" /\ poll'[p].mine = poll[p].mine
    BY <1>9, <1>p DEF Deliver, Polling, cloud, history, TypeOK, Poll
  <2>2. Gives(p) /\ AcksBegun
    BY <2>1 DEF Gives, Own, AcksBegun
  <2>3. QED
    BY <2>1, <2>2, MoveStep
<1>10. ASSUME NEW p \in Polls, PollLost(p) PROVE Exclusive'
  <2>1. /\ UNCHANGED <<job, ack, drain, posted>> /\ poll[p].step = "claim"
        /\ \A q \in Polls \ {p} : poll'[q] = poll[q]
        /\ poll'[p].step = "idle" /\ poll'[p].mine = {}
    BY <1>10, <1>p DEF PollLost, Polling, cloud, history, TypeOK, Poll, IdlePoll
  <2>2. Gives(p) /\ AcksBegun
    BY <2>1 DEF Gives, Own, AcksBegun
  <2>3. QED
    BY <2>1, <2>2, MoveStep
<1>11. ASSUME NEW p \in Polls, EndPoll(p) PROVE Exclusive'
  <2>1. /\ UNCHANGED <<job, ack, drain, posted>> /\ poll[p].step = "next"
        /\ \A q \in Polls \ {p} : poll'[q] = poll[q]
        /\ poll'[p].step = "idle" /\ poll'[p].mine = {}
    BY <1>11, <1>p DEF EndPoll, Polling, cloud, history, TypeOK, Poll, IdlePoll
  <2>2. Gives(p) /\ AcksBegun
    BY <2>1 DEF Gives, Own, AcksBegun
  <2>3. QED
    BY <2>1, <2>2, MoveStep
<1>12. ASSUME NEW p \in Polls, AckAnswered(p) PROVE Exclusive'
  <2>1. /\ UNCHANGED <<job, ack, drain, posted>> /\ poll[p].step \in {"acking", "lastAck"}
        /\ \A q \in Polls \ {p} : poll'[q] = poll[q]
        /\ poll'[p].step = "next" /\ poll'[p].mine = poll[p].mine
    BY <1>12, <1>p DEF AckAnswered, Polling, cloud, history, TypeOK, Poll
  <2>2. Gives(p) /\ AcksBegun
    BY <2>1 DEF Gives, Own, AcksBegun
  <2>3. QED
    BY <2>1, <2>2, MoveStep
<1>13. ASSUME NEW p \in Polls, NEW j \in JobIds, Handle(p, j) PROVE Exclusive'
  <2>1. /\ UNCHANGED <<job, ack, drain, posted>> /\ poll[p].step = "next"
        /\ \A q \in Polls \ {p} : poll'[q] = poll[q]
        /\ poll'[p].step = "wait" /\ poll'[p].mine = poll[p].mine \ {j} /\ poll'[p].job = j /\ j \in poll[p].mine
    BY <1>13, <1>p DEF Handle, Polling, cloud, history, TypeOK, Poll
  <2>2. Gives(p) /\ AcksBegun
    BY <2>1 DEF Gives, Own, AcksBegun
  <2>3. QED
    BY <2>1, <2>2, MoveStep
<1>a. ASSUME NEW p \in Polls, NEW ok \in BOOLEAN, NEW step \in {"acking", "lastAck"},
             poll[p].step \in {"wait", "post"}, SendAck(p, ok, step), UNCHANGED posted
      PROVE Exclusive'
  <2> DEFINE j == poll[p].job
  <2>1. /\ UNCHANGED <<job, drain, posted>> /\ ack' = [ack EXCEPT ![<<j, ok>>] = "outbox"]
        /\ \A q \in Polls \ {p} : poll'[q] = poll[q]
        /\ poll'[p].step = step /\ poll'[p].mine = poll[p].mine /\ poll'[p].job = j
    BY <1>a, <1>p DEF SendAck, TypeOK, Poll
  <2>2. j \in Own(p) /\ j \notin poll[p].mine
    BY <1>a DEF Own, Exclusive, OwnedOnce
  <2>3. Own(p)' = poll[p].mine /\ \A q \in Polls \ {p} : Own(q)' = Own(q)
    BY <2>1 DEF Own
  <2>4. j \in JobIds /\ job[j] \in Begun /\ \A q \in Polls : j \notin Own(q)'
    BY <1>p, <2>2, <2>3 DEF Exclusive, OwnedOnce, Begun
  <2>5. Gives(p)
    BY <2>1, <2>2, <2>3 DEF Gives, Own
  <2>6. AcksBegun
    BY <2>1, <2>4 DEF AcksBegun
  <2>7. QED
    BY <2>1, <2>4, <2>5, <2>6, MoveStep
<1>14. ASSUME NEW p \in Polls, NotRunning(p) PROVE Exclusive'
  BY <1>14, <1>a DEF NotRunning, Polling, history
<1>15. ASSUME NEW p \in Polls, PostAnswered(p) PROVE Exclusive'
  BY <1>15, <1>a DEF PostAnswered, Polling, history
<1>16. ASSUME NEW p \in Polls, PostRefused(p) PROVE Exclusive'
  BY <1>16, <1>a DEF PostRefused, Polling, history
<1>17. ASSUME NEW p \in Polls, PostThrows(p) PROVE Exclusive'
  BY <1>17, <1>a DEF PostThrows, Polling, history
<1>18. ASSUME NEW p \in Polls, AckThrows(p) PROVE Exclusive'
  <2> DEFINE j == poll[p].job
  <2>1. /\ UNCHANGED <<job, drain, posted>> /\ poll[p].step \in {"acking", "lastAck"}
        /\ \A q \in Polls \ {p} : poll'[q] = poll[q]
        /\ poll'[p].step \in {"lastAck", "next"}
        /\ poll'[p].mine = poll[p].mine /\ poll'[p].job = j
    <3>1. /\ UNCHANGED <<job, drain, posted>> /\ poll[p].step \in {"acking", "lastAck"}
          /\ \/ poll' = [poll EXCEPT ![p].step = "lastAck", ![p].ok = FALSE]
             \/ poll' = [poll EXCEPT ![p].step = "next"]
      BY <1>18 DEF AckThrows, Polling, history
    <3>2. QED
      BY <1>p, <3>1 DEF TypeOK, Poll
  <2>2. \A q \in Polls : Own(q)' = Own(q)
    BY <2>1 DEF Own
  <2>3. j \in JobIds /\ job[j] \in Begun /\ \A q \in Polls : j \notin Own(q)'
    BY <1>p, <2>1, <2>2 DEF Exclusive, Acknowledged, Begun
  <2>4. Gives(p)
    BY <2>1, <2>2 DEF Gives
  <2>5. \A k \in JobIds, ok \in BOOLEAN : k # j => ack'[<<k, ok>>] = ack[<<k, ok>>]
    <3>1. CASE UNCHANGED ack
      BY <3>1
    <3>2. CASE ~UNCHANGED ack
      <4>1. PICK lost \in BOOLEAN :
              ack' = [ack EXCEPT ![<<j, poll[p].ok>>] = IF lost THEN "none" ELSE @,
                                 ![<<j, FALSE>>] = "outbox"]
        BY <1>18, <3>2 DEF AckThrows
      <4>2. QED
        BY <1>p, <4>1 DEF TypeOK
    <3>3. QED
      BY <3>1, <3>2
  <2>6. AcksBegun
    BY <2>3, <2>5 DEF AcksBegun
  <2>7. QED
    BY <2>1, <2>3, <2>4, <2>6, MoveStep
<1>19. ASSUME NEW j \in JobIds, NEW ok \in BOOLEAN, AckOutbox(j, ok) PROVE Exclusive'
  BY <1>19, <1>k DEF AckOutbox, agent, history
<1>20. ASSUME NEW j \in JobIds, NEW ok \in BOOLEAN, AckOutboxFails(j, ok) PROVE Exclusive'
  BY <1>20, <1>k DEF AckOutboxFails, agent, history
<1>21. ASSUME NEW j \in JobIds, NEW ok \in BOOLEAN, AckLost(j, ok) PROVE Exclusive'
  BY <1>21, <1>k DEF AckLost, agent, history
<1>22. ASSUME NEW j \in JobIds, NEW ok \in BOOLEAN, AckJob(j, ok) PROVE Exclusive'
  <2>1. /\ UNCHANGED <<poll, drain, posted>> /\ ack[<<j, ok>>] # "none"
        /\ job' = [job EXCEPT ![j] = IF ok THEN "succeeded" ELSE "failed"]
        /\ ack' = [ack EXCEPT ![<<j, ok>>] = "none"]
    BY <1>22 DEF AckJob, agent, history
  <2>2. job[j] \in Begun
    BY <2>1 DEF Exclusive, Acknowledged, Begun
  <2>3. job'[j] \in Begun /\ \A k \in JobIds : k # j => job'[k] = job[k]
    BY <2>1 DEF TypeOK, Begun
  <2>4. \A k \in JobIds, a \in BOOLEAN : ack'[<<k, a>>] # "none" => ack[<<k, a>>] # "none"
    BY <2>1
  <2>5. DrainsOnce'
    BY <2>1, <2>2, <2>3, JobOf DEF Exclusive, DrainsOnce, Begun
  <2>6. QED
    BY <2>1, <2>2, <2>3, <2>4, <2>5, ServerStep
<1>23. ASSUME NEW p \in Polls, StartPost(p) PROVE Exclusive'
  <2> DEFINE j == poll[p].job
  <2>1. /\ UNCHANGED <<job, ack, drain>> /\ poll[p].step = "wait"
        /\ \A q \in Polls \ {p} : poll'[q] = poll[q]
        /\ poll'[p].step = "post" /\ poll'[p].mine = poll[p].mine /\ poll'[p].job = j
    BY <1>23, <1>p DEF StartPost, Polling, cloud, TypeOK, Poll
  <2>2. j \in Own(p) /\ j \notin poll[p].mine /\ j \in JobIds
    BY <1>p, <2>1 DEF Own, Exclusive, OwnedOnce
  <2>3. posted[j] = 0 /\ job[j] = "running"
    BY <2>1, <2>2 DEF Exclusive, OwnedOnce
  <2>4. posted'[j] = 1 /\ \A k \in JobIds : k # j => posted'[k] = posted[k]
    BY <1>23, <2>2, <2>3 DEF StartPost, TypeOK
  <2>5. \A q \in Polls : Own(q)' = Own(q) /\ Own(q) \subseteq JobIds
    BY <1>p, <2>1 DEF Own
  <2>6. \A q \in Polls : q # p => j \notin Own(q)
    BY <2>2 DEF Exclusive, OwnedOnce
  <2>7. PostedOnce'
    BY <2>1, <2>3, <2>4 DEF Exclusive, PostedOnce
  <2>8. OwnedOnce'
    <3>1. \A x, y \in Polls : x # y => Own(x)' \cap Own(y)' = {}
      BY <2>5 DEF Exclusive, OwnedOnce
    <3>2. \A x \in Polls : poll'[x].step \in {"wait", "post"} => poll'[x].job \notin poll'[x].mine
      BY <2>1, <2>2 DEF Exclusive, OwnedOnce
    <3>3. ASSUME NEW x \in Polls, NEW k \in Own(x)'
          PROVE  /\ job'[k] = "running"
                 /\ \A ok \in BOOLEAN : ack'[<<k, ok>>] = "none"
                 /\ ~(poll'[x].step = "post" /\ poll'[x].job = k) => posted'[k] = 0
      <4>1. k \in Own(x) /\ k \in JobIds
        BY <2>5
      <4>2. /\ job[k] = "running" /\ (\A ok \in BOOLEAN : ack[<<k, ok>>] = "none")
            /\ ~(poll[x].step = "post" /\ poll[x].job = k) => posted[k] = 0
        BY <4>1 DEF Exclusive, OwnedOnce
      <4>3. QED
        BY <2>1, <2>4, <2>6, <4>1, <4>2
    <3>4. QED
      BY <3>1, <3>2, <3>3 DEF OwnedOnce
  <2>9. DrainsOnce' /\ Acknowledged'
    BY <2>1, <2>5 DEF Exclusive, DrainsOnce, Acknowledged
  <2>10. QED
    BY <2>7, <2>8, <2>9 DEF Exclusive
<1>24. ASSUME NEW p \in Polls, NEW j \in JobIds, Claim(p, j) PROVE Exclusive'
  <2>1. CASE job[j] # "queued"
    <3>1. /\ UNCHANGED <<job, ack, drain, posted>> /\ poll[p].step = "claim"
          /\ poll' = [poll EXCEPT ![p].todo = poll[p].todo \ {j}]
      BY <1>24, <2>1 DEF Claim, Polling, history
    <3>2. /\ \A q \in Polls \ {p} : poll'[q] = poll[q]
          /\ poll'[p].step = "claim" /\ poll'[p].mine = poll[p].mine
      BY <1>p, <3>1 DEF TypeOK, Poll
    <3>3. Gives(p) /\ AcksBegun
      BY <3>1, <3>2 DEF Gives, Own, AcksBegun
    <3>4. QED
      BY <3>1, <3>2, <3>3, MoveStep
  <2>2. CASE job[j] = "queued"
    <3>1. /\ UNCHANGED <<ack, drain, posted>> /\ poll[p].step = "claim"
          /\ job' = [job EXCEPT ![j] = "running"]
          /\ poll' = [poll EXCEPT ![p].todo = poll[p].todo \ {j},
                                  ![p].mine = poll[p].mine \cup {j}]
      BY <1>24, <2>2 DEF Claim, Polling, history
    <3>2. /\ \A q \in Polls \ {p} : poll'[q] = poll[q]
          /\ poll'[p].step = "claim" /\ poll'[p].mine = poll[p].mine \cup {j}
      BY <1>p, <3>1 DEF TypeOK, Poll
    <3>3. /\ Own(p)' = Own(p) \cup {j} /\ \A q \in Polls \ {p} : Own(q)' = Own(q)
      BY <3>1, <3>2 DEF Own
    <3>4. job'[j] = "running" /\ \A k \in JobIds : k # j => job'[k] = job[k]
      BY <3>1 DEF TypeOK
    <3>5. \A q \in Polls : j \notin Own(q) /\ Own(q) \subseteq JobIds
      BY <1>p, <2>2 DEF Own, Exclusive, OwnedOnce
    <3>6. posted[j] = 0 /\ \A ok \in BOOLEAN : ack[<<j, ok>>] = "none"
      BY <2>2 DEF Exclusive, PostedOnce, Acknowledged
    <3>7. OwnedOnce'
      <4>1. \A x, y \in Polls : x # y => Own(x)' \cap Own(y)' = {}
        BY <3>3, <3>5 DEF Exclusive, OwnedOnce
      <4>2. \A x \in Polls :
              poll'[x].step \in {"wait", "post"} => poll'[x].job \notin poll'[x].mine
        BY <3>2 DEF Exclusive, OwnedOnce
      <4>3. ASSUME NEW x \in Polls, NEW k \in Own(x)'
            PROVE  /\ job'[k] = "running"
                   /\ \A ok \in BOOLEAN : ack'[<<k, ok>>] = "none"
                   /\ ~(poll'[x].step = "post" /\ poll'[x].job = k) => posted'[k] = 0
        <5>1. CASE k = j
          BY <3>1, <3>4, <3>6, <5>1
        <5>2. CASE k # j
          <6>1. k \in Own(x) /\ k \in JobIds
            BY <3>3, <3>5, <5>2
          <6>2. /\ job[k] = "running" /\ (\A ok \in BOOLEAN : ack[<<k, ok>>] = "none")
                /\ ~(poll[x].step = "post" /\ poll[x].job = k) => posted[k] = 0
            BY <6>1 DEF Exclusive, OwnedOnce
          <6>3. QED
            BY <3>1, <3>2, <3>4, <5>2, <6>1, <6>2
        <5>3. QED
          BY <5>1, <5>2
      <4>4. QED
        BY <4>1, <4>2, <4>3 DEF OwnedOnce
    <3>8. Acknowledged'
      <4>1. \A k \in JobIds : job[k] \in Begun => job'[k] \in Begun /\ k # j
        BY <2>2, <3>4 DEF Begun
      <4>2. \A x \in Polls : poll'[x].step \in {"acking", "lastAck"} => poll'[x] = poll[x]
        BY <3>2
      <4>3. \A k \in JobIds, ok \in BOOLEAN : ack'[<<k, ok>>] # "none" => job'[k] \in Begun
        BY <3>1, <4>1 DEF Exclusive, Acknowledged, Begun
      <4>4. ASSUME NEW x \in Polls, poll'[x].step \in {"acking", "lastAck"}
            PROVE  /\ job'[poll'[x].job] \in Begun
                   /\ \A q \in Polls : poll'[x].job \notin Own(q)'
        <5>1. poll'[x] = poll[x] /\ poll[x].job \in JobIds
          BY <1>p, <4>2, <4>4
        <5>2. /\ job[poll[x].job] \in Begun
              /\ \A q \in Polls : poll[x].job \notin Own(q)
          BY <4>4, <5>1 DEF Exclusive, Acknowledged, Begun
        <5>3. QED
          BY <3>3, <4>1, <5>1, <5>2
      <4>5. QED
        BY <4>3, <4>4 DEF Acknowledged, Begun
    <3>9. DrainsOnce' /\ PostedOnce'
      BY <2>2, <3>1, <3>4, JobOf DEF Exclusive, DrainsOnce, PostedOnce
    <3>10. QED
      BY <3>7, <3>8, <3>9 DEF Exclusive
  <2>3. QED
    BY <2>1, <2>2
<1>25. ASSUME AgentCrash PROVE Exclusive'
  <2>1. UNCHANGED <<job, ack, drain, posted>> /\ \A q \in Polls : poll'[q] = IdlePoll
    BY <1>25 DEF AgentCrash, cloud, history
  <2>2. \A q \in Polls : Own(q)' = {} /\ poll'[q].step = "idle"
    BY <2>1 DEF Own, IdlePoll
  <2>3. QED
    BY <2>1, <2>2 DEF Exclusive, DrainsOnce, OwnedOnce, Acknowledged, PostedOnce
<1>26. CASE UNCHANGED <<poll, job, ack, drain, posted>>
  <2>1. \A j \in JobIds, ok \in BOOLEAN : ack'[<<j, ok>>] # "none" => ack[<<j, ok>>] # "none"
    BY <1>26
  <2>2. QED
    BY <1>26, <1>k, <2>1
<1>27. QED
  BY <1>1, <1>2, <1>3, <1>4, <1>5, <1>6, <1>7, <1>8, <1>9, <1>10, <1>11, <1>12,
     <1>13, <1>14, <1>15, <1>16, <1>17, <1>18, <1>19, <1>20, <1>21, <1>22, <1>23,
     <1>24, <1>25, <1>26
  DEF Next, DrainStep, PollStep, AckStep, FlushStep, StartFlush, EndFlush, FlushPost,
      FlushAnswered, FlushRefused, cloud, agent, history, vars

\* The types hold of every behaviour.
THEOREM PushTypes == Spec => []TypeOK
  BY PushInit, TypesStep, PTL DEF Spec

\* A row is reported as pushed only after a 2xx for one of its jobs
\* (acknowledgeAgentJob), however many polls, drains, timeouts and faults there are.
THEOREM PushedIsAnswered == Spec => []ProcessedIsAnswered
<1>1. Reported => ProcessedIsAnswered
  BY DEF Reported
<1>2. QED
  BY PushInit, TypesStep, ReportedStep, <1>1, PTL DEF Spec

\* XML whose post threw while no flush was under way stays in the queue file until a
\* flush had a 2xx for it, or a crash cut the file short (OfflineQueue).
THEOREM KeptInFile == Spec => []KeptUntilAnswered
<1>1. Kept => KeptUntilAnswered
  BY DEF Kept
<1>2. QED
  BY PushInit, TypesStep, KeptStep, <1>1, PTL DEF Spec

\* The stages of the jobs.
Stages == [j \in JobIds |-> Stage(j)]

\* Only the step named after it moves a job to its next stage: every other step
\* leaves all stages alone.
LEMMA StageStep ==
  TypeOK /\ TypeOK' /\ Exclusive /\ Exclusive' /\ [Next]_vars
    => [Work!Next]_Stages
<1> SUFFICES ASSUME TypeOK, TypeOK', Exclusive, Exclusive', [Next]_vars
             PROVE  [Work!Next]_Stages
  OBVIOUS
<1>1. ASSUME NEW j \in JobIds
      PROVE  /\ posted[j] \in {0, 1} /\ posted'[j] \in {0, 1}
             /\ job[j] \in {"none", "queued", "running", "succeeded", "failed"}
             /\ job'[j] \in {"none", "queued", "running", "succeeded", "failed"}
  <2>1. posted[j] \in Nat /\ posted[j] <= 1 /\ posted'[j] \in Nat /\ posted'[j] <= 1
    BY DEF TypeOK, Exclusive, PostedOnce
  <2>2. posted[j] \in {0, 1} /\ posted'[j] \in {0, 1}
    BY <2>1
  <2>3. QED
    BY <2>2 DEF TypeOK
<1>2. ASSUME NEW j \in JobIds,
             \A k \in JobIds : k # j => job'[k] = job[k] /\ posted'[k] = posted[k]
      PROVE Stages' = [Stages EXCEPT ![j] = Stage(j)']
  <2>1. \A k \in JobIds : k # j => Stage(k)' = Stage(k)
    BY <1>2 DEF Stage
  <2>2. Stages' = [k \in JobIds |-> Stage(k)'] /\ Stages = [k \in JobIds |-> Stage(k)]
    BY DEF Stages
  <2>3. QED
    BY <2>1, <2>2
<1>3. ASSUME UNCHANGED <<job, posted>> PROVE UNCHANGED Stages
  BY <1>3 DEF Stage, Stages
<1>n. ASSUME NEW j \in JobIds, Stages' = [Stages EXCEPT ![j] = Stage(j)'],
             \/ Stage(j) = "absent" /\ Stage(j)' = "queued"
             \/ Stage(j) = "queued" /\ Stage(j)' = "claimed"
             \/ Stage(j) = "claimed" /\ Stage(j)' = "carriedOut"
             \/ Stage(j) \in {"claimed", "carriedOut"} /\ Stage(j)' = "ended"
             \/ Stage(j)' = Stage(j)
      PROVE [Work!Next]_Stages
  <2>0. Stages = [k \in JobIds |-> Stages[k]] /\ Stages[j] = Stage(j)
    BY DEF Stages
  <2>1. CASE Stage(j)' = Stage(j)
    <3>1. Stages' = Stages
      BY <1>n, <2>0, <2>1
    <3>2. QED
      BY <3>1
  <2>2. CASE Stage(j)' # Stage(j)
    <3>1. ASSUME NEW from, NEW to, Stage(j) \in from, Stage(j)' = to
          PROVE Work!Advance(j, from, to)
      <4>1. Stages[j] \in from /\ Stages' = [Stages EXCEPT ![j] = to]
        BY <1>n, <2>0, <3>1
      <4>2. QED
        BY <4>1 DEF Work!Advance, Stages
    <3>2. QED
      BY <1>n, <2>2, <3>1 DEF Work!Next
  <2>3. QED
    BY <2>1, <2>2
<1>p. \A p \in Polls : poll[p].job \in JobIds
  BY DEF TypeOK, Poll
<1>4. ASSUME NEW d \in Drains, CreateJob(d) PROVE [Work!Next]_Stages
  <2>1. drain[d].todo # {} /\ drain[d].todo \subseteq Rows
    BY <1>4, SomeRow DEF CreateJob, Draining, TypeOK, Drain, Exclusive, DrainsOnce
  <2>2. Least(drain[d].todo) \in drain[d].todo
    BY <2>1, LeastIn
  <2>3. PICK j \in JobIds : j = <<d, Least(drain[d].todo)>> /\ job[j] = "none"
    BY <2>1, <2>2, JobOf DEF Exclusive, DrainsOnce
  <2>4. job' = [job EXCEPT ![j] = "queued"] /\ UNCHANGED posted
    BY <1>4, <2>3 DEF CreateJob, history
  <2>5. job'[j] = "queued" /\ \A k \in JobIds : k # j => job'[k] = job[k] /\ posted'[k] = posted[k]
    BY <2>3, <2>4 DEF TypeOK
  <2>6. Stage(j) = "absent" /\ Stage(j)' = "queued"
    BY <1>1, <2>3, <2>4, <2>5 DEF Stage, Exclusive, PostedOnce
  <2>7. QED
    BY <1>2, <1>n, <2>3, <2>5, <2>6
<1>5. ASSUME NEW p \in Polls, NEW j \in JobIds, Claim(p, j) PROVE [Work!Next]_Stages
  <2>1. CASE job[j] # "queued"
    BY <1>3, <1>5, <2>1 DEF Claim, history
  <2>2. CASE job[j] = "queued"
    <3>1. job' = [job EXCEPT ![j] = "running"] /\ UNCHANGED posted /\ posted[j] = 0
      BY <1>5, <2>2 DEF Claim, history, Exclusive, PostedOnce
    <3>2. job'[j] = "running" /\ \A k \in JobIds : k # j => job'[k] = job[k] /\ posted'[k] = posted[k]
      BY <3>1 DEF TypeOK
    <3>3. Stage(j) = "queued" /\ Stage(j)' = "claimed"
      BY <2>2, <3>1, <3>2 DEF Stage
    <3>4. QED
      BY <1>2, <1>n, <3>2, <3>3
  <2>3. QED
    BY <2>1, <2>2
<1>6. ASSUME NEW p \in Polls, StartPost(p) PROVE [Work!Next]_Stages
  <2>0. PICK j \in JobIds : j = poll[p].job
    BY <1>p
  <2>1. poll[p].step = "wait" /\ UNCHANGED job /\ posted' = [posted EXCEPT ![j] = posted[j] + 1]
    BY <1>6, <2>0 DEF StartPost, Polling, cloud
  <2>2. job[j] = "running" /\ posted[j] = 0
    BY <2>0, <2>1 DEF Exclusive, OwnedOnce, Own
  <2>3. posted'[j] = 1 /\ job'[j] = "running"
        /\ \A k \in JobIds : k # j => job'[k] = job[k] /\ posted'[k] = posted[k]
    BY <2>1, <2>2 DEF TypeOK
  <2>4. Stage(j) = "claimed" /\ Stage(j)' = "carriedOut"
    BY <2>2, <2>3 DEF Stage
  <2>5. QED
    BY <1>2, <1>n, <2>3, <2>4
<1>7. ASSUME NEW j \in JobIds, NEW ok \in BOOLEAN, AckJob(j, ok) PROVE [Work!Next]_Stages
  <2>1. job' = [job EXCEPT ![j] = IF ok THEN "succeeded" ELSE "failed"] /\ UNCHANGED posted
        /\ job[j] \in {"running", "succeeded", "failed"}
    BY <1>7 DEF AckJob, history, Exclusive, Acknowledged
  <2>2. job'[j] \in {"succeeded", "failed"}
        /\ \A k \in JobIds : k # j => job'[k] = job[k] /\ posted'[k] = posted[k]
    BY <2>1 DEF TypeOK
  <2>3. Stage(j) \in {"claimed", "carriedOut", "ended"} /\ Stage(j)' = "ended"
    BY <1>1, <2>1, <2>2 DEF Stage
  <2>4. QED
    BY <1>2, <1>n, <2>2, <2>3
<1>8. CASE UNCHANGED <<job, posted>>
  BY <1>3, <1>8
<1>9. QED
  BY <1>4, <1>5, <1>6, <1>7, <1>8
  DEF Next, DrainStep, PollStep, AckStep, FlushStep, Trigger, FindPending, RefuseRow,
      MarkProcessing, EndDrain, DrainLost, FindQueued, Deliver, EndPoll, Handle, NotRunning,
      PostAnswered, PostRefused, PostThrows, AckAnswered, AckThrows, PollLost, AckOutbox,
      AckOutboxFails, AckLost, StartFlush, EndFlush, FlushPost, FlushAnswered, FlushRefused,
      AgentCrash, SendAck, cloud, agent, history, vars

\* Polls that overlap, late acknowledgements, crashes and lost requests included, a
\* job is claimed once, posted by at most one poll, and never after it ended
\* (claimJobsForAgent, acknowledgeAgentJob).
THEOREM PushRefinesClaimedWork == Spec => ImplementsClaimedWork
<1>1. Init => Work!Init
  <2> SUFFICES ASSUME Init PROVE [j \in JobIds |-> Stage(j)] = [j \in JobIds |-> "absent"]
    BY DEF Work!Init
  <2>1. \A j \in JobIds : Stage(j) = "absent"
    BY DEF Init, Stage
  <2>2. QED
    BY <2>1
<1>2. Spec => [](TypeOK /\ Exclusive)
  BY PushInit, TypesStep, ExclusiveStep, PTL DEF Spec
<1>3. QED
  BY <1>1, <1>2, StageStep, PTL DEF Spec, ImplementsClaimedWork, Work!Spec, Stages

-----------------------------------------------------------------------------
(* The outbox and the jobs tell one story.                                 *)

\* A drain has marked the row and not created its job yet.
Marked(d, r) == drain[d].step = "create" /\ Least(drain[d].todo) = r

\* A job is acknowledged once, and runs until it is.
AckedOnce ==
    \A j \in JobIds : /\ \A ok \in BOOLEAN : ack[<<j, ok>>] # "none" => job[j] = "running"
                      /\ ack[<<j, TRUE>>] = "none" \/ ack[<<j, FALSE>>] = "none"

\* What the status of a row says of its drains and jobs.
Undecided(d, r) ==
    \/ Marked(d, r)
    \/ job[<<d, r>>] = "queued"
    \/ job[<<d, r>>] = "running" /\ \A ok \in BOOLEAN : ack[<<<<d, r>>, ok>>] # "job"
Pushed(d, r) == job[<<d, r>>] = "succeeded" \/ ack[<<<<d, r>>, TRUE>>] = "job"
Untouched(d, r) == job[<<d, r>>] = "none" /\ ~Marked(d, r)
Tells ==
    \A r \in Rows : /\ row[r] = "pending" => \A d \in Drains : Untouched(d, r)
                    /\ row[r] = "processing" => \E d \in Drains : Undecided(d, r)
                    /\ row[r] = "processed" => \E d \in Drains : Pushed(d, r)

\* The inductive invariant, as long as no request is lost and nothing crashes.
Agreed == faults = 0 => AckedOnce /\ Tells

\* Steps that change neither rows, jobs nor acknowledgements, and no mark.
LEMMA AgreedFrame ==
  ASSUME Agreed, UNCHANGED <<row, job, ack, faults>>,
         \A d \in Drains, r \in Rows : Marked(d, r)' <=> Marked(d, r)
  PROVE  Agreed'
<1> SUFFICES ASSUME faults = 0 PROVE AckedOnce' /\ Tells'
  BY DEF Agreed
<1>1. AckedOnce'
  BY DEF Agreed, AckedOnce
<1>2. \A d \in Drains, r \in Rows : /\ Untouched(d, r)' <=> Untouched(d, r)
                                    /\ Undecided(d, r)' <=> Undecided(d, r)
                                    /\ Pushed(d, r)' <=> Pushed(d, r)
  BY DEF Untouched, Undecided, Pushed
<1>3. Tells'
  BY <1>2 DEF Agreed, Tells
<1>4. QED
  BY <1>1, <1>3

\* A step of a drain, which changes the marks of no other drain.
LEMMA OtherMarks ==
  ASSUME TypeOK, NEW d \in Drains, NEW step, NEW todo, DrainTo(d, step, todo)
  PROVE  /\ drain'[d].step = step /\ drain'[d].todo = todo
         /\ \A e \in Drains \ {d}, r \in Rows : Marked(e, r)' <=> Marked(e, r)
  BY DEF TypeOK, DrainTo, Marked

\* Every step keeps the story.
LEMMA AgreedStep ==
  TypeOK /\ TypeOK' /\ Exclusive /\ Agreed /\ [Next]_vars => Agreed'
<1> SUFFICES ASSUME TypeOK, TypeOK', Exclusive, Agreed, [Next]_vars PROVE Agreed'
  OBVIOUS
<1>f. ASSUME Fault PROVE Agreed'
  <2>1. faults \in Nat /\ faults' = faults + 1
    BY <1>f, PushAssumption DEF Fault, TypeOK
  <2>2. faults' # 0
    BY <2>1
  <2>3. QED
    BY <2>2 DEF Agreed
<1>p. \A p \in Polls : poll[p].job \in JobIds
  BY DEF TypeOK, Poll
<1>m. ASSUME UNCHANGED <<row, job, ack, faults, drain>> PROVE Agreed'
  BY <1>m, AgreedFrame DEF Marked
<1>q. ASSUME NEW d \in Drains, NEW step, NEW todo, DrainTo(d, step, todo),
             step # "create", drain[d].step # "create", UNCHANGED <<row, job, ack, faults>>
      PROVE Agreed'
  <2>1. \A e \in Drains, r \in Rows : Marked(e, r)' <=> Marked(e, r)
    BY <1>q, OtherMarks DEF Marked
  <2>2. QED
    BY <1>q, <2>1, AgreedFrame
<1>1. ASSUME NEW d \in Drains, Trigger(d) \/ FindPending(d) \/ EndDrain(d) PROVE Agreed'
  BY <1>1, <1>q DEF Trigger, FindPending, EndDrain, Draining
<1>2. ASSUME NEW d \in Drains, RefuseRow(d) PROVE Agreed'
  <2>1. PICK r \in Rows : /\ row' = [row EXCEPT ![r] = "failed"]
                          /\ drain[d].step = "row" /\ UNCHANGED <<job, ack, faults>>
    BY <1>2, LeastIn DEF RefuseRow, Draining, TypeOK, Drain
  <2>2. \A e \in Drains, q \in Rows : Marked(e, q)' <=> Marked(e, q)
    BY <1>2, <2>1, OtherMarks DEF RefuseRow, Marked
  <2> SUFFICES ASSUME faults = 0 PROVE AckedOnce' /\ Tells'
    BY <2>1 DEF Agreed
  <2>3. AckedOnce'
    BY <2>1 DEF Agreed, AckedOnce
  <2>4. \A e \in Drains, q \in Rows : /\ Untouched(e, q)' <=> Untouched(e, q)
                                      /\ Undecided(e, q)' <=> Undecided(e, q)
                                      /\ Pushed(e, q)' <=> Pushed(e, q)
    BY <2>1, <2>2 DEF Untouched, Undecided, Pushed
  <2>5. \A q \in Rows : row'[q] = row[q] \/ row'[q] = "failed"
    BY <2>1 DEF TypeOK
  <2>6. Tells'
    BY <2>4, <2>5 DEF Agreed, Tells
  <2>7. QED
    BY <2>3, <2>6
<1>3. ASSUME NEW d \in Drains, MarkProcessing(d) PROVE Agreed'
  <2>1. PICK r \in Rows : r = Least(drain[d].todo)
    BY <1>3, LeastIn DEF MarkProcessing, TypeOK, Drain
  <2>2. /\ row' = [row EXCEPT ![r] = "processing"] /\ UNCHANGED <<job, ack, faults>>
        /\ drain[d].step = "row" /\ DrainTo(d, "create", drain[d].todo)
    BY <1>3, <2>1 DEF MarkProcessing, Draining
  <2>3. /\ Marked(d, r)'
        /\ \A e \in Drains, q \in Rows \ {r} : Marked(e, q)' <=> Marked(e, q)
    BY <2>1, <2>2, OtherMarks DEF Marked
  <2> SUFFICES ASSUME faults = 0 PROVE AckedOnce' /\ Tells'
    BY <2>2 DEF Agreed
  <2>4. AckedOnce'
    BY <2>2 DEF Agreed, AckedOnce
  <2>5. \A e \in Drains, q \in Rows \ {r} : /\ Untouched(e, q)' <=> Untouched(e, q)
                                            /\ Undecided(e, q)' <=> Undecided(e, q)
                                            /\ Pushed(e, q)' <=> Pushed(e, q)
    BY <2>2, <2>3 DEF Untouched, Undecided, Pushed
  <2>6. row'[r] = "processing" /\ \A q \in Rows \ {r} : row'[q] = row[q]
    BY <2>2 DEF TypeOK
  <2>7. Undecided(d, r)'
    BY <2>3 DEF Undecided
  <2>8. Tells'
    BY <2>5, <2>6, <2>7 DEF Agreed, Tells
  <2>9. QED
    BY <2>4, <2>8
<1>4. ASSUME NEW d \in Drains, CreateJob(d) PROVE Agreed'
  <2>1. drain[d].step = "create" /\ drain[d].todo # {} /\ drain[d].todo \subseteq Rows
    BY <1>4, SomeRow DEF CreateJob, Draining, TypeOK, Drain, Exclusive, DrainsOnce
  <2>2. PICK r \in Rows : r = Least(drain[d].todo) /\ job[<<d, r>>] = "none" /\ Marked(d, r)
    BY <2>1, LeastIn DEF Exclusive, DrainsOnce, Marked
  <2>3. PICK x \in JobIds : x = <<d, r>> /\ job[x] = "none"
    BY <2>2, JobOf
  <2>4. /\ job' = [job EXCEPT ![x] = "queued"] /\ UNCHANGED <<row, ack, faults>>
        /\ DrainTo(d, "row", drain[d].todo \ {r})
    BY <1>4, <2>2, <2>3 DEF CreateJob
  <2>5. job'[x] = "queued" /\ \A k \in JobIds : k # x => job'[k] = job[k]
    BY <2>4 DEF TypeOK
  <2>6. \A e \in Drains, q \in Rows \ {r} : Marked(e, q)' <=> Marked(e, q)
    BY <2>1, <2>2, <2>4, OtherMarks DEF Marked
  <2> SUFFICES ASSUME faults = 0 PROVE AckedOnce' /\ Tells'
    BY <2>4 DEF Agreed
  <2>7. AckedOnce'
    BY <2>3, <2>4, <2>5 DEF Agreed, AckedOnce
  <2>8. \A e \in Drains, q \in Rows \ {r} : /\ Untouched(e, q)' <=> Untouched(e, q)
                                            /\ Undecided(e, q)' <=> Undecided(e, q)
                                            /\ Pushed(e, q)' <=> Pushed(e, q)
    BY <2>3, <2>4, <2>5, <2>6, JobOf DEF Untouched, Undecided, Pushed
  <2>9. Undecided(d, r)' /\ \A e \in Drains : Pushed(e, r) => Pushed(e, r)'
    BY <2>3, <2>4, <2>5, JobOf DEF Undecided, Pushed
  <2>10. row[r] # "pending"
    BY <2>2 DEF Agreed, Tells, Untouched
  <2>11. Tells'
    BY <2>4, <2>8, <2>9, <2>10 DEF Agreed, Tells
  <2>12. QED
    BY <2>7, <2>11
<1>5. ASSUME NEW p \in Polls, NEW j \in JobIds, Claim(p, j) PROVE Agreed'
  <2>1. CASE job[j] # "queued"
    BY <1>5, <1>m, <2>1 DEF Claim
  <2>2. CASE job[j] = "queued"
    <3>1. job' = [job EXCEPT ![j] = "running"] /\ UNCHANGED <<row, ack, faults, drain>>
      BY <1>5, <2>2 DEF Claim
    <3>2. job'[j] = "running" /\ \A k \in JobIds : k # j => job'[k] = job[k]
      BY <3>1 DEF TypeOK
    <3>3. \A ok \in BOOLEAN : ack[<<j, ok>>] = "none"
      BY <2>2 DEF Exclusive, Acknowledged
    <3> SUFFICES ASSUME faults = 0 PROVE AckedOnce' /\ Tells'
      BY <3>1 DEF Agreed
    <3>4. AckedOnce'
      BY <3>1, <3>2 DEF Agreed, AckedOnce
    <3>5. \A d \in Drains, r \in Rows : /\ Untouched(d, r) => Untouched(d, r)'
                                        /\ Undecided(d, r) => Undecided(d, r)'
                                        /\ Pushed(d, r) => Pushed(d, r)'
      <4>1. \A d \in Drains, r \in Rows : Marked(d, r)' <=> Marked(d, r)
        BY <3>1 DEF Marked
      <4>2. ASSUME NEW d \in Drains, NEW r \in Rows
            PROVE  /\ Untouched(d, r) => Untouched(d, r)'
                   /\ Undecided(d, r) => Undecided(d, r)'
                   /\ Pushed(d, r) => Pushed(d, r)'
        <5>1. PICK k \in JobIds : k = <<d, r>>
          BY JobOf
        <5>2. QED
          BY <2>2, <3>1, <3>2, <3>3, <4>1, <5>1 DEF Untouched, Undecided, Pushed
      <4>3. QED
        BY <4>2
    <3>6. Tells'
      BY <3>1, <3>5 DEF Agreed, Tells
    <3>7. QED
      BY <3>4, <3>6
  <2>3. QED
    BY <2>1, <2>2
<1>a. ASSUME NEW p \in Polls, NEW ok \in BOOLEAN, NEW step, SendAck(p, ok, step),
             poll[p].step \in {"wait", "post"}, UNCHANGED faults
      PROVE Agreed'
  <2>1. PICK j \in JobIds : j = poll[p].job
    BY <1>p
  <2>2. job[j] = "running" /\ \A a \in BOOLEAN : ack[<<j, a>>] = "none"
    BY <1>a, <2>1 DEF Exclusive, OwnedOnce, Own
  <2>3. UNCHANGED <<row, job, drain>> /\ ack' = [ack EXCEPT ![<<j, ok>>] = "outbox"]
    BY <1>a, <2>1 DEF SendAck
  <2>4. /\ \A k \in JobIds, a \in BOOLEAN : k # j => ack'[<<k, a>>] = ack[<<k, a>>]
        /\ \A a \in BOOLEAN : a # ok => ack'[<<j, a>>] = "none"
        /\ ack'[<<j, ok>>] = "outbox"
    BY <2>2, <2>3 DEF TypeOK
  <2> SUFFICES ASSUME faults = 0 PROVE AckedOnce' /\ Tells'
    BY <1>a DEF Agreed
  <2>5. AckedOnce'
    <3>1. ASSUME NEW k \in JobIds
          PROVE  /\ \A a \in BOOLEAN : ack'[<<k, a>>] # "none" => job'[k] = "running"
                 /\ ack'[<<k, TRUE>>] = "none" \/ ack'[<<k, FALSE>>] = "none"
      <4>1. CASE k = j
        <5>1. ack'[<<j, TRUE>>] = "none" \/ ack'[<<j, FALSE>>] = "none"
          <6>1. CASE ok = TRUE
            BY <2>4, <6>1
          <6>2. CASE ok = FALSE
            BY <2>4, <6>2
          <6>3. QED
            BY <6>1, <6>2
        <5>2. QED
          BY <2>2, <2>3, <4>1, <5>1
      <4>2. CASE k # j
        BY <2>3, <2>4, <4>2 DEF Agreed, AckedOnce
      <4>3. QED
        BY <4>1, <4>2
    <3>2. QED
      BY <3>1 DEF AckedOnce
  <2>6. \A k \in JobIds, a \in BOOLEAN : ack'[<<k, a>>] = "job" <=> ack[<<k, a>>] = "job"
    BY <2>2, <2>4
  <2>7. \A d \in Drains, r \in Rows : /\ Untouched(d, r)' <=> Untouched(d, r)
                                      /\ Undecided(d, r)' <=> Undecided(d, r)
                                      /\ Pushed(d, r)' <=> Pushed(d, r)
    BY <2>3, <2>6, JobOf DEF Untouched, Undecided, Pushed, Marked
  <2>8. Tells'
    BY <2>3, <2>7 DEF Agreed, Tells
  <2>9. QED
    BY <2>5, <2>8
<1>6. ASSUME NEW p \in Polls, NotRunning(p) \/ PostAnswered(p) \/ PostRefused(p) \/ PostThrows(p)
      PROVE Agreed'
  BY <1>6, <1>a DEF NotRunning, PostAnswered, PostRefused, PostThrows, Polling
<1>7. ASSUME NEW j \in JobIds, NEW ok \in BOOLEAN, AckOutbox(j, ok) PROVE Agreed'
  <2>1. PICK d \in Drains, r \in Rows : j = <<d, r>>
    BY JobParts
  <2>2. /\ UNCHANGED <<job, drain, faults>> /\ ack' = [ack EXCEPT ![<<j, ok>>] = "job"]
        /\ row' = [row EXCEPT ![r] = IF ok THEN "processed" ELSE "failed"]
        /\ ack[<<j, ok>>] = "outbox"
    BY <1>7, <2>1 DEF AckOutbox
  <2>3. /\ row'[r] = IF ok THEN "processed" ELSE "failed"
        /\ \A q \in Rows \ {r} : row'[q] = row[q]
    BY <2>2 DEF TypeOK
  <2>4. /\ ack'[<<j, ok>>] = "job"
        /\ \A k \in JobIds, a \in BOOLEAN :
             /\ k # j => ack'[<<k, a>>] = ack[<<k, a>>]
             /\ ack'[<<k, a>>] = "none" <=> ack[<<k, a>>] = "none"
    BY <2>2 DEF TypeOK
  <2> SUFFICES ASSUME faults = 0 PROVE AckedOnce' /\ Tells'
    BY <2>2 DEF Agreed
  <2>5. AckedOnce'
    BY <2>2, <2>4 DEF Agreed, AckedOnce
  <2>6. \A e \in Drains, q \in Rows \ {r} : /\ Untouched(e, q)' <=> Untouched(e, q)
                                            /\ Undecided(e, q)' <=> Undecided(e, q)
                                            /\ Pushed(e, q)' <=> Pushed(e, q)
    <3>1. ASSUME NEW e \in Drains, NEW q \in Rows \ {r}
          PROVE  /\ Untouched(e, q)' <=> Untouched(e, q)
                 /\ Undecided(e, q)' <=> Undecided(e, q)
                 /\ Pushed(e, q)' <=> Pushed(e, q)
      <4>1. PICK k \in JobIds : k = <<e, q>> /\ k # j
        BY <2>1, JobOf
      <4>2. /\ \A a \in BOOLEAN : ack'[<<k, a>>] = ack[<<k, a>>]
            /\ Marked(e, q)' <=> Marked(e, q)
        BY <2>2, <2>4, <4>1 DEF Marked
      <4>3. QED
        BY <2>2, <4>1, <4>2 DEF Untouched, Undecided, Pushed
    <3>2. QED
      BY <3>1
  <2>7. ok => Pushed(d, r)'
    BY <2>1, <2>4 DEF Pushed
  <2>8. Tells'
    BY <2>3, <2>6, <2>7 DEF Agreed, Tells
  <2>9. QED
    BY <2>5, <2>8
<1>8. ASSUME NEW j \in JobIds, NEW ok \in BOOLEAN, AckJob(j, ok) PROVE Agreed'
  <2>1. /\ UNCHANGED <<row, drain, faults>> /\ ack[<<j, ok>>] = "job"
        /\ job' = [job EXCEPT ![j] = IF ok THEN "succeeded" ELSE "failed"]
        /\ ack' = [ack EXCEPT ![<<j, ok>>] = "none"]
    BY <1>8 DEF AckJob
  <2>2. /\ job'[j] = (IF ok THEN "succeeded" ELSE "failed")
        /\ \A k \in JobIds : k # j => job'[k] = job[k]
    BY <2>1 DEF TypeOK
  <2>3. /\ ack'[<<j, ok>>] = "none"
        /\ \A k \in JobIds, a \in BOOLEAN : k # j \/ a # ok => ack'[<<k, a>>] = ack[<<k, a>>]
    BY <2>1 DEF TypeOK
  <2> SUFFICES ASSUME faults = 0 PROVE AckedOnce' /\ Tells'
    BY <2>1 DEF Agreed
  <2>4. job[j] = "running" /\ \A a \in BOOLEAN : a # ok => ack[<<j, a>>] = "none"
    <3>1. job[j] = "running" /\ (ack[<<j, TRUE>>] = "none" \/ ack[<<j, FALSE>>] = "none")
      BY <2>1 DEF Agreed, AckedOnce
    <3>2. CASE ok = TRUE
      BY <2>1, <3>1, <3>2
    <3>3. CASE ok = FALSE
      BY <2>1, <3>1, <3>3
    <3>4. QED
      BY <3>2, <3>3
  <2>5. \A a \in BOOLEAN : ack'[<<j, a>>] = "none"
    BY <2>3, <2>4
  <2>6. AckedOnce'
    <3>1. ASSUME NEW k \in JobIds
          PROVE  /\ \A a \in BOOLEAN : ack'[<<k, a>>] # "none" => job'[k] = "running"
                 /\ ack'[<<k, TRUE>>] = "none" \/ ack'[<<k, FALSE>>] = "none"
      <4>1. CASE k = j
        BY <2>5, <4>1
      <4>2. CASE k # j
        BY <2>2, <2>3, <4>2 DEF Agreed, AckedOnce
      <4>3. QED
        BY <4>1, <4>2
    <3>2. QED
      BY <3>1 DEF AckedOnce
  <2>7. ASSUME NEW d \in Drains, NEW r \in Rows
        PROVE  /\ Untouched(d, r) => Untouched(d, r)'
               /\ Undecided(d, r) => Undecided(d, r)'
               /\ Pushed(d, r) => Pushed(d, r)'
    <3>1. PICK k \in JobIds : k = <<d, r>>
      BY JobOf
    <3>2. Marked(d, r)' <=> Marked(d, r)
      BY <2>1 DEF Marked
    <3>3. CASE k # j
      BY <2>2, <2>3, <3>1, <3>2, <3>3 DEF Untouched, Undecided, Pushed
    <3>4. CASE k = j
      <4>1. Undecided(d, r) => Undecided(d, r)'
        BY <2>1, <2>4, <3>1, <3>2, <3>4 DEF Undecided
      <4>2. ~Untouched(d, r)
        BY <2>4, <3>1, <3>4 DEF Untouched
      <4>3. Pushed(d, r) => ok
        <5>1. ASSUME Pushed(d, r), ok = FALSE PROVE FALSE
          BY <2>4, <3>1, <3>4, <5>1 DEF Pushed
        <5>2. QED
          BY <5>1
      <4>4. Pushed(d, r) => Pushed(d, r)'
        BY <2>2, <3>1, <3>4, <4>3 DEF Pushed
      <4>5. QED
        BY <4>1, <4>2, <4>4
    <3>5. QED
      BY <3>3, <3>4
  <2>8. Tells'
    BY <2>1, <2>7 DEF Agreed, Tells
  <2>9. QED
    BY <2>6, <2>8
<1>9. ASSUME NEW d \in Drains, DrainLost(d) PROVE Agreed'
  BY <1>9, <1>f DEF DrainLost
<1>10. ASSUME NEW p \in Polls, PollLost(p) \/ AckThrows(p) PROVE Agreed'
  BY <1>10, <1>f DEF PollLost, AckThrows
<1>11. ASSUME NEW j \in JobIds, NEW ok \in BOOLEAN, AckOutboxFails(j, ok) \/ AckLost(j, ok)
       PROVE Agreed'
  BY <1>11, <1>f DEF AckOutboxFails, AckLost
<1>12. CASE AgentCrash
  BY <1>12, <1>f DEF AgentCrash
<1>13. CASE UNCHANGED <<row, job, ack, faults, drain>>
  BY <1>13, <1>m
<1>14. QED
  BY <1>1, <1>2, <1>3, <1>4, <1>5, <1>6, <1>7, <1>8, <1>9, <1>10, <1>11, <1>12, <1>13
  DEF Next, DrainStep, PollStep, AckStep, FlushStep, FindQueued, Deliver, EndPoll, Handle,
      StartPost, AckAnswered, StartFlush, EndFlush, FlushPost, FlushAnswered, FlushRefused,
      cloud, vars

\* Without lost requests and crashes, when no drain, job or acknowledgement works on
\* a row, a row shown as pushed has a job that succeeded, a pending row has no job, and
\* no row is left in processing (drainPendingOutbox, acknowledgeAgentJob): for any
\* number of drains and overlapping polls, whatever posts throw.
THEOREM OutboxAndJobsAgree == Spec => []OutcomesAgree
<1>1. Init => Agreed
  <2> SUFFICES ASSUME Init PROVE AckedOnce /\ Tells
    BY DEF Agreed
  <2>1. AckedOnce
    BY DEF Init, AckedOnce
  <2>2. \A r \in Rows : row[r] = "pending" /\ \A d \in Drains : Untouched(d, r)
    BY JobOf DEF Init, Untouched, Marked
  <2>3. QED
    BY <2>1, <2>2 DEF Tells
<1>2. TypeOK /\ Agreed => OutcomesAgree
  <2> SUFFICES ASSUME TypeOK, Agreed, faults = 0, NEW r \in Rows, AtRest(r)
               PROVE  /\ row[r] = "processed" => \E d \in Drains : job[<<d, r>>] = "succeeded"
                      /\ row[r] = "pending" => \A d \in Drains : job[<<d, r>>] = "none"
                      /\ row[r] # "processing"
    BY DEF OutcomesAgree
  <2>1. \A d \in Drains : ~Undecided(d, r)
    BY DEF AtRest, Undecided, Marked
  <2>2. \A d \in Drains : Pushed(d, r) => job[<<d, r>>] = "succeeded"
    BY DEF AtRest, Pushed
  <2>3. QED
    BY <2>1, <2>2 DEF Agreed, Tells, Untouched
<1>3. QED
  BY <1>1, <1>2, PushInit, TypesStep, ExclusiveStep, AgreedStep, PTL DEF Spec
==============================================================================
