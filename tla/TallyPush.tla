------------------------------ MODULE TallyPush ------------------------------
(***************************************************************************)
(* Push of vouchers and masters to Tally: outbox rows are drained into sync     *)
(* jobs, the agent on the customer's Windows host polls the jobs, posts their   *)
(* XML to Tally and acknowledges them.                                       *)
(*                                                                          *)
(*   server/services/connectors/tally/tallySyncOrchestrator.js   drain        *)
(*   server/services/connectors/tally/tallyAgentJobService.js    claim, ack   *)
(*   connectors/arivu-agent/src/index.js, offlineQueue.js        the agent     *)
(*                                                                          *)
(* The agent starts its ticks from timers and does not wait for the last one,   *)
(* so polls may overlap, and so may the ticks that flush the queue file.  A      *)
(* request that is not answered in time goes on at the server.                *)
(*                                                                          *)
(* What Tally did with the XML is not in the model, because nothing in the code  *)
(* asks: postXml calls every 2xx a success, and nobody reads the body, in which  *)
(* Tally reports an import it refused.                                         *)
(*                                                                          *)
(* One company, and the jobs that push: those that pull, and the summary job at  *)
(* the end of a drain, have no outbox row and post nothing.                    *)
(***************************************************************************)
EXTENDS Naturals

CONSTANTS
    Rows,         \* outbox rows, in the order of createdAt
    Drains,       \* runs of triggerBidirectionalSync
    Polls,        \* ticks of the agent's poll timer that may overlap
    Flushes,      \* ticks of the timer that flushes the queue file
    MaxFaults,    \* bound on crashes and lost requests or answers
    MaxTimeouts   \* bound on posts of a poll to Tally that throw

ASSUME PushAssumption ==
    /\ Rows \subseteq Nat /\ Rows # {} /\ Drains # {}
    /\ MaxFaults \in Nat
    /\ MaxTimeouts \in Nat

JobIds == Drains \X Rows

VARIABLES
    row,       \* ConnectorOutbox.status
    job,       \* ConnectorSyncJob.status, "none" before the insert
    drain,     \* the runs of triggerBidirectionalSync
    ack,       \* the acknowledgements the server is working on
    poll,      \* the ticks of the agent's poll timer
    flush,     \* the ticks of the timer that flushes the queue file
    offline,   \* the queue file: the jobs whose XML it holds
    posted,    \* history: posts begun for a job by a poll
    answered,  \* history: jobs whose post by a poll was answered with a 2xx
    flushed,   \* history: jobs whose post by a flush was answered with a 2xx
    safe,      \* history: items appended while no flush was under way
    faults, timeouts

cloud == <<row, job, drain, ack>>
agent == <<poll, flush, offline>>
history == <<posted, answered, flushed, safe>>
vars == <<cloud, agent, history, faults, timeouts>>

Drain == [step : {"idle", "find", "row", "create", "done"}, todo : SUBSET Rows]
Poll == [step : {"idle", "claim", "next", "wait", "post", "acking", "lastAck"},
         todo : SUBSET JobIds, mine : SUBSET JobIds, job : JobIds, ok : BOOLEAN]
Flush == [step : {"idle", "items", "post"}, items : SUBSET JobIds,
          left : SUBSET JobIds, job : JobIds]

TypeOK ==
    /\ row \in [Rows -> {"pending", "processing", "processed", "failed"}]
    /\ job \in [JobIds -> {"none", "queued", "running", "succeeded", "failed"}]
    /\ drain \in [Drains -> Drain]
    /\ ack \in [JobIds \X BOOLEAN -> {"none", "outbox", "job"}]
    /\ poll \in [Polls -> Poll]
    /\ flush \in [Flushes -> Flush]
    /\ offline \subseteq JobIds
    /\ posted \in [JobIds -> Nat]
    /\ answered \subseteq JobIds
    /\ flushed \subseteq JobIds
    /\ safe \subseteq JobIds
    /\ faults \in 0 .. MaxFaults
    /\ timeouts \in 0 .. MaxTimeouts

NoJob == CHOOSE j \in JobIds : TRUE
IdlePoll == [step |-> "idle", todo |-> {}, mine |-> {}, job |-> NoJob, ok |-> FALSE]
IdleFlush == [step |-> "idle", items |-> {}, left |-> {}, job |-> NoJob]

Init ==
    /\ row = [r \in Rows |-> "pending"]
    /\ job = [j \in JobIds |-> "none"]
    /\ drain = [d \in Drains |-> [step |-> "idle", todo |-> {}]]
    /\ ack = [a \in JobIds \X BOOLEAN |-> "none"]
    /\ poll = [p \in Polls |-> IdlePoll]
    /\ flush = [f \in Flushes |-> IdleFlush]
    /\ offline = {}
    /\ posted = [j \in JobIds |-> 0]
    /\ answered = {}
    /\ flushed = {}
    /\ safe = {}
    /\ faults = 0
    /\ timeouts = 0

Fault == faults < MaxFaults /\ faults' = faults + 1

-----------------------------------------------------------------------------
(* triggerBidirectionalSync and drainPendingOutbox.                        *)

Draining(d, step) == drain[d].step = step
DrainTo(d, step, todo) == drain' = [drain EXCEPT ![d] = [step |-> step, todo |-> todo]]
Least(S) == CHOOSE r \in S : \A q \in S : r <= q

Trigger(d) ==
    /\ Draining(d, "idle")
    /\ DrainTo(d, "find", {})
    /\ UNCHANGED <<row, job, ack, agent, history, faults, timeouts>>

FindPending(d) ==
    /\ Draining(d, "find")
    /\ DrainTo(d, "row", {r \in Rows : row[r] = "pending"})
    /\ UNCHANGED <<row, job, ack, agent, history, faults, timeouts>>

\* The row cannot be enriched, is not valid, or may not be pushed.
RefuseRow(d) ==
    /\ Draining(d, "row") /\ drain[d].todo # {}
    /\ row' = [row EXCEPT ![Least(drain[d].todo)] = "failed"]
    /\ DrainTo(d, "row", drain[d].todo \ {Least(drain[d].todo)})
    /\ UNCHANGED <<job, ack, agent, history, faults, timeouts>>

\* The save of a document read before: whatever the row has become.
MarkProcessing(d) ==
    /\ Draining(d, "row") /\ drain[d].todo # {}
    /\ row' = [row EXCEPT ![Least(drain[d].todo)] = "processing"]
    /\ DrainTo(d, "create", drain[d].todo)
    /\ UNCHANGED <<job, ack, agent, history, faults, timeouts>>

CreateJob(d) ==
    /\ Draining(d, "create")
    /\ job' = [job EXCEPT ![<<d, Least(drain[d].todo)>>] = "queued"]
    /\ DrainTo(d, "row", drain[d].todo \ {Least(drain[d].todo)})
    /\ UNCHANGED <<row, ack, agent, history, faults, timeouts>>

EndDrain(d) ==
    /\ Draining(d, "row") /\ drain[d].todo = {}
    /\ DrainTo(d, "done", {})
    /\ UNCHANGED <<row, job, ack, agent, history, faults, timeouts>>

DrainLost(d) ==
    /\ drain[d].step \in {"find", "row", "create"}
    /\ Fault
    /\ DrainTo(d, "done", {})
    /\ UNCHANGED <<row, job, ack, agent, history, timeouts>>

-----------------------------------------------------------------------------
(* The agent's poll: claimJobsForAgent at the server, then tickPoll.        *)

Polling(p, step) == poll[p].step = step

\* The request, and the find of the queued jobs.
FindQueued(p) ==
    /\ Polling(p, "idle")
    /\ poll' = [poll EXCEPT ![p].step = "claim",
                            ![p].todo = {j \in JobIds : job[j] = "queued"}]
    /\ UNCHANGED <<cloud, flush, offline, history, faults, timeouts>>

ClaimUnguarded(p, j) ==  \* mutant: the update does not look at the status
    /\ Polling(p, "claim") /\ j \in poll[p].todo
    /\ job' = [job EXCEPT ![j] = "running"]
    /\ poll' = [poll EXCEPT ![p].todo = @ \ {j}, ![p].mine = @ \cup {j}]
    /\ UNCHANGED <<row, drain, ack, flush, offline, history, faults, timeouts>>

\* findOneAndUpdate with the status in its filter: one poll gets the job.
Claim(p, j) ==
    /\ Polling(p, "claim") /\ j \in poll[p].todo
    /\ IF job[j] = "queued"
         THEN /\ job' = [job EXCEPT ![j] = "running"]
              /\ poll' = [poll EXCEPT ![p].todo = @ \ {j}, ![p].mine = @ \cup {j}]
         ELSE /\ poll' = [poll EXCEPT ![p].todo = @ \ {j}]
              /\ UNCHANGED job
    /\ UNCHANGED <<row, drain, ack, flush, offline, history, faults, timeouts>>

Deliver(p) ==
    /\ Polling(p, "claim") /\ poll[p].todo = {}
    /\ poll' = [poll EXCEPT ![p].step = "next"]
    /\ UNCHANGED <<cloud, flush, offline, history, faults, timeouts>>

\* The agent never learns of the jobs it claimed.
PollLost(p) ==
    /\ Polling(p, "claim")
    /\ Fault
    /\ poll' = [poll EXCEPT ![p] = IdlePoll]
    /\ UNCHANGED <<cloud, flush, offline, history, timeouts>>

Handle(p, j) ==
    /\ Polling(p, "next") /\ j \in poll[p].mine
    /\ poll' = [poll EXCEPT ![p].step = "wait", ![p].mine = @ \ {j}, ![p].job = j]
    /\ UNCHANGED <<cloud, flush, offline, history, faults, timeouts>>

EndPoll(p) ==
    /\ Polling(p, "next") /\ poll[p].mine = {}
    /\ poll' = [poll EXCEPT ![p] = IdlePoll]
    /\ UNCHANGED <<cloud, flush, offline, history, faults, timeouts>>

\* ackJob: the request arrives, and the agent waits at step for the answer.
SendAck(p, ok, step) ==
    /\ ack' = [ack EXCEPT ![<<poll[p].job, ok>>] = "outbox"]
    /\ poll' = [poll EXCEPT ![p].step = step, ![p].ok = ok]
    /\ UNCHANGED <<row, job, drain>>

\* Tally does not run.
NotRunning(p) ==
    /\ Polling(p, "wait")
    /\ SendAck(p, FALSE, "acking")
    /\ UNCHANGED <<flush, offline, history, faults, timeouts>>

\* withCompanyWriteLock: no other poll posts.
StartPost(p) ==
    /\ Polling(p, "wait")
    /\ \A q \in Polls : ~Polling(q, "post")
    /\ poll' = [poll EXCEPT ![p].step = "post"]
    /\ posted' = [posted EXCEPT ![poll[p].job] = @ + 1]
    /\ UNCHANGED <<cloud, flush, offline, answered, flushed, safe, faults, timeouts>>

\* A 2xx, whatever its body says of the import.
PostAnswered(p) ==
    /\ Polling(p, "post")
    /\ answered' = answered \cup {poll[p].job}
    /\ SendAck(p, TRUE, "acking")
    /\ UNCHANGED <<flush, offline, posted, flushed, safe, faults, timeouts>>

PostRefusedAcked(p) ==  \* mutant: postXml calls every answer a success
    /\ Polling(p, "post")
    /\ SendAck(p, TRUE, "acking")
    /\ UNCHANGED <<flush, offline, history, faults, timeouts>>

\* Any other status.
PostRefused(p) ==
    /\ Polling(p, "post")
    /\ SendAck(p, FALSE, "acking")
    /\ UNCHANGED <<flush, offline, history, faults, timeouts>>

\* The answer did not come: the XML goes to the queue file.
PostThrows(p) ==
    /\ Polling(p, "post")
    /\ timeouts < MaxTimeouts /\ timeouts' = timeouts + 1
    /\ offline' = offline \cup {poll[p].job}
    /\ safe' = IF \A f \in Flushes : flush[f].step = "idle"
                 THEN safe \cup {poll[p].job} ELSE safe
    /\ SendAck(p, FALSE, "lastAck")
    /\ UNCHANGED <<flush, posted, answered, flushed, faults>>

AckAnswered(p) ==
    /\ poll[p].step \in {"acking", "lastAck"}
    /\ ack[<<poll[p].job, poll[p].ok>>] = "none"
    /\ poll' = [poll EXCEPT ![p].step = "next"]
    /\ UNCHANGED <<cloud, flush, offline, history, faults, timeouts>>

\* ackJob throws: the request was lost, or the server goes on with it.  The catch
\* reports a failure; if that throws too, it is ignored.
AckThrows(p) ==
    /\ Fault
    /\ \/ /\ Polling(p, "acking")
          /\ \E lost \in BOOLEAN : ack' =
                [ack EXCEPT ![<<poll[p].job, poll[p].ok>>] = IF lost THEN "none" ELSE @,
                            ![<<poll[p].job, FALSE>>] = "outbox"]
          /\ poll' = [poll EXCEPT ![p].step = "lastAck", ![p].ok = FALSE]
       \/ /\ Polling(p, "lastAck")
          /\ poll' = [poll EXCEPT ![p].step = "next"]
          /\ UNCHANGED ack
    /\ UNCHANGED <<row, job, drain, flush, offline, history, timeouts>>

-----------------------------------------------------------------------------
(* acknowledgeAgentJob: the outbox row first, the job last.                *)

AckOutboxJobWord(j, ok) ==  \* mutant: the row gets the status of the job
    /\ ack[<<j, ok>>] = "outbox"
    /\ row' = [row EXCEPT ![j[2]] = IF ok THEN "succeeded" ELSE "failed"]
    /\ ack' = [ack EXCEPT ![<<j, ok>>] = "job"]
    /\ UNCHANGED <<job, drain, agent, history, faults, timeouts>>

AckOutboxOkOnly(j, ok) ==  \* mutant: a failed job leaves its row alone
    /\ ack[<<j, ok>>] = "outbox"
    /\ row' = IF ok THEN [row EXCEPT ![j[2]] = "processed"] ELSE row
    /\ ack' = [ack EXCEPT ![<<j, ok>>] = "job"]
    /\ UNCHANGED <<job, drain, agent, history, faults, timeouts>>

AckOutbox(j, ok) ==
    /\ ack[<<j, ok>>] = "outbox"
    /\ row' = [row EXCEPT ![j[2]] = IF ok THEN "processed" ELSE "failed"]
    /\ ack' = [ack EXCEPT ![<<j, ok>>] = "job"]
    /\ UNCHANGED <<job, drain, agent, history, faults, timeouts>>

\* The update of the row throws, and the acknowledgement goes on without it.
AckOutboxFails(j, ok) ==
    /\ ack[<<j, ok>>] = "outbox"
    /\ Fault
    /\ ack' = [ack EXCEPT ![<<j, ok>>] = "job"]
    /\ UNCHANGED <<row, job, drain, agent, history, timeouts>>

\* Unconditional: an ended job may change its outcome.
AckJob(j, ok) ==
    /\ ack[<<j, ok>>] = "job"
    /\ job' = [job EXCEPT ![j] = IF ok THEN "succeeded" ELSE "failed"]
    /\ ack' = [ack EXCEPT ![<<j, ok>>] = "none"]
    /\ UNCHANGED <<row, drain, agent, history, faults, timeouts>>

AckLost(j, ok) ==
    /\ ack[<<j, ok>>] # "none"
    /\ Fault
    /\ ack' = [ack EXCEPT ![<<j, ok>>] = "none"]
    /\ UNCHANGED <<row, job, drain, agent, history, timeouts>>

-----------------------------------------------------------------------------
(* flushOfflineQueue with OfflineQueue.flush, and the agent's crash.       *)

Flushing(f, step) == flush[f].step = step

StartFlush(f) ==
    /\ Flushing(f, "idle") /\ offline # {}
    /\ flush' = [flush EXCEPT ![f].step = "items", ![f].items = offline]
    /\ UNCHANGED <<cloud, poll, offline, history, faults, timeouts>>

\* Outside withCompanyWriteLock.
FlushPost(f, j) ==
    /\ Flushing(f, "items") /\ j \in flush[f].items
    /\ flush' = [flush EXCEPT ![f].step = "post", ![f].items = @ \ {j}, ![f].job = j]
    /\ UNCHANGED <<cloud, poll, offline, history, faults, timeouts>>

FlushAnswered(f) ==
    /\ Flushing(f, "post")
    /\ flush' = [flush EXCEPT ![f].step = "items"]
    /\ flushed' = flushed \cup {flush[f].job}
    /\ UNCHANGED <<cloud, poll, offline, posted, answered, safe, faults, timeouts>>

FlushRefusedDropped(f) ==  \* mutant: what the handler returns is not looked at
    /\ Flushing(f, "post")
    /\ flush' = [flush EXCEPT ![f].step = "items"]
    /\ UNCHANGED <<cloud, poll, offline, history, faults, timeouts>>

\* Another status, or no answer.
FlushRefused(f) ==
    /\ Flushing(f, "post")
    /\ flush' = [flush EXCEPT ![f].step = "items", ![f].left = @ \cup {flush[f].job}]
    /\ UNCHANGED <<cloud, poll, offline, history, faults, timeouts>>

Flushed(f) == Flushing(f, "items") /\ flush[f].items = {}

\* The file is written anew: what was appended meanwhile is gone.
EndFlush(f) ==
    /\ Flushed(f)
    /\ offline' = flush[f].left
    /\ flush' = [flush EXCEPT ![f] = IdleFlush]
    /\ UNCHANGED <<cloud, poll, history, faults, timeouts>>

\* The file is truncated before it is written: a crash in between leaves a part.
CutShort ==
    /\ \E f \in Flushes : Flushed(f) /\ offline' \in SUBSET flush[f].left
    /\ safe' = safe \cap offline'

AgentCrash ==
    /\ (\E p \in Polls : ~Polling(p, "idle")) \/ (\E f \in Flushes : ~Flushing(f, "idle"))
    /\ Fault
    /\ poll' = [p \in Polls |-> IdlePoll]
    /\ flush' = [f \in Flushes |-> IdleFlush]
    /\ CutShort \/ UNCHANGED <<offline, safe>>
    /\ UNCHANGED <<cloud, posted, answered, flushed, timeouts>>

-----------------------------------------------------------------------------
DrainStep(d) ==
    \/ FindPending(d) \/ RefuseRow(d) \/ MarkProcessing(d) \/ CreateJob(d) \/ EndDrain(d)

PollStep(p) ==
    \/ FindQueued(p) \/ Deliver(p) \/ EndPoll(p)
    \/ \E j \in JobIds : Claim(p, j) \/ Handle(p, j)
    \/ NotRunning(p) \/ StartPost(p) \/ PostAnswered(p) \/ PostRefused(p) \/ AckAnswered(p)

AckStep(j, ok) == AckOutbox(j, ok) \/ AckJob(j, ok)

FlushStep(f) ==
    \/ StartFlush(f) \/ FlushAnswered(f) \/ FlushRefused(f) \/ EndFlush(f)
    \/ \E j \in JobIds : FlushPost(f, j)

Next ==
    \/ \E d \in Drains : Trigger(d) \/ DrainStep(d) \/ DrainLost(d)
    \/ \E p \in Polls : PollStep(p) \/ PollLost(p) \/ PostThrows(p) \/ AckThrows(p)
    \/ \E j \in JobIds, ok \in BOOLEAN :
           AckStep(j, ok) \/ AckOutboxFails(j, ok) \/ AckLost(j, ok)
    \/ \E f \in Flushes : FlushStep(f)
    \/ AgentCrash

\* A drain and an acknowledgement go on once begun, and the agent keeps polling.
Fairness ==
    /\ \A d \in Drains : WF_vars(DrainStep(d))
    /\ \A p \in Polls : WF_vars(PollStep(p))
    /\ \A j \in JobIds, ok \in BOOLEAN : WF_vars(AckStep(j, ok))

Spec == Init /\ [][Next]_vars /\ Fairness

-----------------------------------------------------------------------------
(* Properties.                                                             *)

\* A row is reported as pushed only after a poll's post of one of its jobs was
\* answered with a 2xx, whatever threw, crashed or was acknowledged late (handleJob,
\* acknowledgeAgentJob).  That the voucher was imported is not known to the code.
ProcessedIsAnswered ==
    \A r \in Rows : row[r] = "processed" => \E d \in Drains : <<d, r>> \in answered

\* XML whose post threw stays in the queue file until a flush has posted it and was
\* answered with a 2xx, though flushes overlap and the agent crashes.  Two losses
\* of the code are left out of `safe`: an append while a flush is under way, and a
\* crash while the file is written (OfflineQueue).
KeptUntilAnswered == \A j \in safe : j \in offline \cup flushed

\* A company never receives two posts at once: what the agent's write lock is for,
\* and what src/docs/TALLY_INTEGRATION_ARCHITECTURE.md:122 says.  A flush posts
\* without the lock.
Writers == {<<"poll", p>> : p \in {q \in Polls : Polling(q, "post")}}
           \cup {<<"flush", f>> : f \in {g \in Flushes : Flushing(g, "post")}}
OneWriterPerCompany == \A v, w \in Writers : v = w

\* Without lost requests the outbox and the jobs tell one story: when no drain
\* and no acknowledgement works on a row, a row shown as pushed has a job that
\* succeeded and a job that ended has left its row decided.
AtRest(r) ==
    \A d \in Drains : /\ drain[d].step \in {"idle", "done"}
                      /\ job[<<d, r>>] \notin {"queued", "running"}
                      /\ \A ok \in BOOLEAN : ack[<<<<d, r>>, ok>>] = "none"
OutcomesAgree ==
    faults = 0 => \A r \in Rows : AtRest(r) =>
        /\ row[r] = "processed" => \E d \in Drains : job[<<d, r>>] = "succeeded"
        /\ row[r] = "pending" => \A d \in Drains : job[<<d, r>>] = "none"
        /\ row[r] # "processing"

\* Polls that overlap, late acknowledgements and crashes included, every job goes
\* through ClaimedWork: no job is posted by two polls or after it ended.
Stage(j) ==
    CASE posted[j] > 1 -> "broken"
      [] posted[j] <= 1 /\ job[j] = "none" -> "absent"
      [] posted[j] <= 1 /\ job[j] \in {"succeeded", "failed"} -> "ended"
      [] posted[j] <= 1 /\ job[j] = "running" ->
           IF posted[j] = 1 THEN "carriedOut" ELSE "claimed"
      [] OTHER -> "queued"
Work == INSTANCE ClaimedWork
    WITH Jobs <- JobIds, stage <- [j \in JobIds |-> Stage(j)]
ImplementsClaimedWork == Work!Spec

\* As long as no request is lost and nothing crashes, a row in processing is
\* decided, though drains overlap and posts throw.
EveryPushIsDecided ==
    \A r \in Rows : row[r] = "processing" ~> row[r] \in {"processed", "failed"} \/ faults > 0
=============================================================================
