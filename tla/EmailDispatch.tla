---------------------------- MODULE EmailDispatch ----------------------------
(***************************************************************************)
(* Outbound email of Arivu: a Communication document is created sending or   *)
(* scheduled, a Bull job or the poller of due mail picks it up, one process   *)
(* claims it and calls the provider, and a user may cancel it before.         *)
(*                                                                          *)
(*   server/controllers/communicationsController.js  createEmail,            *)
(*                                                   cancelScheduledEmail    *)
(*   server/services/emailQueueService.js            queue, poller, worker   *)
(*                                                                          *)
(* A process is one slot of a server in which a job or a poll runs.  Every    *)
(* await that touches the document, the queue or the provider is a step.      *)
(* Bull is external: it keeps one job per job id, refuses a second one with    *)
(* that id until the first is removed, retries a job that threw, and hands a  *)
(* job it believes stalled to another process, though the first may live on.  *)
(***************************************************************************)
EXTENDS Integers, FiniteSets

CONSTANTS
    Mails,           \* Communication documents
    Scheduled,       \* those created with a scheduledAt
    Procs,           \* processes that work on jobs and poll
    QueueAvailable,  \* Redis is configured
    CancelAllowed,   \* the user may cancel scheduled mail
    Attempts,        \* COMMUNICATION_RETRY_PROFILES.EMAIL_SEND.attempts
    MaxStalls,       \* Bull's maxStalledCount
    MaxFaults        \* bound on crashes, throws and lost requests

ASSUME MailsAssumption == Mails # {} /\ Scheduled \subseteq Mails
ASSUME FlagsAssumption == QueueAvailable \in BOOLEAN /\ CancelAllowed \in BOOLEAN
ASSUME BoundsAssumption ==
    Attempts \in Nat \ {0} /\ MaxStalls \in Nat /\ MaxFaults \in Nat

VARIABLES
    status,     \* Communication.status, "none" before the insert
    claimed,    \* metadata.sendClaimId is set
    due,        \* scheduledAt has passed
    job,        \* the Bull job with id email-<mail>
    tries,      \* attempts and stalls Bull has counted for it
    request,    \* where the HTTP request that creates the mail is
    cancel,     \* where the HTTP request that cancels it is
    pc, mail,   \* what each process does, and to which mail
    seen,       \* the status it read
    owns,       \* it runs the Bull job (and not an inline call of the poller)
    calls,      \* calls of sendOutboundCommunication per mail (history)
    faults

vars == <<status, claimed, due, job, tries, request, cancel, pc, mail, seen,
          owns, calls, faults>>
doc == <<status, claimed, due>>
bull == <<job, tries>>
http == <<request, cancel>>
proc == <<pc, mail, seen, owns>>

\* The statuses of the hand-over.  What AMDS reports afterwards by webhook (delivered,
\* opened, bounced, complained, failed: communicationEventHandler.js:95-105, 148-186)
\* is written over them without a condition, and is not modelled.
MailStatus == {"none", "scheduled", "sending", "sent", "failed", "cancelled"}
JobState == {"none", "delayed", "waiting", "active", "finished"}
ProcStep == {"idle", "pollClaim", "pollEnqueue", "read", "claim", "event",
             "provider", "writeSent", "writeFailed", "effects"}

\* Everything has the type its schema or its role gives it.
TypeOK ==
    /\ status \in [Mails -> MailStatus]
    /\ claimed \in [Mails -> BOOLEAN]
    /\ due \in [Mails -> BOOLEAN]
    /\ job \in [Mails -> JobState]
    /\ tries \in [Mails -> [failed : Nat, stalled : Nat]]
    /\ request \in [Mails -> {"none", "enqueue", "syncSend", "syncSent", "syncFailed", "done"}]
    /\ cancel \in [Mails -> {"none", "save", "remove", "done"}]
    /\ pc \in [Procs -> ProcStep]
    /\ mail \in [Procs -> Mails]
    /\ seen \in [Procs -> MailStatus]
    /\ owns \in [Procs -> BOOLEAN]
    /\ calls \in [Mails -> Nat]
    /\ faults \in Nat

Init ==
    /\ status = [m \in Mails |-> "none"]
    /\ claimed = [m \in Mails |-> FALSE]
    /\ due = [m \in Mails |-> FALSE]
    /\ job = [m \in Mails |-> "none"]
    /\ tries = [m \in Mails |-> [failed |-> 0, stalled |-> 0]]
    /\ request = [m \in Mails |-> "none"]
    /\ cancel = [m \in Mails |-> "none"]
    /\ pc = [p \in Procs |-> "idle"]
    /\ mail = [p \in Procs |-> CHOOSE m \in Mails : TRUE]
    /\ seen = [p \in Procs |-> "none"]
    /\ owns = [p \in Procs |-> FALSE]
    /\ calls = [m \in Mails |-> 0]
    /\ faults = 0

-----------------------------------------------------------------------------
(* The requests.                                                           *)

\* createEmail inserts the document.
Create(m) ==
    /\ request[m] = "none"
    /\ status' = [status EXCEPT ![m] = IF m \in Scheduled THEN "scheduled" ELSE "sending"]
    /\ request' = [request EXCEPT ![m] =
         IF m \in Scheduled \/ QueueAvailable THEN "enqueue" ELSE "syncSend"]
    /\ UNCHANGED <<claimed, due, bull, cancel, proc, calls, faults>>

\* queue.add does nothing when the queue knows the job id already.
Added(m, state) == job' = IF job[m] = "none" THEN [job EXCEPT ![m] = state] ELSE job

\* enqueueSend, or enqueueSendDelayed for a scheduled mail.
Enqueue(m) ==
    /\ request[m] = "enqueue"
    /\ request' = [request EXCEPT ![m] = "done"]
    /\ IF QueueAvailable
         THEN Added(m, IF m \in Scheduled THEN "delayed" ELSE "waiting")
         ELSE UNCHANGED job
    /\ UNCHANGED <<doc, tries, cancel, proc, calls, faults>>

\* Without Redis the request calls the provider itself, and takes no claim.
SyncSend(m) ==
    /\ request[m] = "syncSend"
    /\ calls' = [calls EXCEPT ![m] = @ + 1]
    /\ \E outcome \in {"syncSent", "syncFailed"} :
         request' = [request EXCEPT ![m] = outcome]
    /\ UNCHANGED <<doc, bull, cancel, proc, faults>>

SyncWrite(m) ==
    /\ request[m] \in {"syncSent", "syncFailed"}
    /\ status' = [status EXCEPT ![m] = IF request[m] = "syncSent" THEN "sent" ELSE "failed"]
    /\ request' = [request EXCEPT ![m] = "done"]
    /\ UNCHANGED <<claimed, due, bull, cancel, proc, calls, faults>>

\* The server dies, or a database call throws, in the middle of the request.
RequestLost(m) ==
    /\ request[m] \notin {"none", "done"}
    /\ faults < MaxFaults
    /\ faults' = faults + 1
    /\ request' = [request EXCEPT ![m] = "done"]
    /\ UNCHANGED <<doc, bull, cancel, proc, calls>>

\* cancelScheduledEmail: read, save, remove the job.
CancelRead(m) ==
    /\ CancelAllowed
    /\ cancel[m] = "none"
    /\ status[m] = "scheduled"
    /\ cancel' = [cancel EXCEPT ![m] = "save"]
    /\ UNCHANGED <<doc, bull, request, proc, calls, faults>>

CancelSave(m) ==
    /\ cancel[m] = "save"
    /\ status' = [status EXCEPT ![m] = "cancelled"]
    /\ cancel' = [cancel EXCEPT ![m] = "remove"]
    /\ UNCHANGED <<claimed, due, bull, request, proc, calls, faults>>

\* job.remove() throws on a job a worker has locked; the error is ignored.
CancelRemove(m) ==
    /\ cancel[m] = "remove"
    /\ cancel' = [cancel EXCEPT ![m] = "done"]
    /\ job' = IF job[m] = "active" THEN job ELSE [job EXCEPT ![m] = "none"]
    /\ UNCHANGED <<doc, tries, request, proc, calls, faults>>

-----------------------------------------------------------------------------
(* Time and Bull.                                                          *)

BecomeDue(m) ==
    /\ m \in Scheduled /\ ~due[m]
    /\ due' = [due EXCEPT ![m] = TRUE]
    /\ UNCHANGED <<status, claimed, bull, http, proc, calls, faults>>

\* The delay of a job ends no earlier than the schedule (clocks agree).
Promote(m) ==
    /\ job[m] = "delayed" /\ due[m]
    /\ job' = [job EXCEPT ![m] = "waiting"]
    /\ UNCHANGED <<doc, tries, http, proc, calls, faults>>

TakeJob(p, m) ==
    /\ pc[p] = "idle" /\ job[m] = "waiting"
    /\ job' = [job EXCEPT ![m] = "active"]
    /\ pc' = [pc EXCEPT ![p] = "read"]
    /\ mail' = [mail EXCEPT ![p] = m]
    /\ owns' = [owns EXCEPT ![p] = TRUE]
    /\ UNCHANGED <<doc, tries, http, seen, calls, faults>>

\* Bull takes a live but slow job for stalled: its process no longer owns it.
Stall(p) ==
    /\ pc[p] # "idle" /\ owns[p]
    /\ tries[mail[p]].stalled < MaxStalls
    /\ tries' = [tries EXCEPT ![mail[p]].stalled = @ + 1]
    /\ job' = [job EXCEPT ![mail[p]] = "waiting"]
    /\ owns' = [owns EXCEPT ![p] = FALSE]
    /\ UNCHANGED <<doc, http, pc, mail, seen, calls, faults>>

\* removeOnComplete, removeOnFail: the oldest finished jobs are removed.
Evict(m) ==
    /\ job[m] = "finished"
    /\ job' = [job EXCEPT ![m] = "none"]
    /\ tries' = [tries EXCEPT ![m] = [failed |-> 0, stalled |-> 0]]
    /\ UNCHANGED <<doc, http, proc, calls, faults>>

-----------------------------------------------------------------------------
(* The poller: processDueScheduledEmails.                                  *)

PollFind(p, m) ==
    /\ pc[p] = "idle"
    /\ status[m] = "scheduled" /\ due[m]
    /\ pc' = [pc EXCEPT ![p] = "pollClaim"]
    /\ mail' = [mail EXCEPT ![p] = m]
    /\ UNCHANGED <<doc, bull, http, seen, owns, calls, faults>>

\* Mutant: writes the type of an event into the status.
PollClaimProcessing(p) ==
    /\ pc[p] = "pollClaim"
    /\ IF status[mail[p]] = "scheduled"
         THEN /\ status' = [status EXCEPT ![mail[p]] = "processing"]
              /\ pc' = [pc EXCEPT ![p] = "pollEnqueue"]
         ELSE /\ pc' = [pc EXCEPT ![p] = "idle"]
              /\ UNCHANGED status
    /\ UNCHANGED <<claimed, due, bull, http, mail, seen, owns, calls, faults>>

PollClaim(p) ==
    /\ pc[p] = "pollClaim"
    /\ IF status[mail[p]] = "scheduled"
         THEN /\ status' = [status EXCEPT ![mail[p]] = "sending"]
              /\ pc' = [pc EXCEPT ![p] = "pollEnqueue"]
         ELSE /\ pc' = [pc EXCEPT ![p] = "idle"]
              /\ UNCHANGED status
    /\ UNCHANGED <<claimed, due, bull, http, mail, seen, owns, calls, faults>>

\* Without a queue the poller processes the mail itself.
PollEnqueue(p) ==
    /\ pc[p] = "pollEnqueue"
    /\ IF QueueAvailable
         THEN Added(mail[p], "waiting") /\ pc' = [pc EXCEPT ![p] = "idle"]
         ELSE pc' = [pc EXCEPT ![p] = "read"] /\ UNCHANGED job
    /\ UNCHANGED <<doc, tries, http, mail, seen, owns, calls, faults>>

-----------------------------------------------------------------------------
(* The worker: processSendJobInner.                                        *)

\* The process is free again; the job it owns is finished.
Leave(p) ==
    /\ pc' = [pc EXCEPT ![p] = "idle"]
    /\ owns' = [owns EXCEPT ![p] = FALSE]
    /\ job' = IF owns[p] THEN [job EXCEPT ![mail[p]] = "finished"] ELSE job

\* Mutant: takes a mail that is sending for one in other hands.
ReadScheduledOnly(p) ==
    /\ pc[p] = "read"
    /\ seen' = [seen EXCEPT ![p] = status[mail[p]]]
    /\ IF status[mail[p]] = "scheduled" /\ due[mail[p]]
         THEN pc' = [pc EXCEPT ![p] = "claim"] /\ UNCHANGED <<owns, job>>
         ELSE Leave(p)
    /\ UNCHANGED <<doc, tries, http, mail, calls, faults>>

\* A mail that is sent, failed, cancelled or not yet due is left alone.
Read(p) ==
    /\ pc[p] = "read"
    /\ seen' = [seen EXCEPT ![p] = status[mail[p]]]
    /\ IF \/ status[mail[p]] = "scheduled" /\ due[mail[p]]
          \/ status[mail[p]] = "sending"
         THEN pc' = [pc EXCEPT ![p] = "claim"] /\ UNCHANGED <<owns, job>>
         ELSE Leave(p)
    /\ UNCHANGED <<doc, tries, http, mail, calls, faults>>

ClaimableByStatus(p) == status[mail[p]] = seen[p]  \* mutant: forgets the claim id

\* The filter of the update that claims: the status read, and no claim id.
Claimable(p) == status[mail[p]] = seen[p] /\ ~claimed[mail[p]]

Claim(p) ==
    /\ pc[p] = "claim"
    /\ IF Claimable(p)
         THEN /\ status' = [status EXCEPT ![mail[p]] = "sending"]
              /\ claimed' = [claimed EXCEPT ![mail[p]] = TRUE]
              /\ pc' = [pc EXCEPT ![p] = "event"]
              /\ UNCHANGED <<owns, job>>
         ELSE Leave(p) /\ UNCHANGED <<status, claimed>>
    /\ UNCHANGED <<due, tries, http, mail, seen, calls, faults>>

\* Mutant: an event that cannot be appended counts as a failed mail.
AppendEventOrFail(p) ==
    /\ pc[p] = "event"
    /\ \E next \in {"provider", "writeFailed"} : pc' = [pc EXCEPT ![p] = next]
    /\ UNCHANGED <<doc, bull, http, mail, seen, owns, calls, faults>>

\* The 'processing' event is appended before the provider is called.
AppendEvent(p) ==
    /\ pc[p] = "event"
    /\ pc' = [pc EXCEPT ![p] = "provider"]
    /\ UNCHANGED <<doc, bull, http, mail, seen, owns, calls, faults>>

CallProvider(p) ==
    /\ pc[p] = "provider"
    /\ calls' = [calls EXCEPT ![mail[p]] = @ + 1]
    /\ \E outcome \in {"writeSent", "writeFailed"} : pc' = [pc EXCEPT ![p] = outcome]
    /\ UNCHANGED <<doc, bull, http, mail, seen, owns, faults>>

\* The final update has no condition on the status.
WriteResult(p) ==
    /\ pc[p] \in {"writeSent", "writeFailed"}
    /\ status' = [status EXCEPT ![mail[p]] = IF pc[p] = "writeSent" THEN "sent" ELSE "failed"]
    /\ pc' = [pc EXCEPT ![p] = "effects"]
    /\ UNCHANGED <<claimed, due, bull, http, mail, seen, owns, calls, faults>>

\* Events, activity log, SLA: they change no variable of this module.
Effects(p) ==
    /\ pc[p] = "effects"
    /\ Leave(p)
    /\ UNCHANGED <<doc, tries, http, mail, seen, calls, faults>>

\* Bull counts the attempt of a job that threw.
JobThrew(m) ==
    /\ tries' = [tries EXCEPT ![m].failed = @ + 1]
    /\ job' = [job EXCEPT ![m] = IF tries[m].failed + 1 < Attempts THEN "waiting" ELSE "finished"]

\* A database call throws, queue.add is rejected, or the provider's client throws
\* before or after the provider took the mail.  Appending an event never throws.
Throw(p) ==
    /\ pc[p] \notin {"idle", "event"}
    /\ faults < MaxFaults
    /\ faults' = faults + 1
    /\ calls' \in {calls, IF pc[p] = "provider" THEN [calls EXCEPT ![mail[p]] = @ + 1] ELSE calls}
    /\ pc' = [pc EXCEPT ![p] = "idle"]
    /\ owns' = [owns EXCEPT ![p] = FALSE]
    /\ IF owns[p] THEN JobThrew(mail[p]) ELSE UNCHANGED bull
    /\ UNCHANGED <<doc, http, mail, seen>>

\* Mutant: the claim is given back so that another process may go on.
CrashReleases(p) ==
    /\ pc[p] # "idle"
    /\ faults < MaxFaults
    /\ faults' = faults + 1
    /\ pc' = [pc EXCEPT ![p] = "idle"]
    /\ owns' = [owns EXCEPT ![p] = FALSE]
    /\ claimed' = [claimed EXCEPT ![mail[p]] = FALSE]
    /\ IF owns[p]
         THEN /\ job' = [job EXCEPT ![mail[p]] =
                   IF tries[mail[p]].stalled < MaxStalls THEN "waiting" ELSE "finished"]
              /\ tries' = [tries EXCEPT ![mail[p]].stalled = @ + 1]
         ELSE UNCHANGED bull
    /\ UNCHANGED <<status, due, http, mail, seen, calls>>

\* The server dies; Bull runs a job again that it finds stalled.
Crash(p) ==
    /\ pc[p] # "idle"
    /\ faults < MaxFaults
    /\ faults' = faults + 1
    /\ pc' = [pc EXCEPT ![p] = "idle"]
    /\ owns' = [owns EXCEPT ![p] = FALSE]
    /\ IF owns[p]
         THEN /\ job' = [job EXCEPT ![mail[p]] =
                   IF tries[mail[p]].stalled < MaxStalls THEN "waiting" ELSE "finished"]
              /\ tries' = [tries EXCEPT ![mail[p]].stalled = @ + 1]
         ELSE UNCHANGED bull
    /\ UNCHANGED <<doc, http, mail, seen, calls>>

-----------------------------------------------------------------------------

RequestStep(m) == Enqueue(m) \/ SyncSend(m) \/ SyncWrite(m)
CancelStep(m) == CancelSave(m) \/ CancelRemove(m)
ProcStepOf(p) == \/ PollClaim(p) \/ PollEnqueue(p)
                 \/ Read(p) \/ Claim(p) \/ AppendEvent(p) \/ CallProvider(p)
                 \/ WriteResult(p) \/ Effects(p)
Pick(m) == \E p \in Procs : TakeJob(p, m)
Poll(m) == \E p \in Procs : PollFind(p, m)

Next ==
    \/ \E m \in Mails : \/ Create(m) \/ RequestStep(m) \/ RequestLost(m)
                        \/ CancelRead(m) \/ CancelStep(m)
                        \/ BecomeDue(m) \/ Promote(m) \/ Evict(m)
                        \/ Pick(m) \/ Poll(m)
    \/ \E p \in Procs : ProcStepOf(p) \/ Stall(p) \/ Throw(p) \/ Crash(p)

\* Live processes run their continuations, Bull promotes and hands out jobs,
\* the poller's interval fires again and again, and time passes.
Fairness ==
    /\ \A m \in Mails : /\ WF_vars(RequestStep(m)) /\ WF_vars(CancelStep(m))
                        /\ WF_vars(BecomeDue(m)) /\ WF_vars(Promote(m))
                        /\ SF_vars(Pick(m)) /\ SF_vars(Poll(m))
    /\ \A p \in Procs : WF_vars(ProcStepOf(p))

Spec == Init /\ [][Next]_vars /\ Fairness

-----------------------------------------------------------------------------
(* Properties.                                                             *)

\* However often a job is retried, stalls or races the poller, the provider is
\* called at most once for a mail.
AtMostOneCall == \A m \in Mails : calls[m] <= 1

\* A mail shown as sent or failed was handed to the provider.
OutcomeIsReal == \A m \in Mails : status[m] \in {"sent", "failed"} => calls[m] = 1

\* Who may call the provider, and what a call leaves behind: at most one process
\* holds the claim of a mail not yet called for, the claim outlives the process,
\* and a request that sends by itself shares its mail with no process.  This is
\* the inductive invariant behind the two above.
CallAccounting ==
    /\ \A p \in Procs :
         /\ pc[p] \in {"event", "provider"} => claimed[mail[p]] /\ calls[mail[p]] = 0
         /\ pc[p] \in {"writeSent", "writeFailed"} => calls[mail[p]] = 1
         /\ pc[p] # "idle" => mail[p] \in Scheduled \/ QueueAvailable
    /\ \A p, q \in Procs :
         p # q /\ mail[p] = mail[q] =>
            ~(pc[p] \in {"event", "provider"} /\ pc[q] \in {"event", "provider"})
    /\ \A m \in Mails :
         /\ calls[m] = 0 \/ claimed[m] \/ ~(m \in Scheduled \/ QueueAvailable)
         /\ request[m] = "none" => status[m] = "none" /\ calls[m] = 0
         /\ request[m] = "syncSend" => calls[m] = 0
         /\ request[m] \in {"syncSend", "syncSent", "syncFailed"} =>
               m \notin Scheduled /\ ~QueueAvailable
         /\ request[m] \in {"syncSent", "syncFailed"} => calls[m] = 1
         /\ status[m] = "scheduled" => m \in Scheduled
         /\ ~QueueAvailable => job[m] = "none"

\* Once the outcome of a hand-over is recorded no run of a job, no poll and no retry
\* changes it: among the writers modelled here only the save of a cancellation that
\* had read 'scheduled' can.  The webhooks of AMDS replace it by what became of the
\* mail; they are outside the model.
OutcomeIsFinal ==
    [][\A m \in Mails :
         status[m] \in {"sent", "failed"} /\ ~CancelSave(m) => status'[m] = status[m]]_vars

\* Every mail accepted by the API comes to an outcome.
EveryMailIsDecided ==
    \A m \in Mails : status[m] \in {"scheduled", "sending"} ~>
                     status[m] \in {"sent", "failed", "cancelled"}
=============================================================================
