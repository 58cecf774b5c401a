---------------------------- MODULE CampaignSend ----------------------------
(***************************************************************************)
(* The marketing campaign send pipeline of Arivu for one campaign of one   *)
(* organisation: the HTTP request that starts a send, the Bull job that     *)
(* runs it, the recipient snapshot, the chunk worker, the credit            *)
(* reservation, and the retries.                                            *)
(*                                                                          *)
(*   server/controllers/marketingCampaignController.js     sendCampaign     *)
(*   server/services/marketing/campaignSendOrchestrator.js the job          *)
(*   server/services/marketing/campaignSendChunkWorker.js  one chunk        *)
(*   server/services/marketing/campaignRecipientSnapshotService.js          *)
(*   server/services/marketing/campaignSendCreditService.js                 *)
(*   server/services/marketing/campaignSendQueueService.js the Bull worker  *)
(*                                                                          *)
(* A "send" is one POST /send together with the job it enqueues.  Every     *)
(* database round trip that writes is a step of its own; consecutive reads  *)
(* with no write between them are one step.  MongoDB gives single-document  *)
(* atomicity only, and the code uses no multi-document transaction, so a    *)
(* crash or another send may fall between any two steps.                    *)
(*                                                                          *)
(* AMDS, the mail service, is external: it takes a batch, rejects the       *)
(* recipients of its suppression list, and may fail after having taken any  *)
(* part of the batch.                                                       *)
(***************************************************************************)
EXTENDS Integers, FiniteSets, CampaignSendTypes

CONSTANTS
    Recipients,       \* the mailable audience of the campaign
    Rejectable,       \* those on the suppression list of AMDS
    Sends,            \* the POST /send requests the run may make
    ChunkSize,        \* CAMPAIGN_SEND_CHUNK_SIZE
    SnapshotBatch,    \* CAMPAIGN_SEND_SNAPSHOT_BATCH_SIZE
    MaxAttempts,      \* CAMPAIGN_SEND_RETRY_PROFILE.attempts
    MaxStalls,        \* Bull's maxStalledCount (1 unless configured)
    InitialCredits,   \* creditsRemaining before the first send
    ForceOptions,     \* values of payload.forceSnapshot (audience changed)
    UserTargets,      \* status changes the user may request
    OrgSlots,         \* CAMPAIGN_SEND_MAX_CONCURRENT_PER_ORG
    PatientUser,      \* the user presses Send only when no send is under way
    MaxCrashes, MaxThrows, MaxAmdsFailures, MaxPolicyChanges,
                      \* bounds on what the environment does
    MaxChunks         \* bound on the chunks of a send: two sends that overlap
                      \* can mark each other's rows unsent for ever

ASSUME RecipientsAssumption ==
    IsFiniteSet(Recipients) /\ Recipients # {} /\ Rejectable \subseteq Recipients
ASSUME SizesAssumption ==
    /\ ChunkSize \in Nat \ {0} /\ SnapshotBatch \in Nat \ {0}
    /\ MaxAttempts \in Nat \ {0} /\ MaxStalls \in Nat /\ InitialCredits \in Nat
ASSUME OptionsAssumption ==
    /\ ForceOptions \subseteq BOOLEAN
    /\ OrgSlots \in Nat \ {0} /\ PatientUser \in BOOLEAN
    /\ UserTargets \subseteq {"paused", "running", "cancelled", "archived"}
ASSUME BoundsAssumption ==
    /\ MaxCrashes \in Nat /\ MaxThrows \in Nat
    /\ MaxAmdsFailures \in Nat /\ MaxPolicyChanges \in Nat /\ MaxChunks \in Nat

VARIABLES
    campaign,     \* the Campaign document
    policy,       \* the OrgEmailPolicy document
    rows,         \* CampaignRecipient.status per recipient, "none" if no row
    comm,         \* Communication.status per recipient, "none" if no document
    unsubscribed, \* recipients with an unsubscribe on record
    accepted,     \* recipients whose message AMDS has taken
    submitted,    \* recipients handed to AMDS at least once
    pc,           \* where each send is
    send,         \* the local variables of each send
    userStatus,   \* status a user request has read its way to, not yet saved
    slots,        \* the counter of the organisation's send slots in Redis
    crashes, throws, amdsFailures, policyChanges

docs == <<campaign, policy, rows, comm>>
amds == <<accepted, submitted>>
world == <<unsubscribed, userStatus, policyChanges>>
counts == <<slots, crashes, throws, amdsFailures>>
vars == <<campaign, policy, rows, comm, unsubscribed, accepted, submitted,
          pc, send, userStatus, slots, crashes, throws, amdsFailures,
          policyChanges>>

-----------------------------------------------------------------------------
(* Types and initial state.                                                *)

SendLocals ==
    [attemptsMade : Nat, stalls : Nat, force : BOOLEAN, resume : BOOLEAN,
     total : Nat, prepared : Nat, chunkIndex : Nat,
     reserved : Nat, initialQueued : Nat, accepted : Nat,
     chunk : SUBSET Recipients, subscribed : SUBSET Recipients,
     took : SUBSET Recipients, toInsert : SUBSET Recipients]

CampaignDoc ==
    [status : CampaignStatus, phase : SendPhase, prepared : Nat,
     lastChunk : Nat, resolved : Nat, creditsReserved : Nat, queued : Nat,
     sendError : BOOLEAN]

PolicyDoc == [status : {"active", "suspended"}, remaining : Int, reserved : Int]

\* Every document, local variable and counter has the type its schema gives it.
TypeOK ==
    /\ campaign \in CampaignDoc
    /\ policy \in PolicyDoc
    /\ rows \in [Recipients -> RowStatus]
    /\ comm \in [Recipients -> CommStatus]
    /\ unsubscribed \subseteq Recipients
    /\ accepted \subseteq Recipients
    /\ submitted \subseteq Recipients
    /\ pc \in [Sends -> Step]
    /\ send \in [Sends -> SendLocals]
    /\ userStatus \in CampaignStatus \cup {"none"}
    /\ slots \in Nat /\ crashes \in Nat /\ throws \in Nat
    /\ amdsFailures \in Nat /\ policyChanges \in Nat

NoLocals ==
    [attemptsMade |-> 0, stalls |-> 0, force |-> FALSE, resume |-> FALSE,
     total |-> 0, prepared |-> 0, chunkIndex |-> 0,
     reserved |-> 0, initialQueued |-> 0, accepted |-> 0, chunk |-> {},
     subscribed |-> {}, took |-> {}, toInsert |-> {}]

Init ==
    /\ campaign = [status |-> "draft", phase |-> "idle", prepared |-> 0,
                   lastChunk |-> 0, resolved |-> 0, creditsReserved |-> 0,
                   queued |-> 0, sendError |-> FALSE]
    /\ policy = [status |-> "active", remaining |-> InitialCredits, reserved |-> 0]
    /\ rows = [r \in Recipients |-> "none"]
    /\ comm = [r \in Recipients |-> "none"]
    /\ unsubscribed = {} /\ accepted = {} /\ submitted = {}
    /\ pc = [s \in Sends |-> "idle"]
    /\ send = [s \in Sends |-> NoLocals]
    /\ userStatus = "none"
    /\ slots = 0 /\ crashes = 0 /\ throws = 0 /\ amdsFailures = 0 /\ policyChanges = 0

-----------------------------------------------------------------------------
(* Queries the code makes.                                                 *)

At(s, step) == pc[s] = step
Goto(s, step) == pc' = [pc EXCEPT ![s] = step]
Max2(a, b) == IF a >= b THEN a ELSE b
Min2(a, b) == IF a <= b THEN a ELSE b

HasSnapshot == \E r \in Recipients : rows[r] # "none"
Total == Cardinality({r \in Recipients : rows[r] # "none"})
\* Mutants: a resume that forgets the prepared rows; rows never ruled out.
PendingRowsOnly == {r \in Recipients : rows[r] = "pending"}
UnsuppressedRows == {r \in Recipients : rows[r] \notin {"none", "suppressed"}}

\* countPendingCampaignRecipients, loadCampaignRecipientChunk: what is left.
PendingRows == {r \in Recipients : rows[r] \in {"pending", "prepared"}}

\* buildCampaignSnapshotResumePlan on the current rows and sendState.
ResumePlan ==
    LET pending   == Cardinality(PendingRows)
        processed == Total - pending
    IN  [isResume      |-> \/ processed > 0
                           \/ campaign.lastChunk > 0
                           \/ campaign.phase \in {"running", "failed"} /\ pending > 0,
         resolved      |-> IF campaign.resolved > 0 THEN campaign.resolved ELSE Total,
         prepared      |-> Max2(processed, campaign.prepared),
         lastChunk     |-> campaign.lastChunk,
         initialQueued |-> campaign.queued]

\* assertCampaignSendPolicy: credits already reserved are subtracted again.  The
\* other limits of the policy (campaign size, daily limit, warm-up throughput and
\* reputation) refuse in the same way and are taken as wide enough.
PolicyAllows(count) ==
    /\ policy.status = "active"
    /\ count <= Max2(0, Max2(0, policy.remaining) - Max2(0, policy.reserved))

\* The chunk pipeline passes skipAlreadySentGuard = appendStats.
Append(s) == send[s].chunkIndex > 0 \/ send[s].prepared > 0

\* Mutant: the catch of the chunk swallows the error and goes on.
HandlerSwallows(step) ==
    IF step \in ChunkTry THEN "apply"
    ELSE IF step \in SendTry THEN "sendCatch"
    ELSE IF step \in BeforeTry THEN "jobCatch"
    ELSE "attemptFailed"

\* What a throw leaves the run to: the handler of the innermost try block.
Handler(step) ==
    IF step \in ChunkTry THEN "chunkFailed"
    ELSE IF step \in SendTry THEN "sendCatch"
    ELSE IF step \in BeforeTry THEN "jobCatch"
    ELSE "attemptFailed"

-----------------------------------------------------------------------------
(* The request: sendCampaign and enqueueCampaignSend.                      *)

\* No send is between its request and its end.
Quiet == \A s \in Sends : pc[s] \in EndSteps \cup {"idle"}

\* The controller loads the campaign and refuses one that cannot be sent.
ReceiveRequest(s) ==
    /\ At(s, "idle")
    /\ campaign.status \in SENDABLE_STATUSES
    /\ PatientUser => Quiet
    /\ \E f \in ForceOptions : send' = [send EXCEPT ![s].force = f]
    /\ Goto(s, IF campaign.status = "failed" THEN "resetRows" ELSE "request")
    /\ UNCHANGED <<docs, amds, world, counts>>

\* Mutant: writes a status of Communication into CampaignRecipient.
ResetRowsToFailed(s) ==
    /\ At(s, "resetRows")
    /\ rows' = [r \in Recipients |->
                  IF rows[r] \in {"prepared", "queued"} THEN "failed" ELSE rows[r]]
    /\ Goto(s, "resetComms")
    /\ UNCHANGED <<campaign, policy, comm, amds, world, send, counts>>

\* resetFailedCampaignForResend, three updates one after the other.
ResetRows(s) ==
    /\ At(s, "resetRows")
    /\ rows' = [r \in Recipients |->
                  IF rows[r] \in {"prepared", "queued"} THEN "pending" ELSE rows[r]]
    /\ Goto(s, "resetComms")
    /\ UNCHANGED <<campaign, policy, comm, amds, world, send, counts>>

ResetComms(s) ==
    /\ At(s, "resetComms")
    /\ comm' = [r \in Recipients |-> IF comm[r] = "sending" THEN "failed" ELSE comm[r]]
    /\ Goto(s, "resetCampaign")
    /\ UNCHANGED <<campaign, policy, rows, amds, world, send, counts>>

ResetCampaign(s) ==
    /\ At(s, "resetCampaign")
    /\ campaign' = [campaign EXCEPT !.status = "draft", !.phase = "idle",
                      !.prepared = 0, !.lastChunk = 0, !.queued = 0,
                      !.sendError = FALSE]
    /\ Goto(s, "request")
    /\ UNCHANGED <<policy, rows, comm, amds, world, send, counts>>

Estimate == Max2(Cardinality(Recipients), campaign.resolved)

\* The policy check refuses the request with 400.
RejectRequest(s) ==
    /\ At(s, "request")
    /\ ~PolicyAllows(Estimate)
    /\ Goto(s, "rejected")
    /\ UNCHANGED <<docs, amds, world, send, counts>>

\* enqueueCampaignSend: the phase becomes queued and Bull gets the job.  What it
\* reads of the rows and the campaign just before is read in the same step.
Enqueue(s) ==
    LET isResume == ~send[s].force /\ ResumePlan.isResume
    IN  /\ At(s, "request")
        /\ PolicyAllows(Estimate)
        /\ campaign' = [campaign EXCEPT
                          !.phase = "queued",
                          !.resolved = IF isResume THEN ResumePlan.resolved ELSE Estimate,
                          !.prepared = IF isResume THEN @ ELSE 0,
                          !.lastChunk = IF isResume THEN @ ELSE 0]
        /\ send' = [send EXCEPT ![s].resume = isResume]
        /\ Goto(s, "waiting")
        /\ UNCHANGED <<policy, rows, comm, amds, world, counts>>

-----------------------------------------------------------------------------
(* The job up to the first chunk: runCampaignSendFromSnapshot.             *)

\* A Bull worker takes the job and waits for a send slot of the organisation.  The
\* slots are counted, not locked: the counter may be too low (SlotsWiped), and then
\* more sends run than there are slots.  CampaignOrgLimiter has the commands.
TakeJob(s) ==
    /\ At(s, "waiting")
    /\ slots < OrgSlots
    /\ slots' = slots + 1
    /\ Goto(s, "decide")
    /\ UNCHANGED <<docs, amds, world, send, crashes, throws, amdsFailures>>

\* The attempt ends: a decrement, and a counter that is not above zero is deleted.
ReleaseSlot ==
    /\ slots' = IF slots = 0 THEN 0 ELSE slots - 1
    /\ UNCHANGED <<crashes, throws, amdsFailures>>

\* Resume from the rows that exist, or resolve the audience again; a third
\* attempt (attemptsMade > 1) always resumes.
Decide(s) ==
    LET isResume == \/ send[s].resume
                    \/ send[s].attemptsMade > 1
                    \/ HasSnapshot /\ ResumePlan.isResume /\ ~send[s].force
        total    == IF HasSnapshot THEN ResumePlan.resolved ELSE 0
    IN  /\ At(s, "decide")
        /\ IF ~isResume
             THEN /\ Goto(s, "resolving")
                  /\ UNCHANGED send
             ELSE /\ Goto(s, IF total = 0 THEN "jobCatch" ELSE "resumeCheck")
                  /\ send' = [send EXCEPT
                        ![s].total = total,
                        ![s].prepared = ResumePlan.prepared,
                        ![s].chunkIndex = ResumePlan.lastChunk,
                        ![s].initialQueued = ResumePlan.initialQueued]
        /\ UNCHANGED <<docs, amds, world, counts>>

MarkResolving(s) ==
    /\ At(s, "resolving")
    /\ campaign' = [campaign EXCEPT !.phase = "resolving"]
    /\ Goto(s, "clear")
    /\ UNCHANGED <<policy, rows, comm, amds, world, send, counts>>

\* snapshotCampaignRecipients: delete every row, then insert in batches.
ClearSnapshot(s) ==
    /\ At(s, "clear")
    /\ rows' = [r \in Recipients |-> "none"]
    /\ send' = [send EXCEPT ![s].toInsert = Recipients]
    /\ Goto(s, "insert")
    /\ UNCHANGED <<campaign, policy, comm, amds, world, counts>>

\* One insertMany; a row another send inserted meanwhile is a duplicate key.
InsertBatch(s) ==
    /\ At(s, "insert")
    /\ send[s].toInsert # {}
    /\ \E batch \in SUBSET send[s].toInsert :
         /\ Cardinality(batch) = Min2(SnapshotBatch, Cardinality(send[s].toInsert))
         /\ rows' = [r \in Recipients |->
                       IF r \in batch /\ rows[r] = "none" THEN "pending" ELSE rows[r]]
         /\ send' = [send EXCEPT
               ![s].toInsert = @ \ batch,
               ![s].total = @ + Cardinality({r \in batch : rows[r] = "none"})]
    /\ UNCHANGED <<campaign, policy, comm, amds, world, pc, counts>>

SnapshotDone(s) ==
    /\ At(s, "insert")
    /\ send[s].toInsert = {}
    /\ Goto(s, IF send[s].total = 0 THEN "jobCatch" ELSE "resolved")
    /\ UNCHANGED <<docs, amds, world, send, counts>>

RecordSnapshot(s) ==
    /\ At(s, "resolved")
    /\ campaign' = [campaign EXCEPT !.resolved = send[s].total, !.prepared = 0,
                                    !.lastChunk = 0]
    /\ Goto(s, "precheck")
    /\ UNCHANGED <<policy, rows, comm, amds, world, send, counts>>

\* A resume that finds nothing pending reports what the last attempt left.
ResumeCheck(s) ==
    /\ At(s, "resumeCheck")
    /\ Goto(s, IF PendingRows # {} THEN "precheck"
               ELSE IF \/ campaign.status = "failed"
                       \/ campaign.sendError
                       \/ campaign.queued = 0 /\ campaign.status # "completed"
                    THEN "jobCatch"
               ELSE "resumeDone")
    /\ UNCHANGED <<docs, amds, world, send, counts>>

ResumeDone(s) ==
    /\ At(s, "resumeDone")
    /\ campaign' = [campaign EXCEPT !.phase = "completed"]
    /\ Goto(s, "done")
    /\ ReleaseSlot
    /\ UNCHANGED <<policy, rows, comm, amds, world, send>>

Precheck(s) ==
    /\ At(s, "precheck")
    /\ Goto(s, IF PolicyAllows(send[s].total) THEN "reserve" ELSE "jobCatch")
    /\ UNCHANGED <<docs, amds, world, send, counts>>

-----------------------------------------------------------------------------
(* Credits: reserve, release and finalize are two updates each.            *)

ReserveAgain(s) ==  \* mutant: every attempt reserves anew
    /\ At(s, "reserve")
    /\ Goto(s, "reserveTake")
    /\ UNCHANGED <<docs, amds, world, send, counts>>

\* A reservation the campaign still carries is used again.
ReadReservation(s) ==
    /\ At(s, "reserve")
    /\ send' = [send EXCEPT ![s].reserved = campaign.creditsReserved]
    /\ Goto(s, IF campaign.creditsReserved > 0 THEN "start" ELSE "reserveTake")
    /\ UNCHANGED <<docs, amds, world, counts>>

\* Mutant: trusts the precheck for the amount.  Below, the filter of the update.
CanReserveUnchecked(amount) == policy.status = "active" /\ amount >= 0

CanReserve(amount) == policy.status = "active" /\ policy.remaining >= amount

TakeCredits(s) ==
    /\ At(s, "reserveTake")
    /\ CanReserve(send[s].total)
    /\ policy' = [policy EXCEPT !.remaining = @ - send[s].total,
                                !.reserved = @ + send[s].total]
    /\ send' = [send EXCEPT ![s].reserved = send[s].total]
    /\ Goto(s, "reserveRecord")
    /\ UNCHANGED <<campaign, rows, comm, amds, world, counts>>

TakeCreditsFails(s) ==
    /\ At(s, "reserveTake")
    /\ ~CanReserve(send[s].total)
    /\ Goto(s, "jobCatch")
    /\ UNCHANGED <<docs, amds, world, send, counts>>

RecordReservation(s) ==
    /\ At(s, "reserveRecord")
    /\ campaign' = [campaign EXCEPT !.creditsReserved = send[s].reserved]
    /\ Goto(s, "start")
    /\ UNCHANGED <<policy, rows, comm, amds, world, send, counts>>

FinalizeCredits(s) ==
    LET totalAccepted == send[s].initialQueued + send[s].accepted
    IN  /\ At(s, "finalize")
        /\ policy' = [policy EXCEPT
                        !.reserved = @ - send[s].reserved,
                        !.remaining = @ + Max2(0, send[s].reserved - totalAccepted)]
        /\ Goto(s, "finalizeClear")
        /\ UNCHANGED <<campaign, rows, comm, amds, world, send, counts>>

ReleaseCredits(s) ==
    /\ At(s, "release")
    /\ policy' = [policy EXCEPT !.reserved = @ - send[s].reserved,
                                !.remaining = @ + send[s].reserved]
    /\ Goto(s, "releaseClear")
    /\ UNCHANGED <<campaign, rows, comm, amds, world, send, counts>>

ClearReservation(s) ==
    /\ pc[s] \in {"finalizeClear", "releaseClear"}
    /\ campaign' = [campaign EXCEPT !.creditsReserved = 0]
    /\ Goto(s, IF At(s, "finalizeClear") THEN "complete" ELSE "jobCatch")
    /\ UNCHANGED <<policy, rows, comm, amds, world, send, counts>>

-----------------------------------------------------------------------------
(* The chunk loop: processCampaignSendChunk inside the try of the job.     *)

Start(s) ==
    /\ At(s, "start")
    /\ campaign' = [campaign EXCEPT !.phase = "running", !.resolved = send[s].total]
    /\ Goto(s, "load")
    /\ UNCHANGED <<policy, rows, comm, amds, world, send, counts>>

\* loadCampaignRecipientChunk: the next rows still pending, or the end.
LoadChunk(s) ==
    /\ At(s, "load")
    /\ send[s].chunkIndex < MaxChunks
    /\ \E chunk \in SUBSET PendingRows :
         /\ Cardinality(chunk) = Min2(ChunkSize, Cardinality(PendingRows))
         /\ send' = [send EXCEPT ![s].chunk = chunk]
    /\ Goto(s, IF PendingRows = {} THEN "finish" ELSE "chunk")
    /\ UNCHANGED <<docs, amds, world, counts>>

\* The guards of a chunk: not sent yet unless appending, and not cancelled.
GuardChunk(s) ==
    LET refused == \/ ~Append(s) /\ campaign.status \in {"running", "completed"}
                   \/ campaign.status \in {"cancelled", "archived"}
    IN  /\ At(s, "chunk")
        /\ Goto(s, IF refused THEN "sendCatch" ELSE "filter")
        /\ UNCHANGED <<docs, amds, world, send, counts>>

FilterSubscribed(s) ==
    /\ At(s, "filter")
    /\ send' = [send EXCEPT ![s].subscribed = send[s].chunk \ unsubscribed]
    /\ Goto(s, "suppress")
    /\ UNCHANGED <<docs, amds, world, counts>>

SuppressChunk(s) ==  \* mutant: marks the subscribers of the chunk as well
    /\ At(s, "suppress")
    /\ rows' = [r \in Recipients |->
                  IF r \in send[s].chunk /\ rows[r] # "none"
                    THEN "suppressed" ELSE rows[r]]
    /\ Goto(s, IF send[s].subscribed = {} THEN "bookkeep" ELSE "claim")
    /\ UNCHANGED <<campaign, policy, comm, amds, world, send, counts>>

\* markCampaignRecipientsSuppressed; a chunk with no subscriber ends here.
Suppress(s) ==
    /\ At(s, "suppress")
    /\ rows' = [r \in Recipients |->
                  IF r \in send[s].chunk \ send[s].subscribed /\ rows[r] # "none"
                    THEN "suppressed" ELSE rows[r]]
    /\ Goto(s, IF send[s].subscribed = {} THEN "bookkeep" ELSE "claim")
    /\ UNCHANGED <<campaign, policy, comm, amds, world, send, counts>>

\* A suspended policy throws; the first chunk marks the campaign running.
ClaimCampaign(s) ==
    /\ At(s, "claim")
    /\ IF policy.status = "suspended"
         THEN Goto(s, "sendCatch") /\ UNCHANGED campaign
         ELSE /\ Goto(s, "persist")
              /\ campaign' = IF Append(s) THEN campaign
                             ELSE [campaign EXCEPT !.status = "running"]
    /\ UNCHANGED <<policy, rows, comm, amds, world, send, counts>>

\* persistCampaignCommunications keeps a document that exists already.  Its find and
\* its insertMany are one step.
PersistCommunications(s) ==
    /\ At(s, "persist")
    /\ comm' = [r \in Recipients |->
                  IF r \in send[s].subscribed /\ comm[r] = "none" THEN "sending" ELSE comm[r]]
    /\ Goto(s, "prepare")
    /\ UNCHANGED <<campaign, policy, rows, amds, world, send, counts>>

PrepareRowsQueued(s) ==  \* mutant: rows are marked queued before the submit
    /\ At(s, "prepare")
    /\ rows' = [r \in Recipients |->
                  IF r \in send[s].subscribed THEN "queued" ELSE rows[r]]
    /\ Goto(s, "submit")
    /\ UNCHANGED <<campaign, policy, comm, amds, world, send, counts>>

\* upsertCampaignRecipientSendRows writes 'prepared' whatever the row said.
PrepareRows(s) ==
    /\ At(s, "prepare")
    /\ rows' = [r \in Recipients |->
                  IF r \in send[s].subscribed THEN "prepared" ELSE rows[r]]
    /\ Goto(s, "submit")
    /\ UNCHANGED <<campaign, policy, comm, amds, world, send, counts>>

\* sendCampaignBatch returns: AMDS took all but its suppression list.
Submit(s) ==
    LET took == send[s].subscribed \ Rejectable
    IN  /\ At(s, "submit")
        /\ submitted' = submitted \cup send[s].subscribed
        /\ accepted' = accepted \cup took
        /\ send' = [send EXCEPT ![s].took = took]
        /\ Goto(s, "apply")
        /\ UNCHANGED <<docs, world, counts>>

\* sendCampaignBatch throws (429, timeout, lost answer) after any part of it.
SubmitFails(s) ==
    /\ At(s, "submit")
    /\ amdsFailures < MaxAmdsFailures
    /\ amdsFailures' = amdsFailures + 1
    /\ \E sent \in SUBSET send[s].subscribed :
         /\ submitted' = submitted \cup sent
         /\ accepted' = accepted \cup (sent \ Rejectable)
    /\ Goto(s, "chunkFailed")
    /\ UNCHANGED <<docs, world, send, slots, crashes, throws>>

ApplyAllSent(s) ==  \* mutant: ignores the rejected keys
    /\ At(s, "apply")
    /\ comm' = [r \in Recipients |->
                  IF r \in send[s].subscribed THEN "sent" ELSE comm[r]]
    /\ Goto(s, "markQueued")
    /\ UNCHANGED <<campaign, policy, rows, amds, world, send, counts>>

\* applyCampaignCommunicationResults: an update for each message, in one step.  AMDS
\* answers for every recipient; one it left out would stay "sending".
ApplyResults(s) ==
    /\ At(s, "apply")
    /\ comm' = [r \in Recipients |->
                  IF r \in send[s].took THEN "sent"
                  ELSE IF r \in send[s].subscribed THEN "failed" ELSE comm[r]]
    /\ Goto(s, "markQueued")
    /\ UNCHANGED <<campaign, policy, rows, amds, world, send, counts>>

\* markCampaignRecipientsQueued: rejected recipients are marked as well.
MarkQueued(s) ==
    /\ At(s, "markQueued")
    /\ rows' = [r \in Recipients |->
                  IF r \in send[s].subscribed /\ rows[r] # "none" THEN "queued" ELSE rows[r]]
    /\ Goto(s, "stats")
    /\ UNCHANGED <<campaign, policy, comm, amds, world, send, counts>>

CountSubscribed(s) ==  \* mutant: counts what was submitted, not what was taken
    LET n == Cardinality(send[s].subscribed)
    IN  /\ At(s, "stats")
        /\ campaign' = [campaign EXCEPT
                          !.status = "running",
                          !.queued = IF Append(s) THEN @ + n ELSE n]
        /\ Goto(s, "bookkeep")
        /\ UNCHANGED <<policy, rows, comm, amds, world, send, counts>>

\* The first chunk sets stats.queued, later ones add to it.
UpdateStats(s) ==
    LET n == Cardinality(send[s].took)
    IN  /\ At(s, "stats")
        /\ campaign' = [campaign EXCEPT
                          !.status = "running",
                          !.queued = IF Append(s) THEN @ + n ELSE n]
        /\ Goto(s, "bookkeep")
        /\ UNCHANGED <<policy, rows, comm, amds, world, send, counts>>

\* The job's counters after a chunk, in memory; the chunk's locals die.
Counted(s) ==
    [send[s] EXCEPT !.prepared = @ + Cardinality(send[s].chunk),
                    !.chunkIndex = @ + 1,
                    !.accepted = @ + Cardinality(send[s].took),
                    !.chunk = {}, !.subscribed = {}, !.took = {}]

\* The same counters in sendState.
Bookkeep(s) ==
    /\ At(s, "bookkeep")
    /\ send' = [send EXCEPT ![s] = Counted(s)]
    /\ campaign' = [campaign EXCEPT !.prepared = Counted(s).prepared,
                                    !.lastChunk = Counted(s).chunkIndex]
    /\ Goto(s, "load")
    /\ UNCHANGED <<policy, rows, comm, amds, world, counts>>

-----------------------------------------------------------------------------
(* The end of the job, the catch blocks, and Bull's retries.               *)

\* A chunk that failed, or no acceptance at all, makes the whole send fail.
Finish(s) ==
    /\ At(s, "finish")
    /\ Goto(s, IF \/ campaign.status = "failed"
                  \/ campaign.sendError
                  \/ send[s].initialQueued + send[s].accepted = 0
               THEN "sendCatch" ELSE "finalize")
    /\ UNCHANGED <<docs, amds, world, send, counts>>

Complete(s) ==
    /\ At(s, "complete")
    /\ campaign' = [campaign EXCEPT !.status = "completed", !.phase = "completed",
                                    !.prepared = send[s].prepared]
    /\ Goto(s, "done")
    /\ ReleaseSlot
    /\ UNCHANGED <<policy, rows, comm, amds, world, send>>

\* catch of processCampaignSendChunk: only a first chunk marks the campaign.
ChunkFailed(s) ==
    /\ At(s, "chunkFailed")
    /\ campaign' = IF Append(s) THEN campaign
                   ELSE [campaign EXCEPT !.status = "failed", !.sendError = TRUE]
    /\ Goto(s, "sendCatch")
    /\ UNCHANGED <<policy, rows, comm, amds, world, send, counts>>

\* catch of runCampaignSendFromSnapshot: release only with no progress.
SendCatch(s) ==
    /\ At(s, "sendCatch")
    /\ IF ~Append(s) /\ send[s].reserved > 0
         THEN Goto(s, "release") /\ UNCHANGED campaign
         ELSE /\ Goto(s, "jobCatch")
              /\ campaign' = [campaign EXCEPT !.phase = "failed",
                                !.prepared = send[s].prepared,
                                !.lastChunk = send[s].chunkIndex]
    /\ UNCHANGED <<policy, rows, comm, amds, world, send, counts>>

\* catch of runCampaignSendJob.
JobCatch(s) ==
    /\ At(s, "jobCatch")
    /\ campaign' = [campaign EXCEPT !.phase = "failed"]
    /\ Goto(s, "attemptFailed")
    /\ UNCHANGED <<policy, rows, comm, amds, world, send, counts>>

\* What Bull keeps of a job between two attempts.
JobData(s) == [NoLocals EXCEPT !.attemptsMade = send[s].attemptsMade,
                               !.stalls = send[s].stalls,
                               !.force = send[s].force, !.resume = send[s].resume]

RetryForever(s) ==  \* mutant: the attempt is not counted
    /\ At(s, "attemptFailed")
    /\ send' = [send EXCEPT ![s] = JobData(s)]
    /\ Goto(s, IF send[s].attemptsMade + 1 < MaxAttempts THEN "waiting" ELSE "failed")
    /\ ReleaseSlot
    /\ UNCHANGED <<docs, amds, world>>

\* Bull counts the attempt and retries, or gives the job up.
AttemptFailed(s) ==
    /\ At(s, "attemptFailed")
    /\ send' = [send EXCEPT ![s] = [JobData(s) EXCEPT !.attemptsMade = @ + 1]]
    /\ Goto(s, IF send[s].attemptsMade + 1 < MaxAttempts THEN "waiting" ELSE "failed")
    /\ ReleaseSlot
    /\ UNCHANGED <<docs, amds, world>>

-----------------------------------------------------------------------------
(* The environment: failures, the user, subscriptions, the email policy.   *)

\* A database or service call throws at any await of the running job.  The
\* counters in memory are ahead of the update that bookkeeps them.
Throw(s) ==
    /\ pc[s] \in ActiveSteps \ {"attemptFailed"}
    /\ throws < MaxThrows
    /\ throws' = throws + 1
    /\ send' = IF At(s, "bookkeep") THEN [send EXCEPT ![s] = Counted(s)] ELSE send
    /\ Goto(s, Handler(pc[s]))
    /\ UNCHANGED <<docs, amds, world, slots, crashes, amdsFailures>>

\* The same inside the HTTP request, which then answers with an error.
ThrowInRequest(s) ==
    /\ pc[s] \in RequestSteps
    /\ throws < MaxThrows
    /\ throws' = throws + 1
    /\ Goto(s, "rejected")
    /\ UNCHANGED <<docs, amds, world, send, slots, crashes, amdsFailures>>

\* The worker process dies.  Bull finds the job stalled and runs it again, at
\* most MaxStalls times, without counting an attempt.  Nobody gives back the
\* slot it held.
Crash(s) ==
    /\ pc[s] \in ActiveSteps
    /\ crashes < MaxCrashes
    /\ crashes' = crashes + 1
    /\ send' = [send EXCEPT ![s] = [JobData(s) EXCEPT !.stalls = @ + 1]]
    /\ Goto(s, IF send[s].stalls < MaxStalls THEN "waiting" ELSE "failed")
    /\ UNCHANGED <<docs, amds, world, slots, throws, amdsFailures>>

\* The counter loses increments: its key expires under a send that outlasts
\* SLOT_TTL_MS, or is deleted between the DECR and the DEL of another worker.
SlotsWiped ==
    /\ slots > 0
    /\ slots' = 0
    /\ UNCHANGED <<docs, amds, world, pc, send, crashes, throws, amdsFailures>>

\* transitionCampaignStatus: read the status, then save the new one.
ReadTransition(target) ==
    /\ userStatus = "none"
    /\ campaign.status \in TransitionFrom[target]
    /\ userStatus' = target
    /\ UNCHANGED <<docs, amds, unsubscribed, policyChanges, pc, send, counts>>

SaveTransition ==
    /\ userStatus # "none"
    /\ campaign' = [campaign EXCEPT !.status = userStatus]
    /\ userStatus' = "none"
    /\ UNCHANGED <<policy, rows, comm, amds, unsubscribed, policyChanges, pc,
                   send, counts>>

\* A recipient unsubscribes or AMDS syncs the policy: bounded together.
Unsubscribe(r) ==
    /\ r \notin unsubscribed
    /\ policyChanges < MaxPolicyChanges
    /\ unsubscribed' = unsubscribed \cup {r}
    /\ policyChanges' = policyChanges + 1
    /\ UNCHANGED <<docs, amds, userStatus, pc, send, counts>>

ChangePolicyStatus ==
    /\ policyChanges < MaxPolicyChanges
    /\ policyChanges' = policyChanges + 1
    /\ policy' = [policy EXCEPT
                    !.status = IF @ = "active" THEN "suspended" ELSE "active"]
    /\ UNCHANGED <<campaign, rows, comm, amds, unsubscribed, userStatus, pc,
                   send, counts>>

-----------------------------------------------------------------------------

RequestStep(s) == \/ ResetRows(s) \/ ResetComms(s) \/ ResetCampaign(s)
                  \/ RejectRequest(s) \/ Enqueue(s)

JobStep(s) == \/ TakeJob(s) \/ Decide(s) \/ MarkResolving(s) \/ ClearSnapshot(s)
              \/ InsertBatch(s) \/ SnapshotDone(s) \/ RecordSnapshot(s)
              \/ ResumeCheck(s) \/ ResumeDone(s) \/ Precheck(s)
              \/ ReadReservation(s) \/ TakeCredits(s) \/ TakeCreditsFails(s)
              \/ RecordReservation(s) \/ Start(s) \/ LoadChunk(s)
              \/ GuardChunk(s) \/ FilterSubscribed(s) \/ Suppress(s)
              \/ ClaimCampaign(s) \/ PersistCommunications(s) \/ PrepareRows(s)
              \/ Submit(s) \/ ApplyResults(s) \/ MarkQueued(s) \/ UpdateStats(s)
              \/ Bookkeep(s) \/ Finish(s) \/ FinalizeCredits(s)
              \/ ReleaseCredits(s) \/ ClearReservation(s) \/ Complete(s)
              \/ ChunkFailed(s) \/ SendCatch(s) \/ JobCatch(s) \/ AttemptFailed(s)

Environment ==
    \/ \E s \in Sends : SubmitFails(s) \/ Throw(s) \/ ThrowInRequest(s) \/ Crash(s)
    \/ \E t \in UserTargets : ReadTransition(t)
    \/ SlotsWiped \/ SaveTransition
    \/ \E r \in Recipients : Unsubscribe(r)
    \/ ChangePolicyStatus

Next == (\E s \in Sends : ReceiveRequest(s) \/ RequestStep(s) \/ JobStep(s))
        \/ Environment

\* The event loop of a live process runs every continuation that is ready,
\* and Bull hands out every job that waits.
Fairness == \A s \in Sends : WF_vars(RequestStep(s)) /\ WF_vars(JobStep(s))

Spec == Init /\ [][Next]_vars /\ Fairness

-----------------------------------------------------------------------------
(* Properties.                                                             *)

\* A row says "queued" only for a recipient that was really handed to AMDS,
\* whatever sends overlap, crash or are reset.
QueuedRowsWereSubmitted ==
    \A r \in Recipients : rows[r] = "queued" => r \in submitted

\* The user sees "sent" only on a message AMDS has accepted.
SentOnlyIfAccepted ==
    \A r \in Recipients : comm[r] = "sent" => r \in accepted

\* Between the answer of AMDS and the updates it leads to, what the chunk is
\* about to record is what AMDS was really given and took; and a recipient the
\* chunk is about to suppress has unsubscribed.  With the three invariants around
\* it this is inductive.
ChunkRecordsFacts ==
    \A s \in Sends :
        /\ pc[s] \in {"apply", "markQueued"} => send[s].subscribed \subseteq submitted
        /\ pc[s] = "apply" => send[s].took \subseteq accepted
        /\ pc[s] = "suppress" => send[s].chunk \ send[s].subscribed \subseteq unsubscribed

\* Reservations of overlapping sends never take the pool below zero.
NoOverdraft == policy.remaining >= 0

\* A campaign shown as completed has handed every recipient of its audience to
\* AMDS, or suppressed it: none is pending and none was lost from the snapshot.
CompletedCoversAudience ==
    campaign.status = "completed" =>
        \A r \in Recipients : rows[r] \in {"queued", "suppressed"}

\* stats.queued counts each accepted recipient at most once, though chunks
\* are retried after crashes that fall before, between or after its updates.
StatsNeverOvercount == campaign.queued <= Cardinality(accepted)

\* Once recorded as queued a recipient is neither prepared for another hand-over
\* nor handed to AMDS again: only a reset or a new snapshot takes the record back.
NeverResubmitQueued ==
    [][\A s \in Sends : PrepareRows(s) \/ Submit(s) =>
         \A r \in send[s].subscribed : rows[r] # "queued"]_vars

\* A completed campaign has paid for what it queued and returned the rest, unless
\* a crash took a worker between the reservation and the settlement.
CompletedSettlesCredits ==
    campaign.status = "completed" /\ crashes = 0 =>
        policy.reserved = 0 /\ policy.remaining = InitialCredits - campaign.queued

\* Whatever throws or fails at AMDS, every job Bull accepted comes to an end, as
\* long as no crash takes a slot with it (CampaignOrgLimiter is about those).
EverySendEnds ==
    \A s \in Sends : pc[s] = "waiting" ~> pc[s] \in EndSteps \/ crashes > 0

\* A row is marked suppressed only for a recipient whose unsubscribe is on
\* record, never for one that merely shared the chunk.
SuppressedHadUnsubscribed ==
    \A r \in Recipients : rows[r] = "suppressed" => r \in unsubscribed
=============================================================================
