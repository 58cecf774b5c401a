# A TLA+ model of Arivu

Arivu is a multi-tenant business platform: a Node/Express server over MongoDB, Bull queues over
Redis, web and mobile clients, and connectors to outside systems.  Most of its ~6000 source files
are data management and user interface.  This project models the parts where several actors change
the same documents without a transaction: workers, pollers, HTTP requests and outside services,
with crashes, retries and lost answers between any two steps.

All paths below are under `src/server/` unless they start with `src/`.

## 1. The system

| Component | State | Operations | Interacts with | Hard behaviours | What makes it correct |
|---|---|---|---|---|---|
| **Marketing campaign send** (`services/marketing/campaignSend*`, `campaignRecipientSnapshotService`, `campaignMessageBuilder`) | `Campaign` (status, sendState, stats), `CampaignRecipient` rows, `Communication` messages, `OrgEmailPolicy` credits, the Bull job | request a send, snapshot the audience, reserve credits, send chunk by chunk, finish, fail, retry, reset for a resend | Bull (jobs), AMDS (mail service), the limiter, the user's status changes, unsubscribes | a crash or throw between any two updates, two sends of one campaign, partial answers, stale status | nobody is lost or resubmitted; what the documents say really happened; credits add up; every send ends |
| **Send slots** (`campaignSendOrgLimiter`) | one Redis counter with an expiry per organisation | acquire (INCR, PEXPIRE, DECR), release (DECR, DEL) | every campaign send worker | commands of several workers interleave, dead workers, failing commands | a slot is held once, no slot is lost, every waiter gets one |
| **Outbound email dispatch** (`services/emailQueueService`, `controllers/communicationsController`, `platform/communication`) | `Communication` (status, `sendClaimId`), the Bull job `email-<id>` | create, schedule, poll due mail, claim, call the provider, record, cancel | Bull, the poller, the provider | delayed job against poller, stalled reruns, crash around the provider call, cancellation | a mail is handed over at most once, the outcome of the hand-over is real and no job, poll or retry rewrites it, every mail is decided |
| Campaign schedule, A/B tests, inline sends | the same documents, `scheduledAt` | start due campaigns, pick a winner | campaign send | several server instances run the schedule | one send per due campaign |
| AMDS webhooks and policy sync (`services/amds`) | `OrgEmailPolicy`, status of `Communication` | absolute credit balances and policy status; delivered, opened, bounced, complained | campaign credits, sent mail | late or reordered events against `$inc` arithmetic and over the outcome of a hand-over | the pool ends at what AMDS says |
| **Sales order stock** (`services/inventory*Service`, `salesOrderFulfillmentService`, `salesOrderManualService`) | `SalesOrder` and its lines, `SalesOrderFulfillment` events, the ledger, `ItemInventory` balances, `InventoryReservation` | confirm and reserve, cancel and release, ship, drop, backorder, reverse, rebuild | orders, ledger, reservations and balances of several requests | every check reads before it writes; a request makes up to ten writes and may die between them | never claim goods that were not issued; reserve only what is there; balance = ledger and reservations |
| **Gateway captures** (`gatewayWebhookService`, `gatewayCaptureService`, `payment*Service`, `invoicePaymentRollupService`) | `PaymentGatewayEvent`, `PaymentGatewaySession`, `Payment`, `PaymentAllocation`, the invoice's rollup | receive, replay, capture, allocate, roll up, settle or fail the session | payment providers, invoices | duplicate, concurrent and late webhooks, a crash in the middle of a capture | an event is processed only with its booking; a session is linked to an applied payment of its charge; never too little due |
| **Tally push** (`services/connectors`, `src/connectors/arivu-agent`) | outbox rows, sync jobs, the agent's queue file | drain, claim, post, acknowledge, keep and flush | an agent on the customer's host, Tally | overlapping polls, posts without an answer, lost acknowledgements, restarts | a poll posts a job once; a row is reported as pushed only after a post was answered with a 2xx; an item leaves the file only after one |
| Refunds, customer credit; transfers and counts; Tally pull | the same documents | refund, apply credit, transfer, count, import | the three above | check and write in separate round trips | balances stay sums of their entries |
| Mailroom (`platform/mailroom`) | inbound messages, processing failures | process, record a failure, replay | mail providers | replays that overlap | a bounded number of replays |
| Locks and guards (`lib/schedulerLock`, `utils/idempotencyGuard`) | lock documents, keys in memory | acquire per bucket, look up and store | schedulers, HTTP handlers | check then store | one winner |
| Process and automation engine | runs, waits | execute steps, resume | all modules | waits resumed twice | a wait resumes once |
| Helpdesk and SLA, live chat, telephony | cases, clocks, sessions, calls | assign, pause, close | users, providers | assignment races | one owner per session |
| Sales, procurement, import, analytics, AI, content, notifications, access, billing | documents | create, read, convert, render | each other | little: mostly one document per request | – |
| Clients, deployment, docs | – | – | the API | – | – |

`PROJECT.json` lists the components with their status, and the hazards at their lines, including
those of components that are not modelled yet.

The interactions that matter: an HTTP request writes documents and enqueues a Bull job; a worker
takes the job, takes a slot of the organisation, and works through documents with one round trip
per update; it calls an outside service and records the answer in further updates.  No part of this
uses a multi-document transaction.  Bull retries a job that threw and runs a stalled one again, so
everything a job did may be met again by its next run.

## 2. The modules

| Module | Models |
|---|---|
| `CampaignSendTypes` | the enumerations of the send: statuses, phases, steps by enclosing `try` |
| `CampaignSend` | the campaign send pipeline, from the request to the end of the job |
| `CampaignOrgLimiter` | the slot counter in Redis, command by command |
| `EmailDispatch` | creation, queue, poller, claim, provider call and cancellation of mail |
| `SalesOrderStock` | orders, reservations, shipments and balances of one stock item |
| `StockLevel` | abstract: goods leave only if they are there and ordered, and return only if they left |
| `GatewayCapture` | webhooks of payment providers, from the event to the settled session |
| `ChargeLifecycle` | abstract: a charge is recorded, applied, settled, in this order and once |
| `TallyPush` | outbox, sync jobs, the agent's polls and its queue file |
| `ClaimedWork` | abstract: a job is claimed once, carried out at most once, ended once |
| `MC...` | small instances for TLC |
| `..._proofs` | theorems of the module they are named after, with proofs |
| `SalesOrderSerial_proofs` | the theorems of `SalesOrderStock` for requests served one at a time |
| `Sums` | facts about sums of a function over a finite set, which the proofs about ledgers, reservations, allocations and invoices cite |

Conventions of the six detailed specifications: a database round trip that writes is one action;
consecutive reads with no write in between are one action; `pc` says which await a process is at.
A crash, a throw or a step of another process can fall between any two actions.  Operators whose
comment says *mutant* are not part of `Next`: they are plausible bugs, defined next to the
definition they would replace, and used to see that each property notices them.

### 2.1 `CampaignSend`

One campaign of one organisation.  A *send* (an element of `Sends`) is one `POST /send` with the
job it enqueues.

State: `campaign` is the `Campaign` document (status, `sendState`, `stats.queued`, whether
`stats.sendError` is set, `creditsReserved`), `policy` the `OrgEmailPolicy`, `rows` and `comm` the status of
each recipient's `CampaignRecipient` and `Communication`, `send` the locals of
`runCampaignSendFromSnapshot` and what Bull keeps of the job.  `accepted` and `submitted` are
history: what AMDS was given and took.

| Code | Actions |
|---|---|
| `sendCampaign`, `resetFailedCampaignForResend`, `enqueueCampaignSend` | `ReceiveRequest`, `ResetRows`, `ResetComms`, `ResetCampaign`, `RejectRequest`, `Enqueue` |
| worker of `campaignSendQueueService` | `TakeJob`, `AttemptFailed` |
| `runCampaignSendFromSnapshot`, before its `try` | `Decide`, `MarkResolving`, `ClearSnapshot`, `InsertBatch`, `SnapshotDone`, `RecordSnapshot`, `ResumeCheck`, `ResumeDone`, `Precheck`, `Start` |
| `campaignSendCreditService` | `ReadReservation`, `TakeCredits`, `TakeCreditsFails`, `RecordReservation`, `FinalizeCredits`, `ReleaseCredits`, `ClearReservation` |
| `processCampaignSendChunk` | `GuardChunk`, `FilterSubscribed`, `Suppress`, `ClaimCampaign`, `PersistCommunications`, `PrepareRows`, `Submit`, `ApplyResults`, `MarkQueued`, `UpdateStats`, `ChunkFailed` |
| the loop and the end of the job | `LoadChunk`, `Bookkeep`, `Finish`, `Complete`, `SendCatch`, `JobCatch` |
| `acquireCampaignSendOrgSlot`, `releaseCampaignSendOrgSlot` | part of `TakeJob` and of the ends of an attempt (`ReleaseSlot`); `SlotsWiped` |
| environment | `SubmitFails`, `Throw`, `ThrowInRequest`, `Crash`, `ReadTransition`, `SaveTransition`, `Unsubscribe`, `ChangePolicyStatus` |

`Handler` maps a step to the handler of the innermost `try` that encloses it, so `Throw` goes where
the code's exception goes.  AMDS is external: it takes a batch, rejects the recipients in
`Rejectable`, and may fail after having taken any part of the batch.

The slots are a counter here as in Redis, not a lock: `TakeJob` increments it below the limit,
`ReleaseSlot` decrements it and leaves it at 0, a crash leaves its increment behind, and
`SlotsWiped` sets it to 0 at any time while jobs run.  It stands for the `DEL` of a release that
wipes another worker's `INCR`, and for the key's expiry after 30 minutes under a send that lasts
longer.  So more jobs run than there are slots, with one slot as well, and no property takes the
slots for mutual exclusion.  `CampaignOrgLimiter` has the single commands.

Abstracted: the content of messages, the audience query (it always returns `Recipients`), rows that
are skipped for want of an address, the updates of single messages inside `ApplyResults` (one
action; a message AMDS neither rejected nor reported keeps `sending`, a case AMDS as modelled never
produces), reads directly before the write that uses them (`Enqueue`, `PersistCommunications`), the
limits of a policy on size, day, reputation and throughput (`PolicyAllows` keeps status and
credits), and the order in which `loadCampaignRecipientChunk` returns rows (any chunk of the right
size).

### 2.2 `CampaignOrgLimiter`

Jobs of one organisation, each `INCR`, `PEXPIRE`, `DECR` and `DEL` of `tryAcquireRedisSlot` and
`releaseRedisSlot` a step.  `leaked` is history: increments that nobody will take back, because
their worker died or a command failed.  An absent key and the value 0 are one value, which is what
`INCR` and `DECR` make of them.  A polling worker renews the expiry every 200 ms, so `KeyExpires`
is possible only while nobody polls.

### 2.3 `EmailDispatch`

`status`, `claimed` and `due` are the `Communication` document, `job` and `tries` the Bull job with
id `email-<id>`, `request` and `cancel` the two HTTP handlers, and `pc`, `mail`, `seen`, `owns` the
processes that run jobs and poll.  Bull is external and modelled by what the code relies on: one job
per id, a second `add` with a known id ignored, retries, stalled reruns while the first run may live
on (`Stall`), and jobs it forgets (`Evict`).  `calls` counts the calls of
`sendOutboundCommunication` per mail.

The statuses are those of the hand-over.  `delivered`, `opened`, `bounced`, `complained` and a late
`failed` come by webhook from AMDS and are written over the status without a condition
(`services/amds/handlers/communicationEventHandler.js:95-105`, `148-186`); they are not modelled.
What is shown about outcomes is therefore about the jobs, polls and retries of the dispatch: the
status of a sent mail as a user sees it does change again.

### 2.4 `SalesOrderStock`

Up to `Workers` requests at a time, each with its `pc`, its parameters `req` and what it has read,
`seen`.  `order`, `line`, `events`, `ledger`, `rollup` and `resv` are the documents; `ledger` keeps
the sum of the posted deltas per order, and `resv` the reservations of an order in the order of
their last save, which is what `findOne().sort({ updatedAt: -1 })` asks for.  A mongoose `save`
writes only what differs from the loaded document (`RollupSaved`); the one that replaces an array,
`consumedByLedgerEntryIds`, is conditional on the version (`ConsumeSave`).

| Code | Actions |
|---|---|
| `confirmSalesOrder`, `reserveForSalesOrder`, `reserveLine` | `ReceiveConfirm`, `SaveConfirmed`, `ReserveOpen`, `ReserveFind`, `ReserveBalance`, `ReserveSum`, `ReserveCreate`, `BackorderLine`, `UndoConfirm` |
| `cancelSalesOrder`, `releaseForSalesOrder` | `ReceiveCancel`, `SaveCancelled`, `ReleaseFind`, `ReleaseSave` |
| `postSalesOrderFulfillment`, `applyFulfillment`, `postInventoryTransaction` | `ReceivePosting`, `ReadLine`, `StockCheck`, `Post`, `SaveLine`, `ReadLines`, `SaveOrder`, `CreateEvent` |
| `consumeReservation`, `releaseReservationQty` | `ConsumeFind`, `ConsumeSave`, `DropFind`, `DropSave` |
| `reverseSalesOrderFulfillment`, `restoreReservationConsumption` | `ReceiveReversal`, `ReadEvent`, `RestoreFind`, `RestoreSave`, `MarkEvent` |
| `refreshReservedRollup`, `recomputeItemInventory`, `rebuildAllBalances` | `SumReserved`, `SumLedger`, `ReadRollup`, `SaveRollup`, `Rebuild` |
| environment | `Crash` |

`ship` stands for the types that deduct (`ship`, `deliver`, `complete`), `drop` for `cancel`,
`backorder` for itself; `progress` is left out.  One variant, one location, one line per order;
negative stock is not allowed; tracking numbers, delivery notes, cost of goods, the header of the
inventory transaction and the recomputed totals of the order are left out.  No endpoint sets
`On Hold`, so it is not among the statuses.

### 2.5 `GatewayCapture`

A checkout session is one provider charge; an event is a pair of a session and a type.  Providers
deliver an event again until it is acknowledged, to any worker, in any order; an administrator may
replay a stored one.  An event whose signature does not verify is stored too, and answers every later
delivery.  No unique index is assumed: `lib/mongoConnect.js:97` turns automatic index building off in production,
no script builds those of these collections, and the filter of the one on
`Payment.externalReference` (`models/Payment.js:115-121`) contains `$ne`, which MongoDB does not
accept there.  `CreatePayment` is a plain insert.  `Copies` says how often an event may be stored:
with one copy the model is that of a database in which somebody built the index on the provider's
event id (`models/PaymentGatewayEvent.js:61-64`), with more that of the others.  The theorems hold
for any `Copies`.

| Code | Actions |
|---|---|
| `handleProviderWebhook`, `ingestWebhook`, `replayGatewayEventHandler` | `Arrive`, `Redeliver`, `CreateEvent`, `IgnoreEvent`, `RefuseEvent` |
| `processGatewayEvent` | `LoadEvent`, `MarkProcessing`, `ReadSession`, `MarkProcessed`, `MarkFailed` |
| `captureSucceededSession`, `captureFailedSession` | `FindPayment`, `CheckTargets`, `FailSession`, `SucceedSession`, `CaptureFailed` |
| `recordPayment`, `applyPaymentAllocations`, `recalculatePaymentRollups` | `CreatePayment`, `CheckApply`, `Allocate`, `PaymentRollup` |
| `recalculateInvoicePaymentRollups` | `ReadInvoice`, `SumInvoice`, `SaveInvoice` |
| environment | `Crash` |

Sessions pay one invoice each; write-offs, customer credit, refunds, currencies and the use count of a payment
link are left out.  The processor and the capture service each look for an
existing payment; nothing is written in between and the second answer decides, so they are one step.

### 2.6 `TallyPush`

A job is a pair of a drain and an outbox row.  `ack` holds the acknowledgements the server works
on: a request that the agent gave up on may still be carried out.  The agent starts a poll from a
timer whether or not the last one has ended; only the post itself is inside `withCompanyWriteLock`.
So does it start the flushes of the queue file, which post without that lock.

Whether Tally imported what was posted is not in the model, because the code does not know: `ok` is
any 2xx (`src/connectors/arivu-agent/src/xmlClient.js:137-144`, `index.js:272-279`), the flush drops
an item on any 2xx (`index.js:365-370`), and the server never reads the body, in which Tally reports
a voucher it refused.  `PostAnswered` and `FlushAnswered` are such answers, and the properties speak
of answers only.

| Code | Actions |
|---|---|
| `triggerBidirectionalSync`, `drainPendingOutbox` | `Trigger`, `FindPending`, `RefuseRow`, `MarkProcessing`, `CreateJob`, `EndDrain`, `DrainLost` |
| `claimJobsForAgent` | `FindQueued`, `Claim`, `Deliver`, `PollLost` |
| `tickPoll`, `handleJob`, `ackJob` | `Handle`, `NotRunning`, `StartPost`, `PostAnswered`, `PostRefused`, `PostThrows`, `AckAnswered`, `AckThrows`, `EndPoll` |
| `acknowledgeAgentJob` | `AckOutbox`, `AckOutboxFails`, `AckJob`, `AckLost` |
| `flushOfflineQueue`, `OfflineQueue` | `StartFlush`, `FlushPost`, `FlushAnswered`, `FlushRefused`, `EndFlush`; `CutShort` within `AgentCrash` |
| environment | `AgentCrash` |

`posted`, `answered`, `flushed` and `safe` are history: posts begun for a job by a poll, posts of a
poll and of a flush that were answered with a 2xx, and items appended while no flush was under way.
`writeFileSync` truncates the file before it writes (`offlineQueue.js:71-74`): a crash in between
(`CutShort`) leaves any part of what was to be written.  The dead-letter limit of the file (5000 items), jobs that pull and the content of the XML are
left out.

### 2.7 The refinements

`ImplementsStockLevel` maps what has left against an order to the negated sum of its ledger
entries.  `ImplementsLifecycle` maps a charge to a stage by what the documents show: no payment, a payment, a
payment with an allocation, and the session linked to one that is applied; anything else is
`broken`, which `ChargeLifecycle` has no way to reach.  A charge may have more than one payment on
the way (section 3); what the refinement excludes is a session linked to nothing, to an unapplied
payment or to that of another charge, and one that loses its link.  `ImplementsClaimedWork` maps a job to a
stage by its status and the posts begun for it.  The abstract specifications promise safety only;
that things end is stated by the liveness properties of the detailed ones.

## 3. What the runs check

All runs have `CHECK_DEADLOCK FALSE`: a send, job or mail that is finished does nothing more, so
the system really stops.

| Run | Question | Bounds |
|---|---|---|
| `campaign_crashes` | Is nobody lost, counted twice or resubmitted (`CompletedCoversAudience`, `StatsNeverOvercount`, `NeverResubmitQueued`) when workers crash and AMDS fails?  Without a crash, does every send end (`EverySendEnds`), and is a completed one settled exactly (`CompletedSettlesCredits`)? | 3 recipients in 2 chunks and 2 snapshot batches, one rejected by AMDS; 2 sends, the second after the first; a cancellation; 1 slot, wiped at any time; 2 crashes, 2 failed calls at any step |
| `campaign_overlap` | Do the documents tell the truth when two jobs of one campaign run together (`ChunkRecordsFacts`, `QueuedRowsWereSubmitted`, `SentOnlyIfAccepted`, `NoOverdraft`), and is only who unsubscribed suppressed (`SuppressedHadUnsubscribed`)? | 2 recipients, 2 sends at any time, 1 slot (the default) that is wiped at any time, forced snapshots, unsubscribes, 1 change of the policy, 1 database error, credits for one send only |
| `email_retries` | Is a mail handed over at most once, is the outcome of the hand-over real, and does no job, poll or retry rewrite it (`AtMostOneCall`, `OutcomeIsReal`, `CallAccounting`, `OutcomeIsFinal`)? | a scheduled and an immediate mail, 2 processes, 1 stall, 1 fault, cancellation |
| `email_no_redis` | Without a queue, is every mail decided (`EveryMailIsDecided`)? | the same two mails |
| `limiter_accounting` | Does only a lost run lose a slot (`NoSilentLeak`), and does every job end while a slot is left (`EveryJobEnds`)? | 3 jobs of 2 runs, 2 slots, 1 fault |
| `stock_serial` | Do all paths that move stock, one request after the other, leave the documents in agreement (`RestIsConsistent`, `ClosedReservesNothing`), reserve only what is there (`ReservedFromStock`) and implement `StockLevel`? | 2 orders of 2 units, 3 units in stock, any 5 requests |
| `stock_overlap` | With two requests at a time and a crash, is what a line claims issued (`FulfilledIsIssued`; nothing is reversed), is no consumption lost (`NoConsumptionLost`), and does a rebuild repair the balance (`RebuildRepairs`)? | 1 order of 2 units, 2 workers, 4 requests, 1 crash |
| `stock_cancelled_units` | *violated*: a line reserves no more than is open on it (`ReservedIsOpen`) | 1 order, 1 worker, no crash |
| `gateway_captures` | Is a success event processed only when it is booked (`ProcessedIsBooked`), is never too little due (`DueNeverTooLow`), is a session linked only to an applied payment of its charge (`ImplementsLifecycle`), and is everything delivered dealt with (`EveryChargeSettles`)? | 2 checkouts of one invoice, each over all that was due, 3 events, 2 workers, 1 crash, one copy per event |
| `gateway_no_index` | *violated*: one payment per provider charge (`OnePaymentPerCharge`) | 1 checkout with both success events, 2 workers, no crash, up to two copies per event |
| `tally_pushes` | Is a row reported as pushed only after a 2xx (`ProcessedIsAnswered`), is XML kept until then (`KeptUntilAnswered`), do row and job agree (`OutcomesAgree`), is a job worked once (`ClaimedWork`), is every push decided (`EveryPushIsDecided`)? | 1 row, 2 drains, 2 overlapping polls, 1 flush at a time, 1 fault, 2 posts of a poll that throw (those of a flush without bound) |
| `tally_two_writers` | *violated*: a company never receives two posts at once (`OneWriterPerCompany`) | the same, no fault, 1 post that throws |

### The bounds

Two sends are the fewest that can overlap or follow each other.  Three recipients and chunks of two
give a full chunk, a short last one and a batch that is cut off in the middle, and a first and a
later chunk, which the code treats differently.  `MaxAttempts = 3` in `campaign_crashes` is the
code's profile, and its third attempt takes another branch (`attemptsMade > 1`); `campaign_overlap`
is about two jobs, each with one attempt and a stall.  `MaxStalls = 1`
is Bull's default.  `InitialCredits` is at least 2N + N where the run needs credits to suffice:
`computeMaxSendable` subtracts `creditsReserved` from a `creditsRemaining` that the reservation has
reduced already, so that a retry needs its credits twice.  `MaxChunks` matters only in
`campaign_overlap`, where two jobs can mark each other's rows unsent for ever.  Crashes, throws,
failed calls and policy changes are bounded by their constants.

Lines of two units are the smallest of which a part can be shipped, dropped or reserved; a stock of
three is short for two orders and not for one.  Five requests reach confirm, ship, drop, reverse and
one more; four requests by two workers, with each of up to twenty steps and a crash in between,
reach every step while every other one is under way.  A checkout asks for all that is due when it
is opened (`paymentLinkService.js:92-96`).  Of the two checkouts of an invoice of two units the first
was opened while one unit was due, the second while both were: whichever is captured first, the
other is refused, unless both pass the check before either allocates.
A third event, a failure of the first charge, comes before, during or after its capture.
`gateway_captures` has one copy of each event: a second copy is one more event of the same charge,
which the three events already give (`gateway_no_index` has the copies), and the theorems hold for
any number.  One outbox row suffices for `TallyPush`, because a row
interacts only with the jobs made for it; two drains make two jobs for it, two polls can overlap,
two timeouts put both jobs into the queue file, and a fault meets them at every step.  The flushes
of `tally_pushes` follow one another; the theorems are about any number that overlap.

### What does not hold, and under which conditions

`stock_cancelled_units` shows: two units are reserved, one is shipped, the open one is cancelled,
which releases the reservation, and the shipment is reversed.  `restoreReservationConsumption`
finds the released reservation and makes it active again with both units; the cancelled one stays
reserved although the line has only one open.
`docs/INVENTORY_ARCHITECTURE.md:389` has the cancelled units released.

`gateway_no_index` shows two events of one charge, processed at once, each recording a payment.
`docs/PAYMENT_GATEWAYS_ARCHITECTURE.md:531` relies on a unique index; its partial filter contains
`$ne`, which MongoDB does not accept there, and `lib/mongoConnect.js:97` turns automatic index
building off in production.

`tally_two_writers` shows a post that threw, its XML in the queue file, and the flush posting it
while a poll posts for the same company.  `docs/TALLY_INTEGRATION_ARCHITECTURE.md:122` says that *a
single company never receives concurrent XML writes*; `flushOfflineQueue`
(`src/connectors/arivu-agent/src/index.js:365`) does not take the lock.

The properties of `campaign_crashes` need the conditions of their run:

- **No database error in the snapshot.**  A crash there is harmless: the phase stays `resolving`,
  and the next run resolves the audience again.  An error sets the phase to `failed`, which the
  next run takes for a send to resume: it completes without the recipients never inserted.
- **A user who waits** (`PatientUser`): no second request while a send is under way.  Otherwise two
  jobs of one campaign can run together, since the slots do not exclude each other for certain
  (2.1), and `NeverResubmitQueued` does not hold, nor do the others.  And even one after the other
  they disturb each other.  A first chunk that fails sets the status to `failed` while Bull still
  retries; a resend then resets the rows under the running job.  A second request during the first
  job decides to resume because it finds a whole snapshot, which a rerun of the first job then
  clears and begins to build again; if that rerun dies as well, or Bull runs the other job first, the
  second job completes with the rows that are there, and the others are lost.  It takes two failures
  (two crashes, or one and a policy suspended and restored in between).
- **No crash between the two halves of a credit update.**  reserve, release and finalize change
  the pool and the campaign one after the other; `CompletedSettlesCredits` is stated without crashes.

Further deviations met with these models and not kept as runs:

- *Campaigns.*  A crash in the first chunk leaves `running`, and every retry is refused as already
  in progress (`campaignSendChunkWorker.js:185`).  One failed call in the first chunk sets
  `stats.sendError`, which no retry clears: the retry sends everything and then fails
  (`campaignSendOrchestrator.js:252`).  A cancellation saved between a chunk's guard and its updates
  is overwritten by `running` and `completed`.
- *Slots.*  An `INCR` between the `DECR` to 0 and the `DEL` of a release is wiped, and two workers
  hold one slot (`campaignSendOrgLimiter.js:24`); a send of more than 30 minutes loses its slot to the
  key's expiry.
- *Mail.*  The poller's claim can make the delayed job leave without work, while Bull refuses the
  poller's job as a duplicate: the mail stays `sending` (`emailQueueService.js:170`).  A
  cancellation of a mail read as `scheduled` can be saved over `sending` or `sent`.
- *Order of a posting.*  `docs/INVENTORY_ARCHITECTURE.md:534-548` and `603-616` save the order line
  and the fulfilment before `applyFulfillment`, and lines 338 and 548 let a fulfilment post although
  stock refuses it (Policy B).  The code calls `applyFulfillment` first, puts the lines back in
  memory when it throws, and saves them afterwards (`salesOrderFulfillmentService.js:252-275`);
  there is no Policy B.  `FulfilledIsIssued` is the promise of the code's order; by the document's
  order it would fail in between, and under Policy B for good.
- *Stock.*  With two requests at a time, two confirmations reserve the same unit, two postings take
  the ledger below zero, and a cancellation between a confirmation's save and its reservations
  leaves a cancelled order that reserves.  `stock_serial` states these promises for one request at
  a time.
- *Captures.*  After a crash between the payment and the session every redelivery is refused as a
  duplicate; a late failure event leaves a paid session `failed`.  A webhook that was stored as
  `ignored` for a bad signature answers every later delivery of the event: one whose signature is
  valid gets a 200 and books nothing (`gatewayWebhookService.js:48-54`, `123-125`, `228-235`),
  although `docs/PAYMENT_GATEWAY_OPERATIONS.md:323`, `346` and `372` tell the operator to fix the
  secret and let the provider send again.  A charge whose invoice was paid by another checkout stays
  without a payment, as `docs/PAYMENT_GATEWAYS_ARCHITECTURE.md:746-751` says.
- *Tally.*  A voucher that Tally refuses in the body of a 2xx is shown as pushed, and leaves the queue
  file if a flush posted it (2.6).  Drains are not single flight, although `docs/TALLY_INTEGRATION_ARCHITECTURE.md:44` says
  so: a row drained twice makes two jobs.  A post without an answer is reported as failed and sent
  again from the queue file, so the row may end `failed` although Tally took it, once or twice.
  An item appended during a flush is lost when the file is rewritten, and all of them by a crash
  between the truncation of the file and the write.  A job whose poll answer was
  lost stays `running`.

### Fairness

`CampaignSend`: weak fairness of the steps of each request and each job: the event loop of a live
process runs every continuation that is ready, and Bull hands out every waiting job.  No fault, user
action or expiry is assumed.  `EverySendEnds` is stated without crashes: a dead worker's slot
returns only when nobody polls for it, so with one slot and one crash nothing makes the rerun go on.
`EmailDispatch`: the same for requests and processes; waiting jobs are taken, due time comes, and
the poller's interval finds due mail.  `CampaignOrgLimiter`: weak fairness of every job's steps and
of the expiry of a key nobody renews.  `LongSleep` says that a sleep of 200 ms outlasts the two
commands of another worker's trial; without it trials can refuse each other for ever.  It restricts
`Wake` in `limiter_accounting`; the theorems do without it.
`GatewayCapture`: weak fairness of each worker's steps, strong fairness of the delivery of each
event, which is possible again and again while a worker becomes idle: providers redeliver until
acknowledged.  `TallyPush`: weak fairness of the drains, the server's acknowledgements and the
polls, whose timer keeps running; none for the flush or for new drains.  `SalesOrderStock` has safety properties only.

## 4. What is proved

The theorems hold for every audience, number of sends, mails, processes, jobs, orders, charges and
rows, every size, slot count and bound on faults.  They use the named `ASSUME`s of the modules:
finite sets, natural numbers, positive sizes, `BOOLEAN` flags.  Where a theorem needs a condition on
the constants beyond these, it states it as its own assumption, and the list below says why.

Every safety invariant and every action property of the passing runs has a theorem, and so has every
refinement.

**`CampaignSend_proofs`.**

- Without assumptions: `TypeCorrect`, `QueuedIsSubmitted`, `SentIsAccepted`,
  `SuppressedIsUnsubscribed`, `PoolNeverNegative`, `ChunkFacts`.  The inductive invariant is `TypeOK`
  with the four facts and `ChunkRecordsFacts`.  The latter is what makes it inductive: a row is
  marked `queued` from a local of the chunk, two steps after AMDS answered, so the invariant has to
  say that this local still tells the truth, whoever ran in between.  It can, because `submitted`,
  `accepted` and `unsubscribed` only grow.  `PoolNeverNegative` rests on the filter of the
  reservation's update (`creditsRemaining >= amount`), the one check that is atomic with its write.
- `QueuedIsNotResubmitted`, for a user who waits (`PatientUser`) and any number of slots, wiped or
  not.  `OneActive` says that one send runs at a worker at most, `ChunkFresh` that no row of the chunk
  being worked on is `queued`: only the last update of a chunk writes `queued`, and it is the
  chunk's own.
- `QueuedIsNotOvercounted`, for a user who waits and no forced snapshot.  `StatsInv` relates three
  counts: `stats.queued` is at most the number of accepted recipients, and at most the number of
  those whose row is `queued` (`Done`) unless a failed campaign is just being reset (`Exempt`: rows
  first, the count last).  `Holding` carries it over the updates of a chunk: what is about to be
  counted is queued already and not counted yet, so a crash between the two can only undercount.
- `CompletedReachedEveryone`, with `MaxThrows = 0` as well.  `SnapInv`: the snapshot has every row
  (`Whole`) or nobody has begun to work on it (`Raw`), and every send past the snapshot works on a
  whole one.  A crash is harmless, because the next attempt builds the snapshot again; a throw is
  not (section 3, *no database error in the snapshot*), which is why the assumption is there.
- `CompletedIsSettled`, under the same assumptions, about runs without a crash as the property says.
  `CredInv`: at each step of a send, `Account` says what its locals tell of the pool and of
  `stats.queued`; the books are `Reserved`, `Settled`, or between the two updates of a credit
  operation, and settled books mean that nothing is under way (`Closed`).

A user who waits is needed because a request that overtakes a job resets or resumes rows which that
job still works on (section 3); a forced snapshot replaces rows that are queued.

**`EmailDispatch_proofs`.**  `EmailTypeCorrect`, `NeverSentTwice`, `OutcomesAreReal`,
`ClaimIsExclusive`, `OutcomesAreFinal`.  `AtMostOneCall` is not inductive: the invariant adds
`CallAccounting` (at most one process holds the claim of a mail that has not been called for; a claim
is never given back; a request that sends by itself shares its mail with nobody) and `CreatedFirst`.
The argument is the filter of the claim: `sendClaimId` absent, in the same update that sets it.
`OutcomesAreFinal` adds `OneWriter`: whoever is on the way to write an outcome is alone and finds
none, so no retry, poll or second process writes another one (webhooks are not modelled, 2.3).

**`CampaignOrgLimiter_proofs`.**  `LimiterTypes`, `OnlyLostRunsLeak`.  `TypeOK /\ NoSilentLeak` is
inductive; the steps follow from what joining and leaving `Outstanding` do to its cardinality.

**`SalesOrderStock_proofs`.**  Any number of workers, requests and crashes, with and without the index.

- `StockTypes`.  That a reservation is rewritten into a reservation needs more than types: a request
  that saves a row finds it among those of its order (`Loaded`), and the rows of an order are
  numbered without gap or repetition (`Numbered`), which a save keeps although it moves the row.
- `ShippedIsIssued`, under the assumption that nothing is reversed (a reversal gives the goods back
  to the ledger before it lowers the line, so the property does not hold in between; `RestAgrees`
  covers where reversals end).  The invariant says of each posting that what it is going to write to
  the line is covered by the ledger: without its own quantity before the ledger entry (`Post`), with
  it afterwards.  `Flow` says which requests reach which steps.
- `ConsumptionKept`, without reversals, which save a reservation without looking at its version.
  `UpToDate`: the row a posting loaded is not newer than the current one, and as long as the versions
  are equal so are the consumed quantities, so the version check of the save stands for a check of
  the quantity it overwrites.
- `RebuildLeavesAccurate`, without assumptions: what a refresh has read (`Fresh`) stays true as long
  as no other request overlaps it (`Undisturbed`), whatever the documents looked like before.

**`SalesOrderSerial_proofs`.**  One request at a time and no crash (`Workers = {w}`,
`MaxCrashes = 0`), any orders, quantities, settings and number of requests, reversals included:
`RestAgrees`, `ClosedOrdersReserveNothing`, `ReservationsFromStock`, `StockLevelImplemented`.
Both assumptions are needed: section 3 says what two requests at a time do, and a crash between the
ledger entry and the line leaves them apart.  The invariant `SInv` has a part for each thing the one
request must keep: `Route` (the steps its kind takes, where a refresh returns to), `Ordered` (the
status of its order), `Rows` (an order has one reservation at most and a draft none, so a lone save
is never refused by version or index), `Balanced` (outside a refresh the balance is right; within
one, what was read is still so), `LinesAgree`, `Booking` and `Quantities` (lines say what the ledger
says but for the posting between the two, which is covered by stock and by what is open), `Closing`
(what is still to release is on the request's list) and `Reserving` (what is about to be reserved is
there).  `StockLevelImplemented` maps `Post` to `Issue` or `Return` of `StockLevel` and every other
step to a stutter.

**`GatewayCapture_proofs`.**

- `CaptureInvariant`, `ProcessedMeansBooked`, `LinkedPaymentStays`, `CaptureTypes`, without
  assumptions.  The invariant says what a worker knows at its step (`Knows`): it holds a payment
  while it captures, and at `mark_processed` the session of a success event has one.  That stays
  true under all interleavings because no step takes a session's payment away, which is the action
  property `LinkedPaymentStays`.
- `NeverDueTooLittle`, without assumptions: a rollup under way counts no more than what is paid
  (`DueInv`), and what is paid only grows (`PaidGrows`), so whichever rollup writes last writes too
  much due rather than too little.
- `CaptureImplementsLifecycle`, without assumptions: no unique index is needed for what it says.  A
  charge may be recorded more than once (run `gateway_no_index`), but the step from one stage of it
  to the next is never skipped or taken back.  `ChargeInv`: an allocation's payment exists
  (`AppliedExist`), a session is linked only to an applied payment of its own charge
  (`LinksApplied`), and a capture holds a payment of its charge, applied once it is past the
  allocation (`Holds`).  Each of the three survives the steps of other workers because payments and
  allocations are only added (`Grows`).  The refinement then takes each step of a worker to a step of
  `ChargeLifecycle` for its charge or a stutter, and to a stutter for the others.

**`TallyPush_proofs`.**

- `PushTypes`, `PushedIsAnswered`, `KeptInFile`, `PushRefinesClaimedWork`, without assumptions.
  The invariant of `PushedIsAnswered` (`Reported`) says of each acknowledgement of a success that
  its job's post was answered with a 2xx.  That of `KeptInFile` (`Kept`) says that whatever of `safe`
  no flush had an answer for is in the hands of every flush under way (`InHand`), so whichever of
  them rewrites the file last writes it back.  The refinement rests on
  `Exclusive`: the jobs two polls hold are disjoint, a job in a poll's hands is `running`, not
  acknowledged, and not posted before the post; and a drain creates a job once.  The claim's filter
  on the status is what separates two polls.  A lemma takes each step of one job to a step or a
  stutter of `ClaimedWork` (`StageStep`).
- `OutboxAndJobsAgree`.  `OutcomesAgree` speaks of behaviours without faults, but not only of states
  at rest: its invariant `Agreed` says in every state what the status of a row means (`Tells`: a
  pending row has no job, one in processing has a drain or a job that will decide it, a processed one
  a job that succeeded or is about to be recorded so), and that a job is acknowledged once
  (`AckedOnce`).

**`Sums`.**  The sums of the modules are folds of the community modules, defined by recursion over a
set.  The facts needed of them (`SumAdd`, `SumChange`, `SumMonotone`, `SumOpposite`, `SumMoved` and
others) are proved by a least counterexample: if a fact fails for some subset of a finite set, it
fails for one none of whose proper subsets is one (`LeastSubset`), and removing an element of that
one gives a contradiction.

Model-checked only: the liveness properties `EverySendEnds`, `EveryJobEnds`, `EveryMailIsDecided`,
`EveryChargeSettles` and `EveryPushIsDecided`, since fairness and ENABLED are beyond the proof
system.  The three violations are counterexamples, not theorems.

## 5. What is not modelled, and the plan

Not modelled: what is listed as such in `PROJECT.json`.  Of the modelled components: the inline send
without a queue, A/B tests and the schedule, rows skipped for want of an address, the limiter's
counters in memory, the effects of a mail on other records after its outcome, stock postings of type
`progress`, several lines or locations, sessions for several invoices, refunds, the dead letters of
the agent.  The map covers a small share of the repository, most of which is user interface and
data management with one document per request.

Order of the plan:

1. *(done)* `CampaignSend`, `EmailDispatch`, `CampaignOrgLimiter`, with types, safety, liveness and
   theorems.
2. *(done)* `SalesOrderStock` with `StockLevel`, `GatewayCapture` with `ChargeLifecycle`,
   `TallyPush` with `ClaimedWork`.
3. *(done)* Theorems for every safety invariant, action property and refinement of the passing runs.
   Left: the effects of two requests at a time on `SalesOrderStock`, as bounds on how far the balance
   and the reservations can be off.
4. Refunds and reversals on the documents of `GatewayCapture`; transfers between two locations on
   those of `SalesOrderStock`.
5. Several campaigns and AMDS webhooks on one credit pool; the mailroom's replays, the idempotency
   guard and the scheduler lock.
6. Abstract specifications: *each recipient is handed over at most once* for `CampaignSend` with
   a user who waits, *a mail is undecided, then decided once* for `EmailDispatch`.
