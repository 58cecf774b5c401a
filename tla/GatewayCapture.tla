--------------------------- MODULE GatewayCapture ---------------------------
(***************************************************************************)
(* Capture of online payments: a provider's webhook becomes an event, the     *)
(* event a payment, the payment an allocation to the invoice of the checkout   *)
(* session, and the session is marked succeeded last.                        *)
(*                                                                          *)
(*   services/gatewayWebhookService.js          ingest, process             *)
(*   services/gatewayCaptureService.js          capture                     *)
(*   services/paymentRecordService.js, paymentAllocationService.js           *)
(*   services/paymentRollupService.js, invoicePaymentRollupService.js         *)
(*   services/paymentGatewaySessionService.js   markSession...               *)
(*                                                                          *)
(* A checkout raises two success events with ids of their own and one provider *)
(* payment id (Razorpay's payment.captured and order.paid), and a failure       *)
(* event for every attempt that was declined before.  The provider delivers an  *)
(* event again until it is answered with success, in any order, and two         *)
(* deliveries may be processed at once.  Each awaited read or write is a step.  *)
(*                                                                          *)
(* A session has one invoice target, for the whole of its amount.             *)
(*                                                                          *)
(* No unique index is taken for granted.  mongoConnect.js turns autoIndex off   *)
(* and no script builds the indexes of these collections; the filter of the     *)
(* one on Payment.externalReference ($ne) is none that MongoDB accepts.         *)
(***************************************************************************)
EXTENDS Integers, Sequences, Functions

CONSTANTS
    Sessions,         \* checkout sessions, and so provider charges
    Invoices,
    Target,           \* the invoice of each session
    Amount,           \* what each session collects
    Total,            \* grandTotal of each invoice
    Events,           \* the events the provider sends: <<session, type>>
    Copies,           \* how often an event may be stored: one copy where the unique
                      \* index was built, else one for each worker that finds none
    Workers,          \* requests served at a time
    MaxCrashes        \* bound on the server crashes

SuccessTypes == {"captured", "paid"}

ASSUME GatewayAssumption ==
    /\ Target \in [Sessions -> Invoices]
    /\ Amount \in [Sessions -> Nat \ {0}]
    /\ Total \in [Invoices -> Nat]
    /\ Events # {} /\ Events \subseteq Sessions \X (SuccessTypes \cup {"failed"})
    /\ Copies # {} /\ MaxCrashes \in Nat

VARIABLES
    event,        \* PaymentGatewayEvent.processingStatus, "absent" before the insert
    session,      \* PaymentGatewaySession: status and payment (0 is null)
    payments,     \* the payments: whose charge, amountAllocated
    allocations,  \* the active payment allocations
    due,          \* Invoice.amountDue
    pc,           \* the next step of each worker
    at,           \* the event document it processes, or would insert
    own,          \* the payment it created
    seen,         \* the invoice rollup it read, and the sum it computed
    crashes

docs == <<event, session, payments, allocations, due>>
vars == <<docs, pc, at, own, seen, crashes>>

\* The documents of PaymentGatewayEvent.
Docs == Events \X Copies
\* "ignored" stands for a document whose signatureValid is false.
EventStatus == {"absent", "received", "ignored", "processing", "processed", "failed"}
SessionDoc == [status : {"pending", "succeeded", "failed"}, payment : Nat]
Payment == [charge : Sessions, allocated : Nat]
Allocation == [payment : Nat, invoice : Invoices, amount : Nat]

Step == {"idle", "create_event", "load_event", "mark_processing",
         "read_session", "find_payment", "check_targets", "fail_session",
         "create_payment", "check_apply", "allocate", "payment_rollup",
         "read_invoice", "sum_invoice", "save_invoice", "succeed_session",
         "capture_failed", "mark_processed", "mark_failed"}

AtLeast0(n) == IF n < 0 THEN 0 ELSE n

\* Sum of the amounts of the allocations that satisfy Test.
Allocated(Test(_)) ==
    FoldFunction(+, 0, [k \in DOMAIN allocations |->
        IF Test(allocations[k]) THEN allocations[k].amount ELSE 0])
Paid(i) == Allocated(LAMBDA a : a.invoice = i)
AppliedOf(p) == Allocated(LAMBDA a : a.payment = p)

PaymentsOf(s) == {p \in DOMAIN payments : payments[p].charge = s}

TypeOK ==
    /\ event \in [Docs -> EventStatus]
    /\ session \in [Sessions -> SessionDoc]
    /\ payments \in Seq(Payment)
    /\ allocations \in Seq(Allocation)
    /\ due \in [Invoices -> Nat]
    /\ pc \in [Workers -> Step]
    /\ at \in [Workers -> Docs]
    /\ own \in [Workers -> Nat]
    /\ seen \in [Workers -> [due : Nat, paid : Nat]]
    /\ crashes \in Nat

NoEvent == CHOOSE d \in Docs : TRUE
Unread == [due |-> 0, paid |-> 0]

Init ==
    /\ event = [d \in Docs |-> "absent"]
    /\ session = [s \in Sessions |-> [status |-> "pending", payment |-> 0]]
    /\ payments = <<>>
    /\ allocations = <<>>
    /\ due = Total
    /\ pc = [w \in Workers |-> "idle"]
    /\ at = [w \in Workers |-> NoEvent]
    /\ own = [w \in Workers |-> 0]
    /\ seen = [w \in Workers |-> Unread]
    /\ crashes = 0

At(w, step) == pc[w] = step
Goto(w, step) == pc' = [pc EXCEPT ![w] = step]
ChargeOf(d) == d[1][1]
Success(d) == d[1][2] \in SuccessTypes
Stored(e) == {d \in Docs : d[1] = e /\ event[d] # "absent"}
Charge(w) == ChargeOf(at[w])
Invoice(w) == Target[Charge(w)]

\* The request goes on at step; or it is answered.
Continue(w, step) ==
    /\ Goto(w, step)
    /\ UNCHANGED <<at, crashes>>

Answer(w) ==
    /\ Goto(w, "idle")
    /\ at' = [at EXCEPT ![w] = NoEvent]
    /\ own' = [own EXCEPT ![w] = 0]
    /\ seen' = [seen EXCEPT ![w] = Unread]
    /\ UNCHANGED crashes

SetEvent(w, status) == event' = [event EXCEPT ![at[w]] = status]

-----------------------------------------------------------------------------
(* ingestWebhook and replayGatewayEventHandler.                            *)

\* A delivery arrives and findOne finds no document of its event.
Arrive(w, e) ==
    /\ At(w, "idle")
    /\ Stored(e) = {}
    /\ Goto(w, "create_event")
    /\ at' = [at EXCEPT ![w] = CHOOSE d \in Docs : d[1] = e]
    /\ UNCHANGED <<docs, own, seen, crashes>>

\* A delivery finds a document, any of those of its event; or an administrator
\* replays one.  If it is processed already, nothing changes.
Redeliver(w, d) ==
    /\ At(w, "idle")
    /\ event[d] \notin {"absent", "processed"}
    /\ Goto(w, "load_event")
    /\ at' = [at EXCEPT ![w] = d]
    /\ UNCHANGED <<docs, own, seen, crashes>>

Unused(e) == {d \in Docs : d[1] = e /\ event[d] = "absent"}

\* The insert, as a document of its own whatever was inserted meanwhile.
CreateEvent(w) ==
    /\ At(w, "create_event")
    /\ Unused(at[w][1]) # {}
    /\ LET d == CHOOSE d \in Unused(at[w][1]) : TRUE
       IN  event' = [event EXCEPT ![d] = "received"] /\ at' = [at EXCEPT ![w] = d]
    /\ Goto(w, "load_event")
    /\ UNCHANGED <<session, payments, allocations, due, own, seen, crashes>>

\* The signature does not verify: the event is stored all the same.
IgnoreEvent(w) ==
    /\ At(w, "create_event")
    /\ Unused(at[w][1]) # {}
    /\ LET d == CHOOSE d \in Unused(at[w][1]) : TRUE
       IN  event' = [event EXCEPT ![d] = "ignored"]
    /\ Answer(w)
    /\ UNCHANGED <<session, payments, allocations, due>>

\* The unique index on the provider's event id, where it was built.
RefuseEvent(w) ==
    /\ At(w, "create_event")
    /\ Unused(at[w][1]) = {}
    /\ Answer(w)
    /\ UNCHANGED docs

-----------------------------------------------------------------------------
(* processGatewayEvent.  An event that is neither a success nor a failure       *)
(* changes nothing but its own status, and is left out.                      *)

LoadEvent(w) ==
    /\ At(w, "load_event")
    /\ IF event[at[w]] \in {"processed", "ignored"}
         THEN Answer(w)
         ELSE Continue(w, "mark_processing") /\ UNCHANGED <<own, seen>>
    /\ UNCHANGED docs

\* Unconditional: a delivery that finished meanwhile is overwritten.
MarkProcessing(w) ==
    /\ At(w, "mark_processing")
    /\ SetEvent(w, "processing")
    /\ Continue(w, "read_session")
    /\ UNCHANGED <<session, payments, allocations, due, own, seen>>

ReadSession(w) ==
    /\ At(w, "read_session")
    /\ Continue(w, CASE ~Success(at[w]) -> "capture_failed"
                     [] Success(at[w]) /\ session[Charge(w)].payment # 0 -> "mark_processed"
                     [] OTHER -> "find_payment")
    /\ UNCHANGED <<docs, own, seen>>

\* findExistingPaymentByExternalReference.  The processor and the capture
\* service ask the same question one after the other; the second answer counts.
FindPayment(w) ==
    /\ At(w, "find_payment")
    /\ Continue(w, IF PaymentsOf(Charge(w)) # {} THEN "mark_failed" ELSE "check_targets")
    /\ UNCHANGED <<docs, own, seen>>

-----------------------------------------------------------------------------
(* captureSucceededSession, captureFailedSession.                          *)

Payable(w) == due[Invoice(w)] > 0 /\ Amount[Charge(w)] <= due[Invoice(w)]

\* assertCaptureTargets.
CheckTargets(w) ==
    /\ At(w, "check_targets")
    /\ Continue(w, IF Payable(w) THEN "create_payment" ELSE "fail_session")
    /\ UNCHANGED <<docs, own, seen>>

FailSession(w) ==
    /\ At(w, "fail_session")
    /\ session' = [session EXCEPT ![Charge(w)].status = "failed"]
    /\ Continue(w, "mark_failed")
    /\ UNCHANGED <<event, payments, allocations, due, own, seen>>

\* The insert in recordPayment.
CreatePayment(w) ==
    /\ At(w, "create_payment")
    /\ payments' = Append(payments, [charge |-> Charge(w), allocated |-> 0])
    /\ own' = [own EXCEPT ![w] = Len(payments) + 1]
    /\ Continue(w, "check_apply")
    /\ UNCHANGED <<event, session, allocations, due, seen>>

CheckApplySwallowed(w) ==  \* mutant: the capture goes on although nothing was applied
    /\ At(w, "check_apply")
    /\ Continue(w, IF Payable(w) THEN "allocate" ELSE "succeed_session")
    /\ UNCHANGED <<docs, own, seen>>

\* applyPaymentAllocations looks at the invoice once more.
CheckApply(w) ==
    /\ At(w, "check_apply")
    /\ Continue(w, IF Payable(w) THEN "allocate" ELSE "mark_failed")
    /\ UNCHANGED <<docs, own, seen>>

Allocate(w) ==
    /\ At(w, "allocate")
    /\ allocations' = Append(allocations,
           [payment |-> own[w], invoice |-> Invoice(w), amount |-> Amount[Charge(w)]])
    /\ Continue(w, "payment_rollup")
    /\ UNCHANGED <<event, session, payments, due, own, seen>>

\* recalculatePaymentRollups: one step, since nobody else allocates this payment.
PaymentRollup(w) ==
    /\ At(w, "payment_rollup")
    /\ payments' = [payments EXCEPT ![own[w]].allocated = AppliedOf(own[w])]
    /\ Continue(w, "read_invoice")
    /\ UNCHANGED <<event, session, allocations, due, own, seen>>

\* recalculateInvoicePaymentRollups: read, sum, save.
ReadInvoice(w) ==
    /\ At(w, "read_invoice")
    /\ seen' = [seen EXCEPT ![w].due = due[Invoice(w)]]
    /\ Continue(w, "sum_invoice")
    /\ UNCHANGED <<docs, own>>

SumInvoicePayments(w) ==  \* mutant: whole payments are summed, applied or not
    /\ At(w, "sum_invoice")
    /\ seen' = [seen EXCEPT ![w].paid =
           FoldFunction(+, 0, [p \in DOMAIN payments |->
               IF Target[payments[p].charge] = Invoice(w)
                 THEN Amount[payments[p].charge] ELSE 0])]
    /\ Continue(w, "save_invoice")
    /\ UNCHANGED <<docs, own>>

SumInvoice(w) ==
    /\ At(w, "sum_invoice")
    /\ seen' = [seen EXCEPT ![w].paid = Paid(Invoice(w))]
    /\ Continue(w, "save_invoice")
    /\ UNCHANGED <<docs, own>>

\* Only what differs from the invoice read is written.
SaveInvoice(w) ==
    LET i == Invoice(w)
        left == AtLeast0(Total[i] - seen[w].paid)
    IN
    /\ At(w, "save_invoice")
    /\ due' = IF left = seen[w].due THEN due ELSE [due EXCEPT ![i] = left]
    /\ seen' = [seen EXCEPT ![w] = Unread]
    /\ Continue(w, "succeed_session")
    /\ UNCHANGED <<event, session, payments, allocations, own>>

\* markSessionSucceeded; the use count of the payment link is left out.
SucceedSession(w) ==
    /\ At(w, "succeed_session")
    /\ session' = [session EXCEPT ![Charge(w)] = [status |-> "succeeded", payment |-> own[w]]]
    /\ Continue(w, "mark_processed")
    /\ UNCHANGED <<event, payments, allocations, due, own, seen>>

CaptureFailedReset(w) ==  \* mutant: a declined attempt clears the payment link
    /\ At(w, "capture_failed")
    /\ session' = [session EXCEPT ![Charge(w)] = [status |-> "failed", payment |-> 0]]
    /\ Continue(w, "mark_processed")
    /\ UNCHANGED <<event, payments, allocations, due, own, seen>>

CaptureFailedRaw(w) ==  \* mutant: the provider's own word is stored
    /\ At(w, "capture_failed")
    /\ session' = [session EXCEPT ![Charge(w)].status = "declined"]
    /\ Continue(w, "mark_processed")
    /\ UNCHANGED <<event, payments, allocations, due, own, seen>>

\* captureFailedSession: status whatever it was, the payment stays.
CaptureFailed(w) ==
    /\ At(w, "capture_failed")
    /\ session' = [session EXCEPT ![Charge(w)].status = "failed"]
    /\ Continue(w, "mark_processed")
    /\ UNCHANGED <<event, payments, allocations, due, own, seen>>

-----------------------------------------------------------------------------
(* How an event ends, and crashes.                                         *)

MarkProcessed(w) ==
    /\ At(w, "mark_processed")
    /\ SetEvent(w, "processed")
    /\ Answer(w)
    /\ UNCHANGED <<session, payments, allocations, due>>

MarkFailedDone(w) ==  \* mutant: DUPLICATE_PROVIDER_PAYMENT counts as done
    /\ At(w, "mark_failed")
    /\ SetEvent(w, "processed")
    /\ Answer(w)
    /\ UNCHANGED <<session, payments, allocations, due>>

\* The catch of processGatewayEvent; the answer is an error.
MarkFailed(w) ==
    /\ At(w, "mark_failed")
    /\ SetEvent(w, "failed")
    /\ Answer(w)
    /\ UNCHANGED <<session, payments, allocations, due>>

Crash(w) ==
    /\ ~At(w, "idle")
    /\ crashes < MaxCrashes
    /\ crashes' = crashes + 1
    /\ Goto(w, "idle")
    /\ at' = [at EXCEPT ![w] = NoEvent]
    /\ own' = [own EXCEPT ![w] = 0]
    /\ seen' = [seen EXCEPT ![w] = Unread]
    /\ UNCHANGED docs

Serve(w) ==
    \/ CreateEvent(w) \/ IgnoreEvent(w) \/ RefuseEvent(w)
    \/ LoadEvent(w) \/ MarkProcessing(w)
    \/ ReadSession(w) \/ FindPayment(w) \/ CheckTargets(w) \/ FailSession(w)
    \/ CreatePayment(w) \/ CheckApply(w) \/ Allocate(w) \/ PaymentRollup(w)
    \/ ReadInvoice(w) \/ SumInvoice(w) \/ SaveInvoice(w) \/ SucceedSession(w)
    \/ CaptureFailed(w) \/ MarkProcessed(w) \/ MarkFailed(w)

DeliverSome(e) ==
    \E w \in Workers : Arrive(w, e) \/ (\E d \in Stored(e) : Redeliver(w, d))

Next == \E w \in Workers :
    \/ \E e \in Events : Arrive(w, e)
    \/ \E d \in Docs : Redeliver(w, d)
    \/ Serve(w)
    \/ Crash(w)

\* A request is served to its end, and the provider tries an event again until
\* it is accepted, however often the server was busy.
Fairness ==
    /\ \A w \in Workers : WF_vars(Serve(w))
    /\ \A e \in Events : SF_vars(DeliverSome(e))

Spec == Init /\ [][Next]_vars /\ Fairness

-----------------------------------------------------------------------------
(* Properties.                                                             *)

\* A success event is stored as processed only when the money is booked: its
\* session has a payment, whatever crashed, raced or was delivered late
\* (processGatewayEvent, captureSucceededSession).  An event that was ignored for
\* its signature is not processed, and books nothing however often it comes again.
ProcessedIsBooked ==
    \A d \in Docs : event[d] = "processed" /\ Success(d) => session[ChargeOf(d)].payment # 0

\* Concurrent rollups may leave an invoice with more due than it should have,
\* never with less (recalculateInvoicePaymentRollups).
DueNeverTooLow == \A i \in Invoices : due[i] >= AtLeast0(Total[i] - Paid(i))

\* Two deliveries, two events of one checkout and crashes included, a charge
\* goes through ChargeLifecycle: it may be recorded more than once, but its session
\* is linked only to a payment of its own that was applied, and stays linked to one.
AppliedOfCharge(s) ==
    {p \in PaymentsOf(s) : \E k \in DOMAIN allocations : allocations[k].payment = p}
Stage(s) ==
    CASE PaymentsOf(s) = {} /\ session[s].payment = 0 -> "open"
      [] PaymentsOf(s) # {} /\ AppliedOfCharge(s) = {} /\ session[s].payment = 0 -> "recorded"
      [] AppliedOfCharge(s) # {} /\ session[s].payment = 0 -> "applied"
      [] session[s].payment \in AppliedOfCharge(s) -> "settled"
      [] OTHER -> "broken"
Lifecycle == INSTANCE ChargeLifecycle
    WITH Charges <- Sessions, stage <- [s \in Sessions |-> Stage(s)]
ImplementsLifecycle == Lifecycle!Spec

\* As long as the server does not crash, everything the provider reports is dealt
\* with: declined attempts are processed, early or late, and beside them every charge
\* is settled.  Two cases are left to an administrator: the invoice was paid by
\* another checkout, which PAYMENT_GATEWAYS_ARCHITECTURE.md:746-751 leaves to a manual
\* refund, and the event was ignored for its signature.
PaidByAnother(s) ==
    \E k \in DOMAIN allocations : /\ allocations[k].invoice = Target[s]
                                  /\ allocations[k].payment \notin PaymentsOf(s)
DealtWith(e) ==
    \/ \E d \in Stored(e) : event[d] = "ignored"
    \/ IF e[2] \in SuccessTypes
         THEN session[e[1]].payment # 0 \/ PaidByAnother(e[1])
         ELSE \E d \in Stored(e) : event[d] = "processed"
EveryChargeSettles == <>(crashes > 0 \/ (\A e \in Events : DealtWith(e)))

\* One payment per provider charge: PAYMENT_GATEWAYS_ARCHITECTURE.md, line 531,
\* "Unique index - one Payment per provider charge".
OnePaymentPerCharge ==
    \A p, q \in DOMAIN payments : payments[p].charge = payments[q].charge => p = q
=============================================================================
