------------------------ MODULE GatewayCapture_proofs ------------------------
(***************************************************************************)
(* For any number of sessions, events, copies of an event, workers, payments    *)
(* and crashes, with no unique index: an event is stored as processed only when  *)
(* the money is booked, an invoice never has less due than it should, and every   *)
(* charge goes through ChargeLifecycle.                                        *)
(***************************************************************************)
EXTENDS GatewayCapture, SequenceTheorems, Sums

\* The steps of a capture that has its payment.
Captured == {"check_apply", "allocate", "payment_rollup", "read_invoice", "sum_invoice",
             "save_invoice", "succeed_session"}

\* What a worker knows at its step: it holds a payment while it captures, it
\* records a failure only for a failed event, and it accepts a success event
\* only with a payment in the session.
Knows(w) ==
    /\ pc[w] \in Captured => own[w] # 0
    /\ pc[w] = "capture_failed" => ~Success(at[w])
    /\ pc[w] = "mark_processed" /\ Success(at[w]) => session[Charge(w)].payment # 0

\* The inductive invariant.
IInv == TypeOK /\ (\A w \in Workers : Knows(w)) /\ ProcessedIsBooked

\* A payment once linked to a session stays linked: no step, not even a late
\* failure event, clears it (markSessionFailed, markSessionSucceeded).
PaymentStays == \A s \in Sessions : session[s].payment # 0 => session'[s].payment # 0

\* A document is of an event, and so of a session.
LEMMA EventParts == ASSUME NEW d \in Docs PROVE d[1] \in Events /\ ChargeOf(d) \in Sessions
  BY GatewayAssumption DEF Docs, ChargeOf

\* Every event may be stored.
LEMMA SomeDoc == NoEvent \in Docs /\ \A e \in Events : (CHOOSE d \in Docs : d[1] = e) \in Docs
<1>1. PICK e \in Events, c \in Copies : TRUE
  BY GatewayAssumption
<1>2. <<e, c>> \in Docs
  BY DEF Docs
<1>3. \A f \in Events : <<f, c>> \in Docs /\ <<f, c>>[1] = f
  BY DEF Docs
<1>4. QED
  BY <1>2, <1>3 DEF NoEvent

\* A document is inserted, and nothing else is written.
Inserted(status) ==
    \E d \in Docs : event[d] = "absent" /\ event' = [event EXCEPT ![d] = status]

LEMMA InsertIsNew ==
  ASSUME NEW w \in Workers, CreateEvent(w) \/ IgnoreEvent(w)
  PROVE  /\ UNCHANGED <<session, payments, allocations, due>>
         /\ CreateEvent(w) => Inserted("received") /\ \E d \in Docs : at' = [at EXCEPT ![w] = d]
         /\ IgnoreEvent(w) => Inserted("ignored")
<1> DEFINE d == CHOOSE d \in Unused(at[w][1]) : TRUE
<1>1. Unused(at[w][1]) # {}
  BY DEF CreateEvent, IgnoreEvent
<1>2. d \in Docs /\ event[d] = "absent"
  BY <1>1 DEF Unused
<1>3. QED
  BY <1>2 DEF CreateEvent, IgnoreEvent, Inserted

-----------------------------------------------------------------------------
(* Sums of allocations.                                                    *)

LEMMA SumsOfAllocations ==
  ASSUME TypeOK
  PROVE  /\ \A i \in Invoices : Paid(i) \in Nat
         /\ \A p \in Nat : AppliedOf(p) \in Nat
<1>1. /\ DOMAIN allocations = 1 .. Len(allocations) /\ Len(allocations) \in Nat
      /\ \A k \in DOMAIN allocations : allocations[k] \in Allocation
  BY DEF TypeOK
<1>2. IsFiniteSet(DOMAIN allocations)
  BY <1>1, FS_Interval
<1>3. ASSUME NEW i \in Invoices PROVE Paid(i) \in Nat
  <2> DEFINE f == [k \in DOMAIN allocations |->
                     IF allocations[k].invoice = i THEN allocations[k].amount ELSE 0]
  <2>1. \A k \in DOMAIN allocations : f[k] \in Nat
    BY <1>1 DEF Allocation
  <2>2. Paid(i) = FoldFunction(+, 0, f)
    BY DEF Paid, Allocated
  <2>3. DOMAIN f = DOMAIN allocations
    OBVIOUS
  <2> HIDE DEF f
  <2>4. QED
    BY <1>2, <2>1, <2>2, <2>3, FoldIsSum, SumNat
<1>4. ASSUME NEW p \in Nat PROVE AppliedOf(p) \in Nat
  <2> DEFINE f == [k \in DOMAIN allocations |->
                     IF allocations[k].payment = p THEN allocations[k].amount ELSE 0]
  <2>1. \A k \in DOMAIN allocations : f[k] \in Nat
    BY <1>1 DEF Allocation
  <2>2. AppliedOf(p) = FoldFunction(+, 0, f)
    BY DEF AppliedOf, Allocated
  <2>3. DOMAIN f = DOMAIN allocations
    OBVIOUS
  <2> HIDE DEF f
  <2>4. QED
    BY <1>2, <2>1, <2>2, <2>3, FoldIsSum, SumNat
<1>5. QED
  BY <1>3, <1>4

\* An allocation more: no invoice has less paid.
LEMMA AllocationCounts ==
  ASSUME TypeOK, NEW a \in Allocation, allocations' = Append(allocations, a), NEW i \in Invoices
  PROVE  Paid(i)' \in Nat /\ Paid(i) <= Paid(i)'
<1> DEFINE old == DOMAIN allocations
           new == Len(allocations) + 1
           f == [k \in DOMAIN allocations |->
                   IF allocations[k].invoice = i THEN allocations[k].amount ELSE 0]
           h == [k \in DOMAIN allocations' |->
                   IF allocations'[k].invoice = i THEN allocations'[k].amount ELSE 0]
<1>1. /\ old = 1 .. Len(allocations) /\ Len(allocations) \in Nat
      /\ \A k \in old : allocations[k] \in Allocation
  BY DEF TypeOK
<1>2. /\ DOMAIN allocations' = old \cup {new}
      /\ \A k \in old : allocations'[k] = allocations[k]
      /\ allocations'[new] = a
  BY <1>1 DEF TypeOK
<1>3. IsFiniteSet(old) /\ new \notin old
  BY <1>1, FS_Interval
<1>4. \A k \in old : f[k] \in Int /\ h[k] = f[k]
  BY <1>1, <1>2 DEF Allocation
<1>5. h[new] \in Nat
  BY <1>2 DEF Allocation
<1>6. Paid(i) = FoldFunction(+, 0, f) /\ DOMAIN f = old
  BY DEF Paid, Allocated
<1>7. Paid(i)' = FoldFunction(+, 0, h) /\ DOMAIN h = old \cup {new}
  BY <1>2 DEF Paid, Allocated, FoldFunction, FoldFunctionOnSet, MapThenFoldSet
<1>8. Paid(i) \in Nat
  BY SumsOfAllocations
<1> HIDE DEF f, h, old, new
<1>9. SumFunctionOnSet(h, old \cup {new}) = SumFunctionOnSet(f, old) + h[new]
  BY <1>3, <1>4, <1>5, SumAdd
<1>10. Paid(i)' = Paid(i) + h[new]
  <2>1. Paid(i) = SumFunctionOnSet(f, old)
    BY <1>6, FoldIsSum
  <2>2. Paid(i)' = SumFunctionOnSet(h, old \cup {new})
    BY <1>7, FoldIsSum
  <2>3. QED
    BY <1>9, <2>1, <2>2
<1>11. QED
  BY <1>5, <1>8, <1>10

-----------------------------------------------------------------------------
(* Types.                                                                  *)

\* The pipeline starts with nothing to answer for.
LEMMA BookedInit == Init => IInv
<1> SUFFICES ASSUME Init PROVE IInv
  OBVIOUS
<1>1. NoEvent \in Docs
  BY SomeDoc
<1>2. payments \in Seq(Payment) /\ allocations \in Seq(Allocation)
  BY EmptySeq DEF Init
<1>3. due \in [Invoices -> Nat] /\ Unread \in [due : Nat, paid : Nat]
  BY GatewayAssumption DEF Init, Unread
<1>4. TypeOK
  BY <1>1, <1>2, <1>3 DEF Init, TypeOK, EventStatus, SessionDoc, Step
<1>5. QED
  BY <1>4 DEF Init, IInv, Knows, Captured, ProcessedIsBooked

\* What a worker reads from its event.
LEMMA WorkerParts ==
  ASSUME TypeOK, NEW w \in Workers
  PROVE  /\ Charge(w) \in Sessions /\ Invoice(w) \in Invoices
         /\ Amount[Charge(w)] \in Nat /\ Total[Invoice(w)] \in Nat
         /\ own[w] \in Nat
<1>1. at[w] \in Docs
  BY DEF TypeOK
<1>2. Charge(w) \in Sessions
  BY <1>1, EventParts DEF Charge
<1>3. QED
  BY <1>2, GatewayAssumption DEF TypeOK, Invoice

\* Every step keeps the types.
LEMMA TypeStep == TypeOK /\ [Next]_vars => TypeOK'
<1> SUFFICES ASSUME TypeOK, [Next]_vars PROVE TypeOK'
  OBVIOUS
<1>0. NoEvent \in Docs /\ Unread \in [due : Nat, paid : Nat]
  BY SomeDoc DEF Unread
<1> USE DEF TypeOK, EventStatus, Step, docs, Goto, Continue, Answer, SetEvent
<1>1. ASSUME NEW w \in Workers, NEW e \in Events, Arrive(w, e) PROVE TypeOK'
  <2>1. PICK d \in Docs : at' = [at EXCEPT ![w] = d]
    BY <1>1, SomeDoc DEF Arrive
  <2>2. QED
    BY <1>1, <2>1 DEF Arrive
<1>2. ASSUME NEW w \in Workers, NEW d \in Docs, Redeliver(w, d) PROVE TypeOK'
  BY <1>2 DEF Redeliver
<1>3. ASSUME NEW w \in Workers, CreateEvent(w) \/ IgnoreEvent(w) \/ RefuseEvent(w) PROVE TypeOK'
  <2>1. CASE CreateEvent(w)
    <3>1. event' \in [Docs -> EventStatus] /\ at' \in [Workers -> Docs]
      BY <2>1, InsertIsNew DEF Inserted
    <3>2. QED
      BY <2>1, <3>1 DEF CreateEvent
  <2>2. CASE IgnoreEvent(w)
    <3>1. event' \in [Docs -> EventStatus]
      BY <2>2, InsertIsNew DEF Inserted
    <3>2. QED
      BY <1>0, <2>2, <3>1 DEF IgnoreEvent
  <2>3. CASE RefuseEvent(w)
    BY <1>0, <2>3 DEF RefuseEvent
  <2>4. QED
    BY <1>3, <2>1, <2>2, <2>3
<1>4. ASSUME NEW w \in Workers, LoadEvent(w) PROVE TypeOK'
  <2>1. CASE Answer(w)
    BY <1>0, <1>4, <2>1 DEF LoadEvent
  <2>2. CASE ~Answer(w)
    BY <1>4, <2>2 DEF LoadEvent
  <2>3. QED
    BY <2>1, <2>2
<1>5. ASSUME NEW w \in Workers, MarkProcessing(w) PROVE TypeOK'
  BY <1>0, <1>5 DEF MarkProcessing
<1>6. ASSUME NEW w \in Workers, ReadSession(w) PROVE TypeOK'
  BY <1>0, <1>6 DEF ReadSession
<1>7. ASSUME NEW w \in Workers, FindPayment(w) PROVE TypeOK'
  BY <1>0, <1>7 DEF FindPayment
<1>8. ASSUME NEW w \in Workers, CheckTargets(w) PROVE TypeOK'
  BY <1>0, <1>8 DEF CheckTargets
<1>9. ASSUME NEW w \in Workers, FailSession(w) PROVE TypeOK'
  <2>1. session' \in [Sessions -> SessionDoc]
    BY <1>9 DEF FailSession, SessionDoc
  <2>2. QED
    BY <1>9, <2>1 DEF FailSession
<1>10. ASSUME NEW w \in Workers, CreatePayment(w) PROVE TypeOK'
  <2>1. [charge |-> Charge(w), allocated |-> 0] \in Payment
    BY WorkerParts DEF Payment
  <2>2. payments' \in Seq(Payment) /\ Len(payments) + 1 \in Nat
    BY <1>10, <2>1, AppendProperties, LenProperties DEF CreatePayment
  <2>3. QED
    BY <1>10, <2>2 DEF CreatePayment
<1>11. ASSUME NEW w \in Workers, CheckApply(w) PROVE TypeOK'
  BY <1>0, <1>11 DEF CheckApply
<1>12. ASSUME NEW w \in Workers, Allocate(w) PROVE TypeOK'
  <2>1. [payment |-> own[w], invoice |-> Invoice(w), amount |-> Amount[Charge(w)]] \in Allocation
    BY WorkerParts DEF Allocation
  <2>2. allocations' \in Seq(Allocation)
    BY <1>12, <2>1 DEF Allocate
  <2>3. QED
    BY <1>12, <2>2 DEF Allocate
<1>13. ASSUME NEW w \in Workers, PaymentRollup(w) PROVE TypeOK'
  <2>1. AppliedOf(own[w]) \in Nat
    BY SumsOfAllocations
  <2>2. payments' \in Seq(Payment)
    <3> DEFINE p == own[w]
               new == [payments[p] EXCEPT !.allocated = AppliedOf(p)]
    <3>1. payments' = [payments EXCEPT ![p] = new]
      BY <1>13 DEF PaymentRollup
    <3>2. CASE p \in 1 .. Len(payments)
      <4>0. payments[p] \in Payment
        BY <3>2
      <4>1. new \in Payment
        BY <2>1, <4>0 DEF Payment
      <4> HIDE DEF new, p
      <4>2. QED
        BY <3>1, <3>2, <4>1, ExceptSeq
    <3>3. CASE p \notin 1 .. Len(payments)
      <4>1. DOMAIN payments = 1 .. Len(payments) /\ payments = [k \in 1 .. Len(payments) |-> payments[k]]
        OBVIOUS
      <4>2. payments' = payments
        BY <3>1, <3>3, <4>1
      <4>3. QED
        BY <4>2
    <3>4. QED
      BY <3>2, <3>3
  <2>3. QED
    BY <1>13, <2>2 DEF PaymentRollup
<1>14. ASSUME NEW w \in Workers, ReadInvoice(w) PROVE TypeOK'
  <2>1. seen' \in [Workers -> [due : Nat, paid : Nat]]
    BY <1>14, WorkerParts DEF ReadInvoice
  <2>2. QED
    BY <1>14, <2>1 DEF ReadInvoice
<1>15. ASSUME NEW w \in Workers, SumInvoice(w) PROVE TypeOK'
  <2>1. Paid(Invoice(w)) \in Nat
    BY WorkerParts, SumsOfAllocations
  <2>2. seen' \in [Workers -> [due : Nat, paid : Nat]]
    BY <1>15, <2>1 DEF SumInvoice
  <2>3. QED
    BY <1>15, <2>2 DEF SumInvoice
<1>16. ASSUME NEW w \in Workers, SaveInvoice(w) PROVE TypeOK'
  <2>1. AtLeast0(Total[Invoice(w)] - seen[w].paid) \in Nat
    BY WorkerParts DEF AtLeast0
  <2>2. due' \in [Invoices -> Nat]
    BY <1>16, <2>1, WorkerParts DEF SaveInvoice
  <2>3. QED
    BY <1>0, <1>16, <2>2 DEF SaveInvoice
<1>17. ASSUME NEW w \in Workers, SucceedSession(w) PROVE TypeOK'
  <2>1. session' \in [Sessions -> SessionDoc]
    BY <1>17, WorkerParts DEF SucceedSession, SessionDoc
  <2>2. QED
    BY <1>17, <2>1 DEF SucceedSession
<1>18. ASSUME NEW w \in Workers, CaptureFailed(w) PROVE TypeOK'
  <2>1. session' \in [Sessions -> SessionDoc]
    BY <1>18 DEF CaptureFailed, SessionDoc
  <2>2. QED
    BY <1>18, <2>1 DEF CaptureFailed
<1>19. ASSUME NEW w \in Workers, MarkProcessed(w) PROVE TypeOK'
  BY <1>0, <1>19 DEF MarkProcessed
<1>20. ASSUME NEW w \in Workers, MarkFailed(w) PROVE TypeOK'
  BY <1>0, <1>20 DEF MarkFailed
<1>21. ASSUME NEW w \in Workers, Crash(w) PROVE TypeOK'
  BY <1>0, <1>21 DEF Crash
<1>22. CASE UNCHANGED vars
  BY <1>22 DEF vars
<1>23. QED
  BY <1>1, <1>2, <1>3, <1>4, <1>5, <1>6, <1>7, <1>8, <1>9, <1>10, <1>11, <1>12, <1>13, <1>14, <1>15, <1>16, <1>17, <1>18, <1>19, <1>20, <1>21, <1>22 DEF Next, Serve
-----------------------------------------------------------------------------
(* What is answered as processed is booked.                                *)

\* No step clears the payment of a session.
LEMMA PaymentKept == IInv /\ [Next]_vars => PaymentStays
<1> SUFFICES ASSUME IInv, [Next]_vars PROVE PaymentStays
  OBVIOUS
<1> USE DEF IInv, TypeOK, SessionDoc, PaymentStays
<1>1. ASSUME NEW w \in Workers, SucceedSession(w) PROVE PaymentStays
  BY <1>1 DEF SucceedSession, Knows, Captured, At
<1>2. ASSUME NEW w \in Workers, FailSession(w) PROVE PaymentStays
  BY <1>2 DEF FailSession
<1>3. ASSUME NEW w \in Workers, CaptureFailed(w) PROVE PaymentStays
  BY <1>3 DEF CaptureFailed
<1>4. ASSUME UNCHANGED session PROVE PaymentStays
  BY <1>4
<1>5. QED
  BY <1>1, <1>2, <1>3, <1>4
  DEF Next, Serve, vars, docs, Arrive, Redeliver, CreateEvent, IgnoreEvent, RefuseEvent, LoadEvent,
      MarkProcessing, ReadSession, FindPayment, CheckTargets, CreatePayment,
      CheckApply, Allocate, PaymentRollup, ReadInvoice, SumInvoice, SaveInvoice,
      MarkProcessed, MarkFailed, Crash

\* Every step keeps what the workers know: the one that acts by its guard, the
\* others because a linked payment stays.
LEMMA KnowsStep == IInv /\ [Next]_vars => \A v \in Workers : Knows(v)'
<1> SUFFICES ASSUME IInv, [Next]_vars, NEW v \in Workers PROVE Knows(v)'
  OBVIOUS
<1>0. PaymentStays
  BY PaymentKept
<1>e. Charge(v) \in Sessions
  BY WorkerParts DEF IInv
<1>s. ASSUME pc'[v] = pc[v], at'[v] = at[v], own'[v] = own[v] PROVE Knows(v)'
  BY <1>0, <1>s, <1>e DEF IInv, Knows, PaymentStays, Success, ChargeOf, Charge
<1>o. ASSUME pc'[v] \notin Captured \cup {"capture_failed", "mark_processed"}
      PROVE Knows(v)'
  BY <1>o DEF Knows
<1>c. ASSUME pc'[v] \in Captured, own'[v] # 0 PROVE Knows(v)'
  BY <1>c DEF Knows, Captured
<1> USE DEF IInv, TypeOK, Goto, Continue, Answer, SetEvent, At, docs
<1>1. ASSUME NEW w \in Workers, NEW e \in Events, Arrive(w, e) PROVE Knows(v)'
  <2>1. CASE v # w
    BY <1>1, <1>s, <2>1 DEF Arrive
  <2>2. CASE v = w
    BY <1>1, <1>o, <2>2 DEF Arrive, Captured
  <2>3. QED
    BY <2>1, <2>2
<1>2. ASSUME NEW w \in Workers, NEW d \in Docs, Redeliver(w, d) PROVE Knows(v)'
  <2>1. CASE v # w
    BY <1>2, <1>s, <2>1 DEF Redeliver
  <2>2. CASE v = w
    BY <1>2, <1>o, <2>2 DEF Redeliver, Captured
  <2>3. QED
    BY <2>1, <2>2
<1>3. ASSUME NEW w \in Workers, CreateEvent(w) PROVE Knows(v)'
  <2>1. CASE v # w
    BY <1>3, <1>s, <2>1 DEF CreateEvent
  <2>2. CASE v = w
    BY <1>3, <1>o, <2>2 DEF CreateEvent, Captured
  <2>3. QED
    BY <2>1, <2>2
<1>4. ASSUME NEW w \in Workers, IgnoreEvent(w) \/ RefuseEvent(w) PROVE Knows(v)'
  <2>1. CASE v # w
    BY <1>4, <1>s, <2>1 DEF IgnoreEvent, RefuseEvent
  <2>2. CASE v = w
    BY <1>4, <1>o, <2>2 DEF IgnoreEvent, RefuseEvent, Captured
  <2>3. QED
    BY <2>1, <2>2
<1>5. ASSUME NEW w \in Workers, LoadEvent(w) PROVE Knows(v)'
  <2>1. CASE v # w
    BY <1>5, <1>s, <2>1 DEF LoadEvent
  <2>2. CASE v = w
    BY <1>5, <1>o, <2>2 DEF LoadEvent, Captured
  <2>3. QED
    BY <2>1, <2>2
<1>6. ASSUME NEW w \in Workers, MarkProcessing(w) PROVE Knows(v)'
  <2>1. CASE v # w
    BY <1>6, <1>s, <2>1 DEF MarkProcessing
  <2>2. CASE v = w
    BY <1>6, <1>o, <2>2 DEF MarkProcessing, Captured
  <2>3. QED
    BY <2>1, <2>2
<1>7. ASSUME NEW w \in Workers, ReadSession(w) PROVE Knows(v)'
  <2>1. CASE v # w
    BY <1>7, <1>s, <2>1 DEF ReadSession
  <2>2. CASE v = w
    BY <1>7, <2>2 DEF ReadSession, Knows, Captured, Success, ChargeOf, Charge
  <2>3. QED
    BY <2>1, <2>2
<1>8. ASSUME NEW w \in Workers, FindPayment(w) PROVE Knows(v)'
  <2>1. CASE v # w
    BY <1>8, <1>s, <2>1 DEF FindPayment
  <2>2. CASE v = w
    BY <1>8, <1>o, <2>2 DEF FindPayment, Captured
  <2>3. QED
    BY <2>1, <2>2
<1>9. ASSUME NEW w \in Workers, CheckTargets(w) PROVE Knows(v)'
  <2>1. CASE v # w
    BY <1>9, <1>s, <2>1 DEF CheckTargets
  <2>2. CASE v = w
    BY <1>9, <1>o, <2>2 DEF CheckTargets, Captured
  <2>3. QED
    BY <2>1, <2>2
<1>10. ASSUME NEW w \in Workers, FailSession(w) PROVE Knows(v)'
  <2>1. CASE v # w
    BY <1>10, <1>s, <2>1 DEF FailSession
  <2>2. CASE v = w
    BY <1>10, <1>o, <2>2 DEF FailSession, Captured
  <2>3. QED
    BY <2>1, <2>2
<1>11. ASSUME NEW w \in Workers, CreatePayment(w) PROVE Knows(v)'
  <2>1. CASE v # w
    BY <1>11, <1>s, <2>1 DEF CreatePayment
  <2>2. CASE v = w
    <3>1. Len(payments) + 1 # 0
      BY LenProperties
    <3>2. QED
      BY <1>11, <1>o, <2>2, <3>1 DEF CreatePayment, Knows, Captured
  <2>3. QED
    BY <2>1, <2>2
<1>12. ASSUME NEW w \in Workers, CheckApply(w) PROVE Knows(v)'
  <2>1. CASE v # w
    BY <1>12, <1>s, <2>1 DEF CheckApply
  <2>2. CASE v = w
    BY <1>12, <1>c, <1>o, <2>2 DEF CheckApply, Knows, Captured
  <2>3. QED
    BY <2>1, <2>2
<1>13. ASSUME NEW w \in Workers, Allocate(w) PROVE Knows(v)'
  <2>1. CASE v # w
    BY <1>13, <1>s, <2>1 DEF Allocate
  <2>2. CASE v = w
    BY <1>13, <1>c, <1>o, <2>2 DEF Allocate, Knows, Captured
  <2>3. QED
    BY <2>1, <2>2
<1>14. ASSUME NEW w \in Workers, PaymentRollup(w) PROVE Knows(v)'
  <2>1. CASE v # w
    BY <1>14, <1>s, <2>1 DEF PaymentRollup
  <2>2. CASE v = w
    BY <1>14, <1>c, <1>o, <2>2 DEF PaymentRollup, Knows, Captured
  <2>3. QED
    BY <2>1, <2>2
<1>15. ASSUME NEW w \in Workers, ReadInvoice(w) PROVE Knows(v)'
  <2>1. CASE v # w
    BY <1>15, <1>s, <2>1 DEF ReadInvoice
  <2>2. CASE v = w
    BY <1>15, <1>c, <1>o, <2>2 DEF ReadInvoice, Knows, Captured
  <2>3. QED
    BY <2>1, <2>2
<1>16. ASSUME NEW w \in Workers, SumInvoice(w) PROVE Knows(v)'
  <2>1. CASE v # w
    BY <1>16, <1>s, <2>1 DEF SumInvoice
  <2>2. CASE v = w
    BY <1>16, <1>c, <1>o, <2>2 DEF SumInvoice, Knows, Captured
  <2>3. QED
    BY <2>1, <2>2
<1>17. ASSUME NEW w \in Workers, SaveInvoice(w) PROVE Knows(v)'
  <2>1. CASE v # w
    BY <1>17, <1>s, <2>1 DEF SaveInvoice
  <2>2. CASE v = w
    BY <1>17, <1>c, <1>o, <2>2 DEF SaveInvoice, Knows, Captured
  <2>3. QED
    BY <2>1, <2>2
<1>18. ASSUME NEW w \in Workers, SucceedSession(w) PROVE Knows(v)'
  <2>1. CASE v # w
    BY <1>18, <1>s, <2>1 DEF SucceedSession
  <2>2. CASE v = w
    <3>1. own[v] # 0
      BY <1>18, <2>2 DEF SucceedSession, Knows, Captured
    <3>2. pc'[v] = "mark_processed" /\ at'[v] = at[v] /\ session'[Charge(v)].payment = own[v]
      BY <1>18, <1>e, <2>2 DEF SucceedSession
    <3>3. QED
      BY <3>1, <3>2 DEF Knows, Captured, Charge
  <2>3. QED
    BY <2>1, <2>2
<1>19. ASSUME NEW w \in Workers, CaptureFailed(w) PROVE Knows(v)'
  <2>1. CASE v # w
    BY <1>19, <1>s, <2>1 DEF CaptureFailed
  <2>2. CASE v = w
    BY <1>19, <2>2 DEF CaptureFailed, Knows, Captured, Success
  <2>3. QED
    BY <2>1, <2>2
<1>20. ASSUME NEW w \in Workers, MarkProcessed(w) PROVE Knows(v)'
  <2>1. CASE v # w
    BY <1>20, <1>s, <2>1 DEF MarkProcessed
  <2>2. CASE v = w
    BY <1>20, <1>o, <2>2 DEF MarkProcessed, Captured
  <2>3. QED
    BY <2>1, <2>2
<1>21. ASSUME NEW w \in Workers, MarkFailed(w) PROVE Knows(v)'
  <2>1. CASE v # w
    BY <1>21, <1>s, <2>1 DEF MarkFailed
  <2>2. CASE v = w
    BY <1>21, <1>o, <2>2 DEF MarkFailed, Captured
  <2>3. QED
    BY <2>1, <2>2
<1>22. ASSUME NEW w \in Workers, Crash(w) PROVE Knows(v)'
  <2>1. CASE v # w
    BY <1>22, <1>s, <2>1 DEF Crash
  <2>2. CASE v = w
    BY <1>22, <1>o, <2>2 DEF Crash, Captured
  <2>3. QED
    BY <2>1, <2>2
<1>23. CASE UNCHANGED vars
  BY <1>23, <1>s DEF vars
<1>24. QED
  BY <1>1, <1>2, <1>3, <1>4, <1>5, <1>6, <1>7, <1>8, <1>9, <1>10, <1>11, <1>12, <1>13, <1>14, <1>15, <1>16, <1>17, <1>18, <1>19, <1>20, <1>21, <1>22, <1>23 DEF Next, Serve

\* Only an accepted event becomes processed, and its session has its payment.
LEMMA BookedStep == IInv /\ [Next]_vars => ProcessedIsBooked'
<1> SUFFICES ASSUME IInv, [Next]_vars,
                    NEW d \in Docs, event'[d] = "processed", Success(d)
             PROVE session'[ChargeOf(d)].payment # 0
  BY DEF ProcessedIsBooked
<1>0. PaymentStays
  BY PaymentKept
<1>e. ChargeOf(d) \in Sessions
  BY EventParts
<1> USE DEF IInv, TypeOK
<1>1. CASE event[d] = "processed"
  BY <1>0, <1>1, <1>e DEF ProcessedIsBooked, PaymentStays
<1>2. ASSUME NEW w \in Workers, MarkProcessed(w) PROVE session'[ChargeOf(d)].payment # 0
  <2>1. CASE d = at[w]
    BY <1>2, <2>1 DEF MarkProcessed, Knows, At, Charge
  <2>2. CASE d # at[w]
    BY <1>1, <1>2, <2>2 DEF MarkProcessed, SetEvent
  <2>3. QED
    BY <2>1, <2>2
<1>3. ASSUME NEW w \in Workers, NEW status \in EventStatus \ {"processed"},
             SetEvent(w, status)
      PROVE session'[ChargeOf(d)].payment # 0
  BY <1>1, <1>3 DEF SetEvent
<1>4. ASSUME UNCHANGED event PROVE session'[ChargeOf(d)].payment # 0
  BY <1>1, <1>4
<1> USE DEF EventStatus
<1>5. ASSUME NEW w \in Workers, CreateEvent(w) \/ IgnoreEvent(w)
      PROVE session'[ChargeOf(d)].payment # 0
  BY <1>1, <1>5, InsertIsNew DEF Inserted
<1>6. ASSUME NEW w \in Workers, MarkProcessing(w) PROVE session'[ChargeOf(d)].payment # 0
  BY <1>3, <1>6 DEF MarkProcessing
<1>7. ASSUME NEW w \in Workers, MarkFailed(w) PROVE session'[ChargeOf(d)].payment # 0
  BY <1>3, <1>7 DEF MarkFailed
<1>8. QED
  BY <1>2, <1>4, <1>5, <1>6, <1>7
  DEF Next, Serve, vars, docs, Arrive, Redeliver, RefuseEvent, LoadEvent, ReadSession,
      FindPayment, CheckTargets, FailSession, CreatePayment, CheckApply, Allocate,
      PaymentRollup, ReadInvoice, SumInvoice, SaveInvoice, SucceedSession,
      CaptureFailed, Crash

\* The invariant holds of every behaviour.
THEOREM CaptureInvariant == Spec => []IInv
<1>1. IInv /\ [Next]_vars => IInv'
  BY TypeStep, KnowsStep, BookedStep DEF IInv
<1>2. QED
  BY BookedInit, <1>1, PTL DEF Spec

\* The documents and what the requests hold keep their types, the sums that the
\* rollups write included (recalculatePaymentRollups, recalculateInvoicePaymentRollups).
THEOREM CaptureTypes == Spec => []TypeOK
<1>1. IInv => TypeOK
  BY DEF IInv
<1>2. QED
  BY CaptureInvariant, <1>1, PTL

\* A success event is stored as processed only when its session has a payment
\* (processGatewayEvent, captureSucceededSession): whatever crashes, races or is
\* delivered late, and however often the event was stored.
THEOREM ProcessedMeansBooked == Spec => []ProcessedIsBooked
<1>1. IInv => ProcessedIsBooked
  BY DEF IInv
<1>2. QED
  BY CaptureInvariant, <1>1, PTL

\* A session never loses its payment (markSessionFailed, markSessionSucceeded):
\* a late failure event overwrites its status only.
THEOREM LinkedPaymentStays == Spec => [][PaymentStays]_vars
<1>1. IInv /\ [Next]_vars => [PaymentStays]_vars
  BY PaymentKept
<1>2. QED
  BY CaptureInvariant, <1>1, PTL DEF Spec

-----------------------------------------------------------------------------
(* Invoices.                                                               *)

\* What a rollup is about to write counts no allocation that does not exist, so
\* that the invoice keeps at least what is due.
DueInv ==
    /\ \A w \in Workers : pc[w] = "save_invoice" => seen[w].paid <= Paid(Invoice(w))
    /\ DueNeverTooLow

\* What is paid of an invoice never shrinks: allocations are only added.
LEMMA PaidGrows ==
  ASSUME TypeOK, [Next]_vars, NEW i \in Invoices
  PROVE  Paid(i) \in Nat /\ Paid(i)' \in Nat /\ Paid(i) <= Paid(i)'
<1>1. Paid(i) \in Nat
  BY SumsOfAllocations
<1>2. ASSUME NEW w \in Workers, Allocate(w) PROVE Paid(i)' \in Nat /\ Paid(i) <= Paid(i)'
  <2>1. [payment |-> own[w], invoice |-> Invoice(w), amount |-> Amount[Charge(w)]] \in Allocation
    BY WorkerParts DEF Allocation
  <2>2. QED
    BY <1>2, <2>1, AllocationCounts DEF Allocate
<1>3. ASSUME UNCHANGED allocations PROVE Paid(i)' \in Nat /\ Paid(i) <= Paid(i)'
  <2>1. Paid(i)' = Paid(i)
    BY <1>3 DEF Paid, Allocated, FoldFunction, FoldFunctionOnSet, MapThenFoldSet
  <2>2. QED
    BY <1>1, <2>1
<1>4. QED
  BY <1>1, <1>2, <1>3
  DEF Next, Serve, vars, docs, Arrive, Redeliver, CreateEvent, IgnoreEvent, RefuseEvent, LoadEvent,
      MarkProcessing, ReadSession, FindPayment, CheckTargets, FailSession,
      CreatePayment, CheckApply, PaymentRollup, ReadInvoice, SumInvoice, SaveInvoice,
      SucceedSession, CaptureFailed, MarkProcessed, MarkFailed, Crash

\* A step is one of a single worker; the others hold what they held.
LEMMA OneWorker ==
  ASSUME TypeOK, [Next]_vars, NEW v \in Workers
  PROVE  \/ UNCHANGED <<pc[v], at[v], own[v], seen[v]>>
         \/ (\E e \in Events : Arrive(v, e)) \/ (\E d \in Docs : Redeliver(v, d))
         \/ Serve(v)
         \/ Crash(v)
<1>1. ASSUME NEW w \in Workers \ {v},
             \/ \E e \in Events : Arrive(w, e)
             \/ \E d \in Docs : Redeliver(w, d)
             \/ Crash(w)
      PROVE  UNCHANGED <<pc[v], at[v], own[v], seen[v]>>
  BY <1>1 DEF TypeOK, Arrive, Redeliver, Crash, Goto
<1>2. ASSUME NEW w \in Workers \ {v}, Serve(w)
      PROVE  UNCHANGED <<pc[v], at[v], own[v], seen[v]>>
  BY <1>2
  DEF TypeOK, Serve, Goto, Continue, Answer, CreateEvent, IgnoreEvent, RefuseEvent, LoadEvent, MarkProcessing,
      ReadSession, FindPayment, CheckTargets, FailSession, CreatePayment, CheckApply, Allocate,
      PaymentRollup, ReadInvoice, SumInvoice, SaveInvoice, SucceedSession, CaptureFailed,
      MarkProcessed, MarkFailed
<1>3. QED
  BY <1>1, <1>2 DEF Next, vars

\* The sum a worker holds stays a lower bound of what is paid.
LEMMA SeenStep ==
  ASSUME TypeOK, DueInv, [Next]_vars, NEW v \in Workers, pc'[v] = "save_invoice"
  PROVE  seen'[v].paid <= Paid(Invoice(v))'
<1>0. TypeOK'
  BY TypeStep
<1>1. /\ Invoice(v) \in Invoices /\ Invoice(v)' \in Invoices
      /\ seen[v].paid \in Nat /\ seen'[v].paid \in Nat
  <2>1. at[v] \in Docs /\ at'[v] \in Docs
    BY <1>0 DEF TypeOK
  <2>2. ChargeOf(at[v]) \in Sessions /\ ChargeOf(at'[v]) \in Sessions
    BY <2>1, EventParts
  <2>3. QED
    BY <1>0, <2>2, GatewayAssumption DEF TypeOK, Invoice, Charge
<1>2. ASSUME pc[v] = "save_invoice", at'[v] = at[v], seen'[v] = seen[v]
      PROVE  seen'[v].paid <= Paid(Invoice(v))'
  <2>1. Invoice(v)' = Invoice(v)
    BY <1>2 DEF Invoice, Charge
  <2>2. seen[v].paid <= Paid(Invoice(v))
    BY <1>2 DEF DueInv
  <2>3. PICK i \in Invoices : i = Invoice(v)
    BY <1>1
  <2>4. Paid(i) \in Nat /\ Paid(i)' \in Nat /\ Paid(i) <= Paid(i)'
    BY PaidGrows
  <2>5. Paid(Invoice(v)) = Paid(i) /\ Paid(Invoice(v))' = Paid(i)'
    BY <2>1, <2>3
  <2>6. QED
    BY <1>1, <1>2, <2>2, <2>4, <2>5
<1>3. ASSUME SumInvoice(v) PROVE seen'[v].paid <= Paid(Invoice(v))'
  <2>1. seen'[v].paid = Paid(Invoice(v)) /\ UNCHANGED <<at, allocations>>
    BY <1>3 DEF SumInvoice, Continue, docs, TypeOK
  <2>2. Paid(Invoice(v))' = Paid(Invoice(v))
    BY <2>1 DEF Paid, Allocated, FoldFunction, FoldFunctionOnSet, MapThenFoldSet, Invoice, Charge
  <2>3. QED
    BY <1>1, <2>1, <2>2
<1>4. CASE UNCHANGED <<pc[v], at[v], own[v], seen[v]>>
  BY <1>2, <1>4
<1>5. CASE (\E e \in Events : Arrive(v, e)) \/ (\E d \in Docs : Redeliver(v, d))
  BY <1>5 DEF Arrive, Redeliver, Goto, TypeOK
<1>6. CASE Serve(v)
  BY <1>3, <1>6
  DEF TypeOK, Serve, Goto, Continue, Answer, CreateEvent, IgnoreEvent, RefuseEvent, LoadEvent, MarkProcessing,
      ReadSession, FindPayment, CheckTargets, FailSession, CreatePayment, CheckApply, Allocate,
      PaymentRollup, ReadInvoice, SaveInvoice, SucceedSession, CaptureFailed, MarkProcessed,
      MarkFailed
<1>7. CASE Crash(v)
  BY <1>7 DEF Crash, Goto, TypeOK
<1>8. QED
  BY <1>4, <1>5, <1>6, <1>7, OneWorker

\* No step leaves an invoice with too little due.
LEMMA DueStep == TypeOK /\ DueInv /\ [Next]_vars => DueInv'
<1> SUFFICES ASSUME TypeOK, DueInv, [Next]_vars PROVE DueInv'
  OBVIOUS
<1>0. TypeOK'
  BY TypeStep
<1>1. ASSUME NEW i \in Invoices PROVE due'[i] >= AtLeast0(Total[i] - Paid(i)')
  <2>0. /\ Paid(i) \in Nat /\ Paid(i)' \in Nat /\ Paid(i) <= Paid(i)'
        /\ Total[i] \in Nat /\ due[i] \in Nat /\ due'[i] \in Nat
        /\ due[i] >= AtLeast0(Total[i] - Paid(i))
    BY <1>0, PaidGrows, GatewayAssumption DEF TypeOK, DueInv, DueNeverTooLow
  <2>1. ASSUME NEW w \in Workers, SaveInvoice(w), due'[i] # due[i]
        PROVE  due'[i] >= AtLeast0(Total[i] - Paid(i)')
    <3>1. i = Invoice(w) /\ due'[i] = AtLeast0(Total[i] - seen[w].paid)
      BY <2>1, WorkerParts DEF SaveInvoice, TypeOK
    <3>2. seen[w].paid <= Paid(i) /\ seen[w].paid \in Nat
      BY <2>1, <3>1 DEF SaveInvoice, DueInv, At, TypeOK
    <3>3. QED
      BY <2>0, <3>1, <3>2 DEF AtLeast0
  <2>2. ASSUME due'[i] = due[i] PROVE due'[i] >= AtLeast0(Total[i] - Paid(i)')
    BY <2>0, <2>2 DEF AtLeast0
  <2>3. QED
    BY <2>1, <2>2
    DEF Next, Serve, vars, docs, Arrive, Redeliver, CreateEvent, IgnoreEvent, RefuseEvent, LoadEvent,
        MarkProcessing, ReadSession, FindPayment, CheckTargets, FailSession, CreatePayment,
        CheckApply, Allocate, PaymentRollup, ReadInvoice, SumInvoice, SucceedSession,
        CaptureFailed, MarkProcessed, MarkFailed, Crash
<1>2. DueNeverTooLow'
  BY <1>1 DEF DueNeverTooLow
<1>3. QED
  BY <1>2, SeenStep DEF DueInv

\* Rollups that race never leave an invoice with less due than it should have
\* (recalculateInvoicePaymentRollups): each writes a sum of allocations that exist,
\* and allocations are only added.
THEOREM NeverDueTooLittle == Spec => []DueNeverTooLow
<1>1. Init => DueInv
  <2>1. SUFFICES ASSUME Init, NEW i \in Invoices PROVE due[i] >= AtLeast0(Total[i] - Paid(i))
    BY DEF DueInv, DueNeverTooLow, Init
  <2>2. Paid(i) \in Nat /\ Total[i] \in Nat /\ due[i] = Total[i]
    BY <2>1, BookedInit, SumsOfAllocations, GatewayAssumption DEF IInv, Init
  <2>3. QED
    BY <2>2 DEF AtLeast0
<1>2. IInv => TypeOK
  BY DEF IInv
<1>3. DueInv => DueNeverTooLow
  BY DEF DueInv
<1>4. QED
  BY CaptureInvariant, <1>1, <1>2, <1>3, DueStep, PTL DEF Spec

-----------------------------------------------------------------------------
(* The life of a charge.                                                   *)

\* The steps of a capture whose payment is not applied yet.
Unapplied == {"check_apply", "allocate"}

IsApplied(p) == \E k \in DOMAIN allocations : allocations[k].payment = p

\* Only payments that exist are applied.
AppliedExist == \A k \in DOMAIN allocations : allocations[k].payment \in DOMAIN payments

\* A session is linked to a payment of its own charge, and one that is applied.
LinksApplied ==
    \A s \in Sessions : session[s].payment # 0 => session[s].payment \in AppliedOfCharge(s)

\* A capture holds a payment of its charge, applied once it is past the allocation.
Holds(w) ==
    pc[w] \in Captured =>
        /\ own[w] \in PaymentsOf(Charge(w))
        /\ pc[w] \notin Unapplied => IsApplied(own[w])

\* The inductive invariant of a charge's life.
ChargeInv == AppliedExist /\ LinksApplied /\ (\A w \in Workers : Holds(w))

\* The payments keep their charges and the sessions their payments.
SameBooks ==
    /\ DOMAIN payments' = DOMAIN payments
    /\ \A p \in DOMAIN payments : payments'[p].charge = payments[p].charge
    /\ UNCHANGED allocations
    /\ \A s \in Sessions : session'[s].payment = session[s].payment

\* A worker goes on with what it holds, or holds nothing any more.
GoesOn(v) ==
    pc'[v] \in Captured =>
        /\ pc[v] \in Captured /\ own'[v] = own[v] /\ at'[v] = at[v]
        /\ pc'[v] \in Unapplied <=> pc[v] \in Unapplied

\* What is there stays there: payments of a charge, and what is applied.
Grows ==
    /\ \A s \in Sessions : PaymentsOf(s) \subseteq PaymentsOf(s)'
    /\ \A p : IsApplied(p) => IsApplied(p)'

\* A worker that goes on keeps holding its payment.
LEMMA HoldsOn ==
  ASSUME TypeOK, ChargeInv, Grows, NEW v \in Workers, GoesOn(v)
  PROVE  Holds(v)'
<1>1. PICK c \in Sessions : c = Charge(v)
  BY WorkerParts
<1>2. SUFFICES ASSUME pc'[v] \in Captured
               PROVE  /\ own'[v] \in PaymentsOf(Charge(v))'
                      /\ pc'[v] \notin Unapplied => IsApplied(own[v])'
  BY DEF Holds, GoesOn
<1>3. PaymentsOf(Charge(v))' = PaymentsOf(c)' /\ own'[v] = own[v]
  BY <1>1, <1>2 DEF GoesOn, Charge, PaymentsOf
<1>4. own[v] \in PaymentsOf(c) /\ (pc'[v] \notin Unapplied => IsApplied(own[v]))
  BY <1>1, <1>2 DEF ChargeInv, Holds, GoesOn
<1>5. QED
  BY <1>3, <1>4 DEF Grows

\* With the books the same, a capture that goes on keeps the invariant.
LEMMA QuietStep ==
  ASSUME TypeOK, ChargeInv, SameBooks, \A v \in Workers : GoesOn(v)
  PROVE  ChargeInv'
<1>1. /\ \A s : PaymentsOf(s)' = PaymentsOf(s)
      /\ \A p : IsApplied(p)' <=> IsApplied(p)
      /\ \A s : AppliedOfCharge(s)' = AppliedOfCharge(s)
  BY DEF PaymentsOf, SameBooks, IsApplied, AppliedOfCharge
<1>2. AppliedExist' /\ LinksApplied'
  BY <1>1 DEF AppliedExist, LinksApplied, ChargeInv, SameBooks
<1>3. Grows
  BY <1>1 DEF Grows
<1>4. QED
  BY <1>2, <1>3, HoldsOn DEF ChargeInv

\* Which payments a charge has after one more is created.
LEMMA PaymentAdded ==
  ASSUME TypeOK, NEW c \in Sessions,
         payments' = Append(payments, [charge |-> c, allocated |-> 0])
  PROVE  /\ Len(payments) + 1 \notin DOMAIN payments
         /\ DOMAIN payments' = DOMAIN payments \cup {Len(payments) + 1}
         /\ \A s \in Sessions : PaymentsOf(s)' =
              IF s = c THEN PaymentsOf(s) \cup {Len(payments) + 1} ELSE PaymentsOf(s)
<1> DEFINE new == [charge |-> c, allocated |-> 0]
           n == Len(payments) + 1
<1>1. new \in Payment /\ new.charge = c
  BY DEF Payment
<1>2. payments \in Seq(Payment) /\ DOMAIN payments = 1 .. Len(payments) /\ Len(payments) \in Nat
  BY DEF TypeOK
<1>3. payments' = Append(payments, new)
  OBVIOUS
<1> HIDE DEF new
<1>4. /\ n \notin DOMAIN payments
      /\ DOMAIN payments' = DOMAIN payments \cup {n}
      /\ \A p \in DOMAIN payments : payments'[p] = payments[p]
      /\ payments'[n] = new
  BY <1>1, <1>2, <1>3
<1> HIDE DEF n
<1>5. \A s \in Sessions : PaymentsOf(s)' = IF s = c THEN PaymentsOf(s) \cup {n} ELSE PaymentsOf(s)
  BY <1>1, <1>4 DEF PaymentsOf
<1>6. QED
  BY <1>4, <1>5 DEF n

\* A payment is recorded: one more of its charge, and not applied yet.
LEMMA Recorded ==
  ASSUME TypeOK, ChargeInv, NEW w \in Workers, CreatePayment(w)
  PROVE  /\ Grows
         /\ own'[w] \in PaymentsOf(Charge(w))'
         /\ \A s \in Sessions : AppliedOfCharge(s)' = AppliedOfCharge(s)
         /\ \A s \in Sessions \ {Charge(w)} : PaymentsOf(s)' = PaymentsOf(s)
         /\ PaymentsOf(Charge(w))' # {}
         /\ AppliedExist'
<1>c. PICK c \in Sessions : c = Charge(w)
  BY WorkerParts
<1> DEFINE n == Len(payments) + 1
<1>1. /\ payments' = Append(payments, [charge |-> c, allocated |-> 0])
      /\ own'[w] = n
      /\ UNCHANGED <<at, allocations>>
  BY <1>c DEF CreatePayment, Continue, TypeOK
<1>2. /\ n \notin DOMAIN payments
      /\ DOMAIN payments' = DOMAIN payments \cup {n}
      /\ \A s \in Sessions : PaymentsOf(s)' =
           IF s = c THEN PaymentsOf(s) \cup {n} ELSE PaymentsOf(s)
  BY <1>1, PaymentAdded
<1>3. PaymentsOf(Charge(w))' = PaymentsOf(c)'
  BY <1>c, <1>1 DEF Charge, PaymentsOf
<1> HIDE DEF n
<1>4. \A p : IsApplied(p)' <=> IsApplied(p)
  BY <1>1 DEF IsApplied
<1>5. ~IsApplied(n)
  BY <1>2 DEF IsApplied, ChargeInv, AppliedExist
<1>6. \A s \in Sessions : AppliedOfCharge(s)' = AppliedOfCharge(s)
  BY <1>1, <1>2, <1>5 DEF AppliedOfCharge, IsApplied
<1>7. AppliedExist'
  BY <1>1, <1>2 DEF AppliedExist, ChargeInv
<1>8. QED
  BY <1>c, <1>1, <1>2, <1>3, <1>4, <1>6, <1>7 DEF Grows

LEMMA RecordStep ==
  ASSUME TypeOK, ChargeInv, NEW w \in Workers, CreatePayment(w)
  PROVE  ChargeInv'
<1>1. /\ pc[w] = "create_payment" /\ pc' = [pc EXCEPT ![w] = "check_apply"]
      /\ UNCHANGED <<at, session>>
      /\ \A v \in Workers \ {w} : own'[v] = own[v]
  BY DEF CreatePayment, At, Continue, Goto, TypeOK
<1>2. ASSUME NEW v \in Workers PROVE Holds(v)'
  <2>1. CASE v # w
    <3>1. GoesOn(v)
      BY <1>1, <2>1 DEF GoesOn, TypeOK
    <3>2. QED
      BY <3>1, Recorded, HoldsOn
  <2>2. CASE v = w
    <3>1. PaymentsOf(Charge(v))' = PaymentsOf(Charge(w))'
      BY <2>2
    <3>2. QED
      BY <1>1, <2>2, <3>1, Recorded DEF Holds, Unapplied, TypeOK
  <2>3. QED
    BY <2>1, <2>2
<1>3. LinksApplied'
  BY <1>1, Recorded DEF LinksApplied, ChargeInv
<1>4. QED
  BY <1>2, <1>3, Recorded DEF ChargeInv

\* A payment is applied, and so is none but that one.
LEMMA PaymentApplied ==
  ASSUME TypeOK, ChargeInv, NEW w \in Workers, Allocate(w)
  PROVE  /\ pc[w] = "allocate" /\ pc' = [pc EXCEPT ![w] = "payment_rollup"]
         /\ UNCHANGED <<at, own, payments, session>>
         /\ own[w] \in PaymentsOf(Charge(w))
         /\ \A p : IsApplied(p)' <=> IsApplied(p) \/ p = own[w]
         /\ AppliedExist'
<1> DEFINE new == [payment |-> own[w], invoice |-> Invoice(w), amount |-> Amount[Charge(w)]]
           n == Len(allocations) + 1
<1>1. new \in Allocation /\ new.payment = own[w]
  BY WorkerParts DEF Allocation
<1>2. allocations \in Seq(Allocation) /\ DOMAIN allocations = 1 .. Len(allocations)
      /\ Len(allocations) \in Nat
  BY DEF TypeOK
<1>3. allocations' = Append(allocations, new)
  BY DEF Allocate
<1> HIDE DEF new
<1>4. /\ DOMAIN allocations' = DOMAIN allocations \cup {n}
      /\ n \notin DOMAIN allocations
      /\ \A k \in DOMAIN allocations : allocations'[k] = allocations[k]
      /\ allocations'[n].payment = own[w]
  BY <1>1, <1>2, <1>3
<1> HIDE DEF n
<1>5. /\ pc[w] = "allocate" /\ pc' = [pc EXCEPT ![w] = "payment_rollup"]
      /\ UNCHANGED <<at, own, payments, session>>
  BY DEF Allocate, At, Continue, Goto
<1>6. own[w] \in PaymentsOf(Charge(w))
  BY <1>5 DEF ChargeInv, Holds, Captured
<1>7. \A p : IsApplied(p)' <=> IsApplied(p) \/ p = own[w]
  BY <1>4 DEF IsApplied
<1>8. AppliedExist'
  BY <1>4, <1>5, <1>6 DEF AppliedExist, ChargeInv, PaymentsOf
<1>9. QED
  BY <1>5, <1>6, <1>7, <1>8

LEMMA ApplyStep ==
  ASSUME TypeOK, ChargeInv, NEW w \in Workers, Allocate(w)
  PROVE  ChargeInv'
<1>1. /\ pc[w] = "allocate" /\ pc' = [pc EXCEPT ![w] = "payment_rollup"]
      /\ UNCHANGED <<at, own, payments, session>>
      /\ own[w] \in PaymentsOf(Charge(w))
      /\ \A p : IsApplied(p)' <=> IsApplied(p) \/ p = own[w]
      /\ AppliedExist'
  BY PaymentApplied
<1>2. \A s : PaymentsOf(s)' = PaymentsOf(s)
  BY <1>1 DEF PaymentsOf
<1>3. Grows
  BY <1>1, <1>2 DEF Grows
<1>4. LinksApplied'
  BY <1>1, <1>2 DEF LinksApplied, ChargeInv, AppliedOfCharge, IsApplied
<1>5. ASSUME NEW v \in Workers PROVE Holds(v)'
  <2>1. CASE v # w
    <3>1. GoesOn(v)
      BY <1>1, <2>1 DEF GoesOn, TypeOK
    <3>2. QED
      BY <1>3, <3>1, HoldsOn
  <2>2. CASE v = w
    <3>1. PaymentsOf(Charge(v))' = PaymentsOf(Charge(v))
      BY <1>1 DEF PaymentsOf, Charge
    <3>2. QED
      BY <1>1, <2>2, <3>1 DEF Holds
  <2>3. QED
    BY <2>1, <2>2
<1>6. QED
  BY <1>1, <1>4, <1>5 DEF ChargeInv

\* A session is linked, to the payment that its capture has applied.
LEMMA SessionLinked ==
  ASSUME TypeOK, ChargeInv, NEW w \in Workers, SucceedSession(w)
  PROVE  /\ pc' = [pc EXCEPT ![w] = "mark_processed"]
         /\ UNCHANGED <<at, own, payments, allocations>>
         /\ \A s \in Sessions :
              session'[s].payment = IF s = Charge(w) THEN own[w] ELSE session[s].payment
         /\ own[w] \in AppliedOfCharge(Charge(w))
<1>1. /\ pc[w] = "succeed_session" /\ pc' = [pc EXCEPT ![w] = "mark_processed"]
      /\ UNCHANGED <<at, own, payments, allocations>>
      /\ \A s \in Sessions :
           session'[s].payment = IF s = Charge(w) THEN own[w] ELSE session[s].payment
  BY WorkerParts DEF SucceedSession, At, Continue, Goto, TypeOK
<1>2. own[w] \in PaymentsOf(Charge(w)) /\ IsApplied(own[w])
  BY <1>1 DEF ChargeInv, Holds, Captured, Unapplied
<1>3. QED
  BY <1>1, <1>2 DEF AppliedOfCharge, IsApplied

LEMMA LinkStep ==
  ASSUME TypeOK, ChargeInv, NEW w \in Workers, SucceedSession(w)
  PROVE  ChargeInv'
<1>1. /\ pc' = [pc EXCEPT ![w] = "mark_processed"]
      /\ UNCHANGED <<at, own, payments, allocations>>
      /\ \A s \in Sessions :
           session'[s].payment = IF s = Charge(w) THEN own[w] ELSE session[s].payment
      /\ own[w] \in AppliedOfCharge(Charge(w))
  BY SessionLinked
<1>2. /\ \A s : PaymentsOf(s)' = PaymentsOf(s)
      /\ \A s : AppliedOfCharge(s)' = AppliedOfCharge(s)
      /\ \A p : IsApplied(p)' <=> IsApplied(p)
  BY <1>1 DEF PaymentsOf, AppliedOfCharge, IsApplied
<1>3. AppliedExist' /\ LinksApplied'
  BY <1>1, <1>2 DEF AppliedExist, LinksApplied, ChargeInv
<1>4. Grows /\ \A v \in Workers : GoesOn(v)
  BY <1>1, <1>2 DEF Grows, GoesOn, Captured, TypeOK
<1>5. QED
  BY <1>3, <1>4, HoldsOn DEF ChargeInv

\* Every other step leaves the books alone.
LEMMA OtherSteps ==
  ASSUME TypeOK, [Next]_vars,
         \A w \in Workers : ~CreatePayment(w) /\ ~Allocate(w) /\ ~SucceedSession(w)
  PROVE  SameBooks /\ \A v \in Workers : GoesOn(v)
<1>1. SameBooks
  <2>1. ASSUME NEW w \in Workers, PaymentRollup(w) PROVE SameBooks
    BY <2>1 DEF PaymentRollup, SameBooks, TypeOK, Payment
  <2>2. ASSUME NEW w \in Workers, FailSession(w) \/ CaptureFailed(w) PROVE SameBooks
    <3>1. /\ session' = [session EXCEPT ![Charge(w)].status = "failed"]
          /\ UNCHANGED <<payments, allocations>>
      BY <2>2 DEF FailSession, CaptureFailed
    <3>2. \A s \in Sessions : session'[s].payment = session[s].payment
      BY <3>1 DEF TypeOK, SessionDoc
    <3>3. QED
      BY <3>1, <3>2 DEF SameBooks
  <2>3. CASE UNCHANGED <<payments, allocations, session>>
    BY <2>3 DEF SameBooks
  <2>4. QED
    BY <2>1, <2>2, <2>3
    DEF Next, Serve, vars, docs, Arrive, Redeliver, CreateEvent, IgnoreEvent, RefuseEvent,
        LoadEvent, MarkProcessing, ReadSession, FindPayment, CheckTargets, CheckApply,
        ReadInvoice, SumInvoice, SaveInvoice, MarkProcessed, MarkFailed, Crash
<1>2. ASSUME NEW v \in Workers PROVE GoesOn(v)
  <2>1. CASE UNCHANGED <<pc[v], at[v], own[v], seen[v]>>
    BY <2>1 DEF GoesOn
  <2>2. CASE (\E e \in Events : Arrive(v, e)) \/ (\E d \in Docs : Redeliver(v, d))
    BY <2>2 DEF Arrive, Redeliver, Goto, GoesOn, TypeOK, Captured
  <2>3. CASE Serve(v)
    BY <2>3
    DEF TypeOK, GoesOn, Captured, Unapplied, Serve, At, Goto, Continue, Answer, CreateEvent,
        IgnoreEvent, RefuseEvent, LoadEvent, MarkProcessing, ReadSession, FindPayment,
        CheckTargets, FailSession, CheckApply, PaymentRollup, ReadInvoice, SumInvoice,
        SaveInvoice, CaptureFailed, MarkProcessed, MarkFailed
  <2>4. CASE Crash(v)
    BY <2>4 DEF Crash, Goto, GoesOn, TypeOK, Captured
  <2>5. QED
    BY <2>1, <2>2, <2>3, <2>4, OneWorker
<1>3. QED
  BY <1>1, <1>2

LEMMA ChargeStep == TypeOK /\ ChargeInv /\ [Next]_vars => ChargeInv'
  BY RecordStep, ApplyStep, LinkStep, OtherSteps, QuietStep

LEMMA ChargeInit == Init => ChargeInv
  BY DEF Init, ChargeInv, AppliedExist, LinksApplied, Holds, Captured

\* Under the invariant the stage of a charge says how far it came.
Phase(s) ==
    IF PaymentsOf(s) = {} THEN "open"
    ELSE IF AppliedOfCharge(s) = {} THEN "recorded"
    ELSE IF session[s].payment = 0 THEN "applied" ELSE "settled"

StagesKnown == \A s \in Sessions : Stage(s) = Phase(s)

LEMMA StageIsPhase == TypeOK /\ ChargeInv => StagesKnown
<1> SUFFICES ASSUME TypeOK, ChargeInv, NEW s \in Sessions PROVE Stage(s) = Phase(s)
  BY DEF StagesKnown
<1>1. 0 \notin AppliedOfCharge(s) /\ AppliedOfCharge(s) \subseteq PaymentsOf(s)
  BY DEF AppliedOfCharge, PaymentsOf, TypeOK
<1>2. session[s].payment = 0 \/ session[s].payment \in AppliedOfCharge(s)
  BY DEF ChargeInv, LinksApplied
<1>3. CASE session[s].payment = 0
  BY <1>1, <1>3 DEF Stage, Phase
<1>4. CASE session[s].payment # 0
  BY <1>1, <1>2, <1>4 DEF Stage, Phase
<1>5. QED
  BY <1>3, <1>4

Stages == [s \in Sessions |-> Stage(s)]

\* One charge advances, the others stay: a step of the lifecycle.
LEMMA AdvanceIsStep ==
  ASSUME NEW c \in Sessions, NEW from, NEW to,
         <<from, to>> \in {<<"open", "recorded">>, <<"recorded", "applied">>,
                           <<"applied", "settled">>},
         Stage(c) = from, Stage(c)' = to,
         \A s \in Sessions \ {c} : Stage(s)' = Stage(s)
  PROVE  Lifecycle!Next
<1>1. Lifecycle!Advance(c, from, to)
  BY DEF Lifecycle!Advance
<1>2. QED
  BY <1>1 DEF Lifecycle!Next

\* Each step of the pipeline advances one charge by one stage, or none.
LEMMA LifecycleStep ==
  TypeOK /\ ChargeInv /\ StagesKnown /\ StagesKnown' /\ [Next]_vars
    => [Lifecycle!Next]_Stages
<1> SUFFICES ASSUME TypeOK, ChargeInv, StagesKnown, StagesKnown', [Next]_vars
             PROVE  Lifecycle!Next \/ UNCHANGED Stages
  BY DEF Stages
<1>0. \A s \in Sessions : Stage(s) = Phase(s) /\ Stage(s)' = Phase(s)'
  BY DEF StagesKnown
<1>q. ASSUME \A s \in Sessions : Phase(s)' = Phase(s) PROVE UNCHANGED Stages
  BY <1>0, <1>q DEF Stages
<1>a. ASSUME NEW c \in Sessions, \A s \in Sessions \ {c} : Phase(s)' = Phase(s),
             \/ Phase(c)' = Phase(c)
             \/ Phase(c) = "open" /\ Phase(c)' = "recorded"
             \/ Phase(c) = "recorded" /\ Phase(c)' = "applied"
             \/ Phase(c) = "applied" /\ Phase(c)' = "settled"
      PROVE  Lifecycle!Next \/ UNCHANGED Stages
  <2>1. CASE Phase(c)' = Phase(c)
    BY <1>a, <1>q, <2>1
  <2>2. CASE Phase(c)' # Phase(c)
    BY <1>0, <1>a, <2>2, AdvanceIsStep
  <2>3. QED
    BY <2>1, <2>2
<1>s. ASSUME SameBooks PROVE UNCHANGED Stages
  <2>1. \A s \in Sessions : PaymentsOf(s)' = PaymentsOf(s) /\ AppliedOfCharge(s)' = AppliedOfCharge(s)
    BY <1>s DEF SameBooks, PaymentsOf, AppliedOfCharge
  <2>2. \A s \in Sessions : Phase(s)' = Phase(s)
    BY <1>s, <2>1 DEF SameBooks, Phase
  <2>3. QED
    BY <1>q, <2>2
<1>1. ASSUME NEW w \in Workers, CreatePayment(w) PROVE Lifecycle!Next \/ UNCHANGED Stages
  <2>c. PICK c \in Sessions : c = Charge(w)
    BY WorkerParts
  <2>1. UNCHANGED <<session, at>>
    BY <1>1 DEF CreatePayment, Continue
  <2>2. PaymentsOf(Charge(w))' = PaymentsOf(c)'
    BY <2>c, <2>1 DEF Charge, PaymentsOf
  <2>3. /\ \A s \in Sessions : AppliedOfCharge(s)' = AppliedOfCharge(s)
        /\ \A s \in Sessions \ {c} : PaymentsOf(s)' = PaymentsOf(s)
        /\ PaymentsOf(c)' # {}
    BY <1>1, <2>c, <2>2, Recorded
  <2>4. \A s \in Sessions \ {c} : Phase(s)' = Phase(s)
    BY <2>1, <2>3 DEF Phase
  <2>5. PaymentsOf(c) = {} => AppliedOfCharge(c) = {}
    BY DEF AppliedOfCharge
  <2>6. Phase(c)' = Phase(c) \/ (Phase(c) = "open" /\ Phase(c)' = "recorded")
    BY <2>1, <2>3, <2>5 DEF Phase
  <2>7. QED
    BY <1>a, <2>4, <2>6
<1>2. ASSUME NEW w \in Workers, Allocate(w) PROVE Lifecycle!Next \/ UNCHANGED Stages
  <2>c. PICK c \in Sessions : c = Charge(w)
    BY WorkerParts
  <2>1. /\ UNCHANGED <<payments, session>>
        /\ own[w] \in PaymentsOf(c)
        /\ \A p : IsApplied(p)' <=> IsApplied(p) \/ p = own[w]
    BY <1>2, <2>c, PaymentApplied
  <2>2. \A s : PaymentsOf(s)' = PaymentsOf(s)
    BY <2>1 DEF PaymentsOf
  <2>3. \A s \in Sessions :
          AppliedOfCharge(s)' = IF s = c THEN AppliedOfCharge(s) \cup {own[w]} ELSE AppliedOfCharge(s)
    BY <2>1, <2>2 DEF AppliedOfCharge, IsApplied, PaymentsOf
  <2>4. \A s \in Sessions \ {c} : Phase(s)' = Phase(s)
    BY <2>1, <2>2, <2>3 DEF Phase
  <2>5. AppliedOfCharge(c) = {} => session[c].payment = 0
    BY DEF ChargeInv, LinksApplied
  <2>6. Phase(c)' = Phase(c) \/ (Phase(c) = "recorded" /\ Phase(c)' = "applied")
    BY <2>1, <2>2, <2>3, <2>5 DEF Phase
  <2>7. QED
    BY <1>a, <2>4, <2>6
<1>3. ASSUME NEW w \in Workers, SucceedSession(w) PROVE Lifecycle!Next \/ UNCHANGED Stages
  <2>c. PICK c \in Sessions : c = Charge(w)
    BY WorkerParts
  <2>1. /\ UNCHANGED <<payments, allocations>>
        /\ \A s \in Sessions :
             session'[s].payment = IF s = c THEN own[w] ELSE session[s].payment
        /\ own[w] \in AppliedOfCharge(c)
    BY <1>3, <2>c, SessionLinked
  <2>2. \A s : PaymentsOf(s)' = PaymentsOf(s) /\ AppliedOfCharge(s)' = AppliedOfCharge(s)
    BY <2>1 DEF PaymentsOf, AppliedOfCharge
  <2>3. PaymentsOf(c) # {} /\ own[w] # 0
    BY <2>1 DEF AppliedOfCharge, PaymentsOf, TypeOK
  <2>4. \A s \in Sessions \ {c} : Phase(s)' = Phase(s)
    BY <2>1, <2>2 DEF Phase
  <2>5. Phase(c) \in {"applied", "settled"} /\ Phase(c)' = "settled"
    BY <2>1, <2>2, <2>3 DEF Phase
  <2>6. QED
    BY <1>a, <2>4, <2>5
<1>4. QED
  BY <1>1, <1>2, <1>3, <1>s, OtherSteps

\* Redelivery, both success events of a checkout, events stored more than once,
\* racing deliveries and crashes included, no stage of a charge is skipped or taken
\* back: a session is linked only to a payment of its own charge that was recorded
\* and applied before, and stays linked to one (recordPayment,
\* applyPaymentAllocations, markSessionSucceeded).  No index is assumed.
THEOREM CaptureImplementsLifecycle == Spec => ImplementsLifecycle
<1>1. Init => Lifecycle!Init
  <2> SUFFICES ASSUME Init PROVE [s \in Sessions |-> Stage(s)] = [s \in Sessions |-> "open"]
    BY DEF Lifecycle!Init
  <2>1. \A s \in Sessions : Phase(s) = "open"
    BY DEF Init, Phase, PaymentsOf
  <2>2. \A s \in Sessions : Stage(s) = "open"
    BY <2>1, BookedInit, ChargeInit, StageIsPhase DEF IInv, StagesKnown
  <2>3. QED
    BY <2>2
<1>2. Spec => [](TypeOK /\ ChargeInv)
  BY ChargeInit, ChargeStep, CaptureTypes, PTL DEF Spec
<1>3. Spec => []StagesKnown
  BY <1>2, StageIsPhase, PTL
<1>4. QED
  BY <1>1, <1>2, <1>3, LifecycleStep, PTL DEF Spec, ImplementsLifecycle, Lifecycle!Spec, Stages
=============================================================================
