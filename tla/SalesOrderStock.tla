-------------------------- MODULE SalesOrderStock --------------------------
(***************************************************************************)
(* Sales orders and the stock they reserve and ship: confirm and cancel an    *)
(* order, post and reverse a fulfilment, rebuild the balances.               *)
(*                                                                          *)
(*   services/salesOrderManualService.js       confirm, cancel              *)
(*   services/salesOrderFulfillmentService.js  post and reverse             *)
(*   services/inventoryFulfillmentService.js   the stock side of a posting    *)
(*   services/inventoryTransactionService.js   stock check, ledger            *)
(*   services/inventoryReservationService.js   reserve, consume, release      *)
(*   services/inventoryRollupService.js        ledger -> balance              *)
(*   services/inventoryBalanceRebuildService.js                              *)
(*                                                                          *)
(* One variant at one location; every order has one line of it.  Nothing runs *)
(* in a database transaction, so each awaited read or write is a step, and     *)
(* what a request holds between two of them is in req and seen.               *)
(*                                                                          *)
(* A mongoose save writes the paths that differ from the document loaded.     *)
(* The reservation has one array, consumedByLedgerEntryIds: replacing it makes  *)
(* the save conditional on the version and increments it.  No other save here  *)
(* looks at a version.                                                       *)
(***************************************************************************)
EXTENDS Integers, Sequences, FiniteSets, Functions, SequencesExt

CONSTANTS
    Orders,        \* the sales orders
    Workers,       \* the requests served at a time
    Quantity,      \* what the line of each order asks for
    Opening,       \* the opening balance, in the ledger before any order
    BlockConfirm,  \* settings.blockConfirmOnInsufficientStock
    ActiveIndex,   \* the partial unique index on active reservations is built
    Kinds,         \* the kinds of request that arrive
    MaxRequests,   \* bound on the requests
    MaxCrashes     \* bound on the server crashes

PostingKinds == {"ship", "drop", "backorder"}
AllKinds == {"confirm", "cancel", "reverse", "rebuild"} \cup PostingKinds

ASSUME OrdersAssumption ==
    /\ Orders # {} /\ IsFiniteSet(Orders)
    /\ Quantity \in [Orders -> Nat \ {0}]
ASSUME SettingsAssumption ==
    /\ Opening \in Nat
    /\ BlockConfirm \in BOOLEAN /\ ActiveIndex \in BOOLEAN
    /\ Kinds \subseteq AllKinds
ASSUME StockBoundsAssumption == MaxRequests \in Nat /\ MaxCrashes \in Nat

VARIABLES
    order,     \* SalesOrder.status
    line,      \* its line: quantityFulfilled, ...Cancelled and ...Backordered
    events,    \* the SalesOrderFulfillment documents
    ledger,    \* per order, the sum of the posted ledger deltas
    rollup,    \* the ItemInventory document
    resv,      \* the reservations of an order, the last saved last
    pc,        \* the next step of each worker
    req,       \* the request it serves
    seen,      \* what that request has read
    taken,     \* per order, consumption a request saw succeed (history)
    alone,     \* the requests no other has overlapped (history)
    requests,  \* requests so far
    crashes    \* crashes so far

docs == <<order, line, events, ledger, rollup, resv>>
vars == <<docs, pc, req, seen, taken, alone, requests, crashes>>

-----------------------------------------------------------------------------
(* The documents.                                                          *)

OrderStatus == {"Draft", "Confirmed", "In Fulfillment", "Partially Fulfilled",
                "Fulfilled", "Cancelled"}
Fulfillable == {"Confirmed", "In Fulfillment", "Partially Fulfilled", "Fulfilled"}
Cancellable == OrderStatus \ {"Cancelled"}
ActiveStatus == {"active", "partially_consumed"}
ReservationStatus == ActiveStatus \cup {"consumed", "released", "cancelled"}

Line == [fulfilled : Int, cancelled : Int, backordered : Int]
Balance == [onHand : Int, reserved : Int]
Reservation == [id : Nat, quantity : Int, consumed : Int,
                status : ReservationStatus, version : Nat]
Event == [order : Orders, kind : PostingKinds, qty : Nat,
          status : {"posted", "reversed"}]

AtLeast0(n) == IF n < 0 THEN 0 ELSE n
Lesser(a, b) == IF a < b THEN a ELSE b

OnHand == Opening + FoldFunction(+, 0, ledger)
Open(o, l) == AtLeast0(Quantity[o] - l.fulfilled - l.cancelled)

Active(r) == r.status \in ActiveStatus
ActiveRows(o) == {r \in Range(resv[o]) : Active(r)}
Remaining(r) == AtLeast0(r.quantity - r.consumed)
Place(o, id) == CHOOSE i \in DOMAIN resv[o] : resv[o][i].id = id
RowById(o, id) == resv[o][Place(o, id)]

\* sumActiveReservedQty, one order's part of it.
Held(o) == FoldFunction(+, 0, [i \in DOMAIN resv[o] |->
    IF Active(resv[o][i]) THEN resv[o][i].quantity - resv[o][i].consumed ELSE 0])
Reserved == FoldFunction(+, 0, [o \in Orders |-> Held(o)])

\* A save of a reservation: it becomes the one updated last.
Saved(o, r) ==
    [resv EXCEPT ![o] = Append(RemoveAt(@, Place(o, r.id)), r)]

-----------------------------------------------------------------------------
(* Requests.                                                               *)

NoRow == [id |-> 0, quantity |-> 0, consumed |-> 0, status |-> "active", version |-> 0]
NoLine == [fulfilled |-> 0, cancelled |-> 0, backordered |-> 0]

Step == {"idle",
    "confirm_save", "reserve_open", "reserve_find", "reserve_balance",
    "reserve_sum", "reserve_create", "backorder_line", "undo_save",
    "cancel_save", "release_find", "release_save",
    "read_event", "read_line", "stock_check", "post",
    "consume_find", "consume_save", "restore_find", "restore_save",
    "save_line", "read_lines", "save_order", "create_event", "mark_event",
    "drop_find", "drop_save",
    "sum_reserved", "sum_ledger", "read_rollup", "save_rollup"}

NoOrder == CHOOSE o \in Orders : TRUE
NoRequest == [op |-> "rebuild", order |-> NoOrder, kind |-> "ship", qty |-> 0, event |-> 0]
Nothing == [status |-> "Draft", line |-> NoLine, onHand |-> 0, reserved |-> {},
            rollup |-> [onHand |-> 0, reserved |-> 0], row |-> NoRow, rows |-> {},
            next |-> "Draft", then |-> "idle"]

\* seen.reserved is {} where the code passes null, seen.then is where the
\* refresh of the balance returns to.
Request == [op : {"confirm", "cancel", "post", "reverse", "rebuild"}, order : Orders,
            kind : PostingKinds, qty : Nat, event : Nat]
Snapshot == [status : OrderStatus, line : Line, onHand : Int, reserved : SUBSET Int,
             rollup : Balance, row : Reservation, rows : SUBSET Nat,
             next : OrderStatus, then : Step]

TypeOK ==
    /\ order \in [Orders -> OrderStatus]
    /\ line \in [Orders -> Line]
    /\ events \in Seq(Event)
    /\ ledger \in [Orders -> Int]
    /\ rollup \in Balance
    /\ resv \in [Orders -> Seq(Reservation)]
    /\ pc \in [Workers -> Step]
    /\ req \in [Workers -> Request]
    /\ seen \in [Workers -> Snapshot]
    /\ taken \in [Orders -> Int]
    /\ alone \subseteq Workers
    /\ requests \in Nat /\ crashes \in Nat

\* An order is created as a draft, or confirmed already from an accepted quote.
Init ==
    /\ order \in [Orders -> {"Draft", "Confirmed"}]
    /\ line = [o \in Orders |-> NoLine]
    /\ events = <<>>
    /\ ledger = [o \in Orders |-> 0]
    /\ rollup = [onHand |-> Opening, reserved |-> 0]
    /\ resv = [o \in Orders |-> <<>>]
    /\ pc = [w \in Workers |-> "idle"]
    /\ req = [w \in Workers |-> NoRequest]
    /\ seen = [w \in Workers |-> Nothing]
    /\ taken = [o \in Orders |-> 0]
    /\ alone = {}
    /\ requests = 0 /\ crashes = 0

At(w, step) == pc[w] = step
Goto(w, step) == pc' = [pc EXCEPT ![w] = step]
KeepHistory == UNCHANGED <<taken, alone, requests, crashes>>

\* The request goes on at step, or is answered.
Continue(w, step) ==
    /\ Goto(w, step)
    /\ UNCHANGED req
    /\ KeepHistory

Answer(w) ==
    /\ Goto(w, "idle")
    /\ req' = [req EXCEPT ![w] = NoRequest]
    /\ seen' = [seen EXCEPT ![w] = Nothing]
    /\ KeepHistory

\* refreshReservedRollup, and recomputeItemInventory without a reserved value.
Refresh(w, then) ==
    /\ Goto(w, "sum_reserved")
    /\ seen' = [seen EXCEPT ![w].then = then]
    /\ UNCHANGED req

Receive(w, r, step) ==
    /\ At(w, "idle")
    /\ requests < MaxRequests
    /\ requests' = requests + 1
    /\ Goto(w, step)
    /\ req' = [req EXCEPT ![w] = r]
    /\ alone' = IF \A v \in Workers \ {w} : At(v, "idle") THEN {w} ELSE {}
    /\ UNCHANGED <<docs, taken, crashes>>

Ask(op, o, kind, qty, event) ==
    [op |-> op, order |-> o, kind |-> kind, qty |-> qty, event |-> event]

-----------------------------------------------------------------------------
(* inventoryRollupService: the balance from the ledger and the reservations.  *)

SumReserved(w) ==
    /\ At(w, "sum_reserved")
    /\ seen' = [seen EXCEPT ![w].reserved = {Reserved}]
    /\ Continue(w, "sum_ledger")
    /\ UNCHANGED docs

SumLedger(w) ==
    /\ At(w, "sum_ledger")
    /\ seen' = [seen EXCEPT ![w].onHand = OnHand]
    /\ Continue(w, "read_rollup")
    /\ UNCHANGED docs

ReadRollup(w) ==
    /\ At(w, "read_rollup")
    /\ seen' = [seen EXCEPT ![w].rollup = rollup]
    /\ Continue(w, "save_rollup")
    /\ UNCHANGED docs

\* What a save of the balance leaves: a value equal to the loaded one is not
\* written, and reserved is computed anew only when the caller passed it.
RollupSaved(s) ==
    [onHand |-> IF s.onHand # s.rollup.onHand THEN s.onHand ELSE rollup.onHand,
     reserved |-> IF s.reserved \subseteq {s.rollup.reserved}
                    THEN rollup.reserved
                    ELSE CHOOSE n \in s.reserved : TRUE]

SaveRollup(w) ==
    /\ At(w, "save_rollup")
    /\ rollup' = RollupSaved(seen[w])
    /\ IF seen[w].then = "idle"
         THEN Answer(w)
         ELSE /\ seen' = [seen EXCEPT ![w].onHand = 0, ![w].reserved = {},
                          ![w].rollup = Nothing.rollup, ![w].then = "idle"]
              /\ Continue(w, seen[w].then)
    /\ UNCHANGED <<order, line, events, ledger, resv>>

RebuildLedgerOnly(w) ==  \* mutant: the reservations are not summed
    /\ "rebuild" \in Kinds
    /\ Receive(w, NoRequest, "sum_ledger")
    /\ UNCHANGED seen

\* rebuildAllBalances, for the one pair there is.
Rebuild(w) ==
    /\ "rebuild" \in Kinds
    /\ Receive(w, NoRequest, "sum_reserved")
    /\ UNCHANGED seen

-----------------------------------------------------------------------------
(* confirmSalesOrder and reserveForSalesOrder.                             *)

ReceiveConfirm(w, o) ==
    /\ "confirm" \in Kinds
    /\ order[o] = "Draft"
    /\ Receive(w, Ask("confirm", o, "ship", 0, 0), "confirm_save")
    /\ UNCHANGED seen

SaveConfirmed(w) ==
    /\ At(w, "confirm_save")
    /\ order' = [order EXCEPT ![req[w].order] = "Confirmed"]
    /\ Continue(w, "reserve_open")
    /\ UNCHANGED <<line, events, ledger, rollup, resv, seen>>

ReserveOpen(w) ==
    LET o == req[w].order IN
    /\ At(w, "reserve_open")
    /\ IF Open(o, line[o]) = 0
         THEN Answer(w)
         ELSE /\ seen' = [seen EXCEPT ![w].line = line[o]]
              /\ Continue(w, "reserve_find")
    /\ UNCHANGED docs

\* An active reservation of the line is kept as it is.
ReserveFind(w) ==
    /\ At(w, "reserve_find")
    /\ IF ActiveRows(req[w].order) # {}
         THEN Answer(w)
         ELSE UNCHANGED seen /\ Continue(w, "reserve_balance")
    /\ UNCHANGED docs

ReserveBalance(w) ==
    /\ At(w, "reserve_balance")
    /\ seen' = [seen EXCEPT ![w].onHand = rollup.onHand]
    /\ Continue(w, "reserve_sum")
    /\ UNCHANGED docs

AvailableIgnoringReserved(w) == AtLeast0(seen[w].onHand)  \* mutant

\* computeAtp: the balance read a step before, less what is reserved now.
Available(w) == AtLeast0(seen[w].onHand - Reserved)

ReserveSum(w) ==
    LET o == req[w].order
        wanted == Open(o, seen[w].line)
        qty == Lesser(wanted, Available(w))
    IN
    /\ At(w, "reserve_sum")
    /\ CASE BlockConfirm /\ qty < wanted ->
              UNCHANGED seen /\ Continue(w, "release_find")
         [] ~(BlockConfirm /\ qty < wanted) /\ qty = 0 ->
              UNCHANGED seen /\ Continue(w, "backorder_line")
         [] OTHER ->
              /\ seen' = [seen EXCEPT ![w].onHand = 0,
                    ![w].row = [NoRow EXCEPT !.quantity = qty]]
              /\ Continue(w, "reserve_create")
    /\ UNCHANGED docs

\* The insert; the unique index refuses a second active row of the line.
ReserveCreate(w) ==
    LET o == req[w].order
        row == [seen[w].row EXCEPT !.id = Len(resv[o]) + 1]
    IN
    /\ At(w, "reserve_create")
    /\ IF ActiveIndex /\ ActiveRows(o) # {}
         THEN /\ UNCHANGED <<resv, seen>>
              /\ Continue(w, "release_find")
         ELSE /\ resv' = [resv EXCEPT ![o] = Append(@, row)]
              /\ Refresh(w, IF row.quantity < Open(o, seen[w].line)
                              THEN "backorder_line" ELSE "idle")
              /\ KeepHistory
    /\ UNCHANGED <<order, line, events, ledger, rollup>>

\* What could not be reserved is on backorder.
BackorderLine(w) ==
    LET o == req[w].order IN
    /\ At(w, "backorder_line")
    /\ line' = [line EXCEPT ![o].backordered =
                  @ + Open(o, seen[w].line) - seen[w].row.quantity]
    /\ Answer(w)
    /\ UNCHANGED <<order, events, ledger, rollup, resv>>

\* The catch of confirmSalesOrder, after it released the rows it found.
UndoConfirm(w) ==
    /\ At(w, "undo_save")
    /\ order' = [order EXCEPT ![req[w].order] = "Draft"]
    /\ Answer(w)
    /\ UNCHANGED <<line, events, ledger, rollup, resv>>

-----------------------------------------------------------------------------
(* cancelSalesOrder and releaseForSalesOrder.                              *)

ReceiveCancel(w, o) ==
    /\ "cancel" \in Kinds
    /\ order[o] \in Cancellable
    /\ Receive(w, Ask("cancel", o, "ship", 0, 0), "cancel_save")
    /\ UNCHANGED seen

SaveCancelled(w) ==
    /\ At(w, "cancel_save")
    /\ order' = [order EXCEPT ![req[w].order] = "Cancelled"]
    /\ Continue(w, "release_find")
    /\ UNCHANGED <<line, events, ledger, rollup, resv, seen>>

AfterRelease(w) == IF req[w].op = "confirm" THEN "undo_save" ELSE "idle"

ReleaseFindUntouched(w) ==  \* mutant: partly consumed reservations are not found
    LET rows == {r.id : r \in {x \in ActiveRows(req[w].order) : x.status = "active"}} IN
    /\ At(w, "release_find")
    /\ CASE rows # {} ->
              /\ seen' = [seen EXCEPT ![w].rows = rows]
              /\ Continue(w, "release_save")
         [] rows = {} /\ AfterRelease(w) # "idle" ->
              UNCHANGED seen /\ Continue(w, AfterRelease(w))
         [] OTHER -> Answer(w)
    /\ UNCHANGED docs

ReleaseFind(w) ==
    LET rows == {r.id : r \in ActiveRows(req[w].order)} IN
    /\ At(w, "release_find")
    /\ CASE rows # {} ->
              /\ seen' = [seen EXCEPT ![w].rows = rows]
              /\ Continue(w, "release_save")
         [] rows = {} /\ AfterRelease(w) # "idle" ->
              UNCHANGED seen /\ Continue(w, AfterRelease(w))
         [] OTHER -> Answer(w)
    /\ UNCHANGED docs

\* releaseReservationRecord: status only, whatever the row has become since.
ReleaseSave(w) ==
    LET o == req[w].order
        left(id) == seen[w].rows \ {id}
    IN
    /\ At(w, "release_save")
    /\ \E id \in seen[w].rows :
         /\ \A other \in seen[w].rows : id <= other
         /\ resv' = Saved(o, [RowById(o, id) EXCEPT !.status = "cancelled"])
         /\ seen' = [seen EXCEPT ![w].rows = left(id),
                ![w].then = IF left(id) = {} THEN AfterRelease(w) ELSE "release_save"]
    /\ Continue(w, "sum_reserved")
    /\ UNCHANGED <<order, line, events, ledger, rollup>>

-----------------------------------------------------------------------------
(* postSalesOrderFulfillment, and how reverseSalesOrderFulfillment begins.    *)

\* "ship" stands for the types that move stock, "drop" for the type cancel; the
\* type progress, which books no quantity, is left out.
ReceivePosting(w, o, kind, qty) ==
    /\ kind \in Kinds
    /\ order[o] \in Fulfillable
    /\ Receive(w, Ask("post", o, kind, qty, 0), "read_line")
    /\ seen' = [seen EXCEPT ![w].status = order[o]]

ReceiveReversal(w, e) ==
    LET ev == events[e] IN
    /\ "reverse" \in Kinds
    /\ order[ev.order] \in Fulfillable
    /\ Receive(w, Ask("reverse", ev.order, ev.kind, ev.qty, e), "read_event")
    /\ seen' = [seen EXCEPT ![w].status = order[ev.order]]

ReadEvent(w) ==
    /\ At(w, "read_event")
    /\ IF events[req[w].event].status = "posted"
         THEN UNCHANGED seen /\ Continue(w, "read_line")
         ELSE Answer(w)
    /\ UNCHANGED docs

\* The quantity of a line that a posting of this kind adds to.
Booked(l, kind) ==
    CASE kind = "ship" -> l.fulfilled
      [] kind = "drop" -> l.cancelled
      [] kind = "backorder" -> l.backordered

FitsOrdered(w, l) ==  \* mutant: compared with what was ordered, not with what is open
    req[w].qty <= CASE req[w].op = "post" -> Quantity[req[w].order]
                    [] OTHER -> Booked(l, req[w].kind)

\* The quantity must be open, or to reverse it must have been booked.
Fits(w, l) ==
    req[w].qty <= CASE req[w].op = "post" -> Open(req[w].order, l)
                    [] OTHER -> Booked(l, req[w].kind)

ReadLine(w) ==
    LET l == line[req[w].order] IN
    /\ At(w, "read_line")
    /\ IF Fits(w, l)
         THEN /\ seen' = [seen EXCEPT ![w].line = l]
              /\ Continue(w, CASE req[w].kind # "ship" -> "save_line"
                               [] req[w].kind = "ship" /\ req[w].op = "post" -> "stock_check"
                               [] OTHER -> "post")
         ELSE Answer(w)
    /\ UNCHANGED docs

-----------------------------------------------------------------------------
(* applyFulfillment: stock check, ledger, balance, reservation.             *)

StockCheckLenient(w) ==  \* mutant: without stock the line is booked, the ledger is not
    /\ At(w, "stock_check")
    /\ UNCHANGED seen
    /\ Continue(w, IF rollup.onHand - req[w].qty < 0 THEN "save_line" ELSE "post")
    /\ UNCHANGED docs

\* assertSufficientStock, of the balance as last saved.
StockCheck(w) ==
    /\ At(w, "stock_check")
    /\ IF rollup.onHand - req[w].qty < 0
         THEN Answer(w)
         ELSE UNCHANGED seen /\ Continue(w, "post")
    /\ UNCHANGED docs

\* quantityDelta of the entry: out for a posting, back for a reversal.
Delta(w) == IF req[w].op = "post" THEN -req[w].qty ELSE req[w].qty

\* The ledger entry.  Its source is an event id drawn for this request, so the
\* look-up of an earlier entry of the same source never finds one.
Post(w) ==
    /\ At(w, "post")
    /\ ledger' = [ledger EXCEPT ![req[w].order] = @ + Delta(w)]
    /\ seen' = [seen EXCEPT ![w].then =
                    IF req[w].op = "post" THEN "consume_find" ELSE "restore_find"]
    /\ Continue(w, "sum_ledger")
    /\ UNCHANGED <<order, line, events, rollup, resv>>

ConsumeFind(w) ==
    LET rows == ActiveRows(req[w].order) IN
    /\ At(w, "consume_find")
    /\ IF rows = {}
         THEN UNCHANGED seen /\ Continue(w, "save_line")
         ELSE /\ \E r \in rows : seen' = [seen EXCEPT ![w].row = r]
              /\ Continue(w, "consume_save")
    /\ UNCHANGED docs

\* The row a save leaves: status is written only if the request changed it.
Rewritten(current, loaded, consumed, status) ==
    [current EXCEPT !.consumed = IF consumed # loaded.consumed THEN consumed ELSE @,
                    !.status = IF status # loaded.status THEN status ELSE @]

Consumption(w) == Lesser(Remaining(seen[w].row), req[w].qty)

ConsumeSaveUnversioned(w) ==  \* mutant: the ledger id is pushed, the version not looked at
    LET o == req[w].order
        loaded == seen[w].row
        consumed == loaded.consumed + Consumption(w)
        status == IF consumed >= loaded.quantity THEN "consumed" ELSE "partially_consumed"
    IN
    /\ At(w, "consume_save")
    /\ resv' = Saved(o, Rewritten(RowById(o, loaded.id), loaded, consumed, status))
    /\ taken' = [taken EXCEPT ![o] = @ + Consumption(w)]
    /\ Refresh(w, "save_line")
    /\ UNCHANGED <<order, line, events, ledger, rollup, alone, requests, crashes>>

\* Another consumption in between makes the save fail, and the posting with it.
ConsumeSave(w) ==
    LET o == req[w].order
        loaded == seen[w].row
        current == RowById(o, loaded.id)
        consumed == loaded.consumed + Consumption(w)
        status == IF consumed >= loaded.quantity THEN "consumed" ELSE "partially_consumed"
    IN
    /\ At(w, "consume_save")
    /\ IF current.version # loaded.version
         THEN Answer(w) /\ UNCHANGED resv
         ELSE /\ resv' = Saved(o, [Rewritten(current, loaded, consumed, status)
                                     EXCEPT !.version = @ + 1])
              /\ taken' = [taken EXCEPT ![o] = @ + Consumption(w)]
              /\ Refresh(w, "save_line")
              /\ UNCHANGED <<alone, requests, crashes>>
    /\ UNCHANGED <<order, line, events, ledger, rollup>>

\* restoreReservationConsumption: the row updated last that is not untouched.
Restorable(o) == {i \in DOMAIN resv[o] : resv[o][i].status # "active"}

RestoreFind(w) ==
    LET o == req[w].order IN
    /\ At(w, "restore_find")
    /\ \/ /\ Restorable(o) = {}
          /\ UNCHANGED seen /\ Continue(w, "save_line")
       \/ \E i \in Restorable(o) :
            /\ \A j \in Restorable(o) : j <= i
            /\ IF Lesser(resv[o][i].consumed, req[w].qty) <= 0
                 THEN UNCHANGED seen /\ Continue(w, "save_line")
                 ELSE /\ seen' = [seen EXCEPT ![w].row = resv[o][i]]
                      /\ Continue(w, "restore_save")
    /\ UNCHANGED docs

RestoreSave(w) ==
    LET o == req[w].order
        loaded == seen[w].row
        restored == Lesser(loaded.consumed, req[w].qty)
        consumed == loaded.consumed - restored
        status == IF consumed > 0 THEN "partially_consumed" ELSE "active"
        row == Rewritten(RowById(o, loaded.id), loaded, consumed, status)
    IN
    /\ At(w, "restore_save")
    /\ IF ActiveIndex /\ Active(row) /\ \E r \in ActiveRows(o) : r.id # row.id
         THEN Answer(w) /\ UNCHANGED resv
         ELSE /\ resv' = Saved(o, row)
              /\ taken' = [taken EXCEPT ![o] = @ - restored]
              /\ Refresh(w, "save_line")
              /\ UNCHANGED <<alone, requests, crashes>>
    /\ UNCHANGED <<order, line, events, ledger, rollup>>

-----------------------------------------------------------------------------
(* The sales order side of a posting or a reversal.                        *)

SaveLine(w) ==
    LET o == req[w].order
        l == seen[w].line
        q == IF req[w].op = "post" THEN req[w].qty ELSE -req[w].qty
    IN
    /\ At(w, "save_line")
    /\ line' = [line EXCEPT ![o] =
                  CASE req[w].kind = "ship" -> [@ EXCEPT !.fulfilled = l.fulfilled + q]
                    [] req[w].kind = "drop" -> [@ EXCEPT !.cancelled = l.cancelled + q]
                    [] req[w].kind = "backorder" ->
                         [@ EXCEPT !.backordered = l.backordered + q]]
    /\ Continue(w, "read_lines")
    /\ UNCHANGED <<order, events, ledger, rollup, resv, seen>>

\* deriveHeaderFulfillmentStatus, of the one line.
Header(o) ==
    CASE line[o].cancelled >= Quantity[o] -> "Cancelled"
      [] line[o].cancelled < Quantity[o]
           /\ line[o].fulfilled >= Quantity[o] - line[o].cancelled -> "Fulfilled"
      [] line[o].fulfilled > 0
           /\ line[o].fulfilled < Quantity[o] - line[o].cancelled -> "Partially Fulfilled"
      [] OTHER -> IF line[o].backordered > 0 THEN "In Progress" ELSE "Not Started"

Underway == {"Partially Fulfilled", "In Progress"}

AfterFulfillment(from, header) ==
    LET base == IF from = "Confirmed" THEN "In Fulfillment" ELSE from IN
    CASE header = "Fulfilled" /\ base \in {"In Fulfillment", "Partially Fulfilled"} -> "Fulfilled"
      [] header \in Underway /\ base = "In Fulfillment" -> "Partially Fulfilled"
      [] OTHER -> base

AfterReversalHeader(from, header) ==  \* mutant: the header's word becomes the status
    CASE header = "Fulfilled" /\ from \in {"In Fulfillment", "Partially Fulfilled"} -> "Fulfilled"
      [] header \in Underway /\ from = "In Fulfillment" -> "Partially Fulfilled"
      [] header = "In Progress" /\ from \in {"Confirmed", "Partially Fulfilled"} ->
           "In Fulfillment"
      [] header = "Not Started" -> header
      [] OTHER -> from

AfterReversal(from, header) ==
    CASE header = "Fulfilled" /\ from \in {"In Fulfillment", "Partially Fulfilled"} -> "Fulfilled"
      [] header \in Underway /\ from = "In Fulfillment" -> "Partially Fulfilled"
      [] header = "In Progress" /\ from \in {"Confirmed", "Partially Fulfilled"} ->
           "In Fulfillment"
      [] header = "Not Started" -> "Confirmed"
      [] OTHER -> from

ReadLines(w) ==
    LET header == Header(req[w].order) IN
    /\ At(w, "read_lines")
    /\ seen' = [seen EXCEPT ![w].next =
                  IF req[w].op = "post" THEN AfterFulfillment(seen[w].status, header)
                                        ELSE AfterReversal(seen[w].status, header)]
    /\ Continue(w, "save_order")
    /\ UNCHANGED docs

SaveOrder(w) ==
    /\ At(w, "save_order")
    /\ order' = IF seen[w].next = seen[w].status THEN order
                ELSE [order EXCEPT ![req[w].order] = seen[w].next]
    /\ Continue(w, "create_event")
    /\ UNCHANGED <<line, events, ledger, rollup, resv, seen>>

\* A reversal is an event of its own, and posted as well.
CreateEvent(w) ==
    LET next == CASE req[w].op = "reverse" -> "mark_event"
                  [] req[w].op # "reverse" /\ req[w].kind = "drop" -> "drop_find"
                  [] OTHER -> "idle"
    IN
    /\ At(w, "create_event")
    /\ events' = Append(events, [order |-> req[w].order, kind |-> req[w].kind,
                                 qty |-> req[w].qty, status |-> "posted"])
    /\ IF next = "idle" THEN Answer(w) ELSE UNCHANGED seen /\ Continue(w, next)
    /\ UNCHANGED <<order, line, ledger, rollup, resv>>

MarkEvent(w) ==
    /\ At(w, "mark_event")
    /\ events' = [events EXCEPT ![req[w].event].status = "reversed"]
    /\ Answer(w)
    /\ UNCHANGED <<order, line, ledger, rollup, resv>>

\* releaseReservationQty.
DropFind(w) ==
    LET rows == ActiveRows(req[w].order) IN
    /\ At(w, "drop_find")
    /\ IF rows = {}
         THEN Answer(w)
         ELSE /\ \E r \in rows : seen' = [seen EXCEPT ![w].row = r]
              /\ Continue(w, "drop_save")
    /\ UNCHANGED docs

DropSaveUnrefreshed(w) ==  \* mutant: the partial release leaves the balance alone
    LET o == req[w].order
        loaded == seen[w].row
        current == RowById(o, loaded.id)
    IN
    /\ At(w, "drop_save")
    /\ IF req[w].qty >= Remaining(loaded)
         THEN /\ resv' = Saved(o, [current EXCEPT !.status = "released"])
              /\ Refresh(w, "idle")
              /\ KeepHistory
         ELSE /\ resv' = Saved(o, [current EXCEPT !.quantity = loaded.quantity - req[w].qty])
              /\ Answer(w)
    /\ UNCHANGED <<order, line, events, ledger, rollup>>

\* All that remains: the row is released; less: its quantity shrinks.
DropSave(w) ==
    LET o == req[w].order
        loaded == seen[w].row
        current == RowById(o, loaded.id)
    IN
    /\ At(w, "drop_save")
    /\ resv' = Saved(o, IF req[w].qty >= Remaining(loaded)
                          THEN [current EXCEPT !.status = "released"]
                          ELSE [current EXCEPT !.quantity = loaded.quantity - req[w].qty])
    /\ Refresh(w, "idle")
    /\ KeepHistory
    /\ UNCHANGED <<order, line, events, ledger, rollup>>

-----------------------------------------------------------------------------
(* The server dies in a request; nothing resumes it.                       *)

Crash(w) ==
    /\ ~At(w, "idle")
    /\ crashes < MaxCrashes
    /\ crashes' = crashes + 1
    /\ Goto(w, "idle")
    /\ req' = [req EXCEPT ![w] = NoRequest]
    /\ seen' = [seen EXCEPT ![w] = Nothing]
    /\ UNCHANGED <<docs, taken, alone, requests>>

Arrival(w) ==
    \/ Rebuild(w)
    \/ \E o \in Orders :
         \/ ReceiveConfirm(w, o)
         \/ ReceiveCancel(w, o)
         \/ \E kind \in PostingKinds, q \in 1 .. Quantity[o] : ReceivePosting(w, o, kind, q)
    \/ \E e \in DOMAIN events : ReceiveReversal(w, e)

Serve(w) ==
    \/ SaveConfirmed(w) \/ ReserveOpen(w) \/ ReserveFind(w) \/ ReserveBalance(w)
    \/ ReserveSum(w) \/ ReserveCreate(w) \/ BackorderLine(w) \/ UndoConfirm(w)
    \/ SaveCancelled(w) \/ ReleaseFind(w) \/ ReleaseSave(w)
    \/ ReadEvent(w) \/ ReadLine(w) \/ StockCheck(w) \/ Post(w)
    \/ ConsumeFind(w) \/ ConsumeSave(w) \/ RestoreFind(w) \/ RestoreSave(w)
    \/ SaveLine(w) \/ ReadLines(w) \/ SaveOrder(w) \/ CreateEvent(w) \/ MarkEvent(w)
    \/ DropFind(w) \/ DropSave(w)
    \/ SumReserved(w) \/ SumLedger(w) \/ ReadRollup(w) \/ SaveRollup(w)

Next == \E w \in Workers : Arrival(w) \/ Serve(w) \/ Crash(w)

Spec == Init /\ [][Next]_vars

-----------------------------------------------------------------------------
(* Properties.                                                             *)

AtRest == \A w \in Workers : At(w, "idle")
Accurate == rollup = [onHand |-> OnHand, reserved |-> Reserved]

\* As long as nothing is reversed, a line never claims to have shipped more than the
\* ledger issued for it, whatever is interleaved or lost in between: the code issues
\* first and saves the line afterwards, and a refused issue ends the request
\* (postSalesOrderFulfillment, lines 252-275; reversals go the other way round).
\* docs/INVENTORY_ARCHITECTURE.md says otherwise: lines 534-548 and 603-616 save the
\* line first, and lines 338 and 548 (Policy B) let a fulfilment post though stock
\* refuses; the code has no such policy.  This is the promise of the code's order,
\* not of the one in the document.
FulfilledIsIssued == \A o \in Orders : line[o].fulfilled <= -ledger[o]

\* No consumption a request was told of is overwritten by another one that had
\* loaded the same reservation (consumeReservation and its version check).
NoConsumptionLost ==
    \A o \in Orders :
        FoldFunction(+, 0, [i \in DOMAIN resv[o] |-> resv[o][i].consumed]) = taken[o]

\* Whatever crashes and races left behind, a rebuild that nothing overlapped
\* leaves a balance that equals ledger and reservations (rebuildAllBalances).
RebuildRepairs ==
    [][\A w \in Workers :
         (At(w, "save_rollup") /\ req[w].op = "rebuild" /\ w \in alone /\ ~Crash(w)
            /\ pc'[w] = "idle") => Accurate']_vars

\* Requests served one at a time leave lines, ledger and balance in agreement:
\* every path that moves stock or touches a reservation refreshes the balance.
RestIsConsistent ==
    AtRest => /\ Accurate
              /\ \A o \in Orders : line[o].fulfilled = -ledger[o]

\* A reservation is only made of stock that is there and not reserved: what is
\* reserved never exceeds the stock by the making of a reservation (reserveLine).
ReservedFromStock ==
    [][\A o \in Orders : Len(resv'[o]) > Len(resv[o]) => Reserved' <= OnHand]_vars

\* An order that is not in execution reserves nothing, once no request is
\* being served (confirm's catch, cancelSalesOrder).
ClosedReservesNothing ==
    AtRest => \A o \in Orders : order[o] \in {"Draft", "Cancelled"} => ActiveRows(o) = {}

\* Requests served one at a time issue and take back goods as StockLevel does:
\* never more than there is, than was ordered, or than had left.
Stock == INSTANCE StockLevel WITH issued <- [o \in Orders |-> -ledger[o]]
ImplementsStockLevel == Stock!Spec

\* A line reserves no more than is still open on it: units of a line that were
\* cancelled are released (INVENTORY_ARCHITECTURE.md, section 5.5, rule 2).
ReservedIsOpen ==
    AtRest => \A o \in Orders : Held(o) <= Open(o, line[o])
=============================================================================
