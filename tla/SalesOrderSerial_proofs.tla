----------------------- MODULE SalesOrderSerial_proofs -----------------------
(***************************************************************************)
(* Proofs about SalesOrderStock when requests are served one at a time and    *)
(* none of them dies: one worker, no crash.                                 *)
(*                                                                          *)
(* SInv is inductive together with TInv of SalesOrderStock_proofs.  It says,   *)
(* of the one request there can be,                                         *)
(*   Route      which steps its kind takes, and where a refresh returns to;   *)
(*   Ordered    the status of its order: a posting is for one in execution;   *)
(*   Rows       an order has one reservation at most, a draft has none, and a *)
(*              confirmation that reserves finds none;                       *)
(*   Balanced   outside a refresh the balance is that of ledger and           *)
(*              reservations, in it what was read is still so;               *)
(*   LinesAgree, Booking, Quantities   lines say what the ledger says but for  *)
(*              the posting between the two, and that one is covered by stock *)
(*              and by what is open, or was booked;                          *)
(*   Closing    what is still to release is on the list of the request;       *)
(*   Reserving  what is about to be reserved is there.                        *)
(* From it follow the agreement at rest, that a closed order reserves nothing, *)
(* that reservations are made from stock, and the refinement of StockLevel.    *)
(*                                                                          *)
(* Neither assumption can go: with two workers a posting and a confirmation    *)
(* interleave their reads and writes, and a crash between the ledger entry    *)
(* and the line leaves the two apart.                                        *)
(***************************************************************************)
EXTENDS SalesOrderStock_proofs

\* Where a request is, or goes on after the refresh it is in.
Stage(w) == IF pc[w] \in Refreshing THEN seen[w].then ELSE pc[w]

\* Where a confirmation reserves, where rows are released, where quantities are booked.
Reserves == {"reserve_open", "reserve_find", "reserve_balance", "reserve_sum", "reserve_create"}
Releases == {"release_find", "release_save"}
Books == {"read_line", "post", "save_line", "read_lines", "save_order", "create_event"}

\* The stages of a request of each kind.
StepsOf(op) ==
    CASE op = "rebuild" -> {"idle"}
      [] op = "confirm" -> Reserves \cup Releases
                           \cup {"confirm_save", "backorder_line", "undo_save", "idle"}
      [] op = "cancel" -> Releases \cup {"cancel_save", "idle"}
      [] op = "post" -> Books \cup {"stock_check", "consume_find", "consume_save",
                                    "drop_find", "drop_save", "idle"}
      [] op = "reverse" -> Books \cup {"read_event", "restore_find", "restore_save", "mark_event"}

\* The steps a refresh returns to.
Returns == {"idle", "backorder_line", "release_save", "undo_save",
            "consume_find", "restore_find", "save_line"}
\* The steps between the ledger entry of a posting and its line.
Issuing == {"consume_find", "consume_save", "restore_find", "restore_save", "save_line"}
\* The stages only a posting that moves stock, or its reversal, comes to.
Shipping == (Issuing \ {"save_line"}) \cup {"stock_check", "post"}

\* A request is on the route of its kind, and a refresh returns to a step of it.
Route(w) ==
    /\ Stage(w) \in StepsOf(req[w].op)
    /\ IF pc[w] \in Refreshing THEN seen[w].then \in Returns ELSE seen[w].then = "idle"
    /\ Stage(w) \in Shipping => req[w].kind = "ship"

\* At first nothing is under way.
LEMMA RouteInit == Init => \A w \in Workers : Route(w)
  BY Blank DEF Init, Route, Stage, StepsOf, Refreshing, Shipping, Issuing

\* An answered request is over.
LEMMA RouteAnswer ==
  ASSUME TInv, NEW w \in Workers, Answer(w)
  PROVE  /\ pc'[w] = "idle" /\ req'[w] = NoRequest /\ seen'[w] = Nothing
         /\ Route(w)'
<1>1. pc'[w] = "idle" /\ req'[w] = NoRequest /\ seen'[w] = Nothing
  BY DEF TInv, TypeOK, Answer, Goto
<1>2. QED
  BY <1>1, Blank DEF Route, Stage, StepsOf, Refreshing, Shipping, Issuing

\* A request that goes on, at a step of its own or with a refresh.
LEMMA RouteGo ==
  ASSUME TInv, NEW w \in Workers, NEW step \in Step, Goto(w, step), UNCHANGED req,
         seen'[w].then \in Step,
         LET stage == IF step \in Refreshing THEN seen'[w].then ELSE step IN
           /\ stage \in StepsOf(req[w].op)
           /\ stage \in Shipping => req[w].kind = "ship",
         IF step \in Refreshing THEN seen'[w].then \in Returns ELSE seen'[w].then = "idle"
  PROVE  Route(w)'
<1>1. pc'[w] = step /\ req'[w] = req[w]
  BY DEF TInv, TypeOK, Goto
<1>2. StepsOf(req'[w].op) = StepsOf(req[w].op)
  BY <1>1
<1>3. QED
  BY <1>1 DEF Route, Stage

\* What the step says about the request.
LEMMA Here ==
  ASSUME TInv, NEW w \in Workers, Route(w)
  PROVE  /\ pc[w] \notin Refreshing => seen[w].then = "idle"
         /\ pc[w] \in Reserves \cup {"confirm_save", "backorder_line", "undo_save"}
              => req[w].op = "confirm"
         /\ pc[w] = "cancel_save" => req[w].op = "cancel"
         /\ pc[w] \in Releases => req[w].op \in {"confirm", "cancel"}
         /\ pc[w] \in Books => req[w].op \in {"post", "reverse"}
         /\ pc[w] \in {"stock_check", "consume_find", "consume_save", "drop_find", "drop_save"}
              => req[w].op = "post"
         /\ pc[w] \in {"read_event", "restore_find", "restore_save", "mark_event"}
              => req[w].op = "reverse"
         /\ pc[w] \in Shipping => req[w].kind = "ship"
<1>1. req[w].op \in {"confirm", "cancel", "post", "reverse", "rebuild"}
  BY DEF TInv, TypeOK, Request
<1>2. pc[w] \notin Refreshing => Stage(w) = pc[w]
  BY DEF Stage
<1>3. QED
  BY <1>1, <1>2 DEF Route, StepsOf, Refreshing, Reserves, Releases, Books, Shipping, Issuing

\* The steps of a request: each is the answer, or goes on along a route.
LEMMA RouteServe ==
  ASSUME TInv, NEW w \in Workers, Route(w), Serve(w) PROVE Route(w)'
<1>0. pc \in [Workers -> Step] /\ seen \in [Workers -> Snapshot] /\ req \in [Workers -> Request]
  BY DEF TInv, TypeOK
<1>1. ASSUME SaveConfirmed(w) PROVE Route(w)'
  <2>1. /\ pc[w] = "confirm_save"
        /\ \/ req' = req /\ Goto(w, "reserve_open") /\ seen'[w].then = "idle"
    BY <1>0, <1>1, Here DEF SaveConfirmed, At, Continue, Refresh, Snapshot, Refreshing,
       Reserves, Releases, Books
  <2>2. QED
    BY <1>0, <2>1, Here, RouteAnswer, RouteGo DEF AfterRelease, Step, StepsOf, Refreshing,
       Shipping, Issuing, Reserves, Releases, Books, Returns
<1>2. ASSUME ReserveOpen(w) PROVE Route(w)'
  <2>1. /\ pc[w] = "reserve_open"
        /\ \/ Answer(w)
           \/ req' = req /\ Goto(w, "reserve_find") /\ seen'[w].then = "idle"
    BY <1>0, <1>2, Here DEF ReserveOpen, At, Continue, Refresh, Snapshot, Refreshing, Reserves,
       Releases, Books
  <2>2. QED
    BY <1>0, <2>1, Here, RouteAnswer, RouteGo DEF AfterRelease, Step, StepsOf, Refreshing,
       Shipping, Issuing, Reserves, Releases, Books, Returns
<1>3. ASSUME ReserveFind(w) PROVE Route(w)'
  <2>1. /\ pc[w] = "reserve_find"
        /\ \/ Answer(w)
           \/ req' = req /\ Goto(w, "reserve_balance") /\ seen'[w].then = "idle"
    BY <1>0, <1>3, Here DEF ReserveFind, At, Continue, Refresh, Snapshot, Refreshing, Reserves,
       Releases, Books
  <2>2. QED
    BY <1>0, <2>1, Here, RouteAnswer, RouteGo DEF AfterRelease, Step, StepsOf, Refreshing,
       Shipping, Issuing, Reserves, Releases, Books, Returns
<1>4. ASSUME ReserveBalance(w) PROVE Route(w)'
  <2>1. /\ pc[w] = "reserve_balance"
        /\ \/ req' = req /\ Goto(w, "reserve_sum") /\ seen'[w].then = "idle"
    BY <1>0, <1>4, Here DEF ReserveBalance, At, Continue, Refresh, Snapshot, Refreshing,
       Reserves, Releases, Books
  <2>2. QED
    BY <1>0, <2>1, Here, RouteAnswer, RouteGo DEF AfterRelease, Step, StepsOf, Refreshing,
       Shipping, Issuing, Reserves, Releases, Books, Returns
<1>5. ASSUME ReserveSum(w) PROVE Route(w)'
  <2>1. /\ pc[w] = "reserve_sum"
        /\ \/ req' = req /\ Goto(w, "release_find") /\ seen'[w].then = "idle"
           \/ req' = req /\ Goto(w, "backorder_line") /\ seen'[w].then = "idle"
           \/ req' = req /\ Goto(w, "reserve_create") /\ seen'[w].then = "idle"
    BY <1>0, <1>5, Here DEF ReserveSum, At, Continue, Refresh, Snapshot, Refreshing, Reserves,
       Releases, Books
  <2>2. QED
    BY <1>0, <2>1, Here, RouteAnswer, RouteGo DEF AfterRelease, Step, StepsOf, Refreshing,
       Shipping, Issuing, Reserves, Releases, Books, Returns
<1>6. ASSUME ReserveCreate(w) PROVE Route(w)'
  <2>1. /\ pc[w] = "reserve_create"
        /\ \/ req' = req /\ Goto(w, "release_find") /\ seen'[w].then = "idle"
           \/ req' = req /\ Goto(w, "sum_reserved") /\ seen'[w].then = "backorder_line"
           \/ req' = req /\ Goto(w, "sum_reserved") /\ seen'[w].then = "idle"
    BY <1>0, <1>6, Here DEF ReserveCreate, At, Continue, Refresh, Snapshot, Refreshing,
       Reserves, Releases, Books
  <2>2. QED
    BY <1>0, <2>1, Here, RouteAnswer, RouteGo DEF AfterRelease, Step, StepsOf, Refreshing,
       Shipping, Issuing, Reserves, Releases, Books, Returns
<1>7. ASSUME BackorderLine(w) PROVE Route(w)'
  <2>1. /\ pc[w] = "backorder_line"
        /\ \/ Answer(w)
    BY <1>0, <1>7, Here DEF BackorderLine, At, Continue, Refresh, Snapshot, Refreshing,
       Reserves, Releases, Books
  <2>2. QED
    BY <1>0, <2>1, Here, RouteAnswer, RouteGo DEF AfterRelease, Step, StepsOf, Refreshing,
       Shipping, Issuing, Reserves, Releases, Books, Returns
<1>8. ASSUME UndoConfirm(w) PROVE Route(w)'
  <2>1. /\ pc[w] = "undo_save"
        /\ \/ Answer(w)
    BY <1>0, <1>8, Here DEF UndoConfirm, At, Continue, Refresh, Snapshot, Refreshing, Reserves,
       Releases, Books
  <2>2. QED
    BY <1>0, <2>1, Here, RouteAnswer, RouteGo DEF AfterRelease, Step, StepsOf, Refreshing,
       Shipping, Issuing, Reserves, Releases, Books, Returns
<1>9. ASSUME SaveCancelled(w) PROVE Route(w)'
  <2>1. /\ pc[w] = "cancel_save"
        /\ \/ req' = req /\ Goto(w, "release_find") /\ seen'[w].then = "idle"
    BY <1>0, <1>9, Here DEF SaveCancelled, At, Continue, Refresh, Snapshot, Refreshing,
       Reserves, Releases, Books
  <2>2. QED
    BY <1>0, <2>1, Here, RouteAnswer, RouteGo DEF AfterRelease, Step, StepsOf, Refreshing,
       Shipping, Issuing, Reserves, Releases, Books, Returns
<1>10. ASSUME ReleaseFind(w) PROVE Route(w)'
  <2>1. pc[w] = "release_find" /\ seen[w].then = "idle" /\ req[w].op \in {"confirm", "cancel"}
    BY <1>10, Here DEF ReleaseFind, At, Refreshing, Releases
  <2>2. PICK rows : rows = {r.id : r \in ActiveRows(req[w].order)}
    OBVIOUS
  <2>3. CASE rows # {}
    <3>1. Goto(w, "release_save") /\ req' = req /\ seen'[w].then = "idle"
      BY <1>0, <1>10, <2>1, <2>2, <2>3 DEF ReleaseFind, Continue, Snapshot
    <3>2. QED
      BY <2>1, <3>1, RouteGo DEF Step, StepsOf, Refreshing, Shipping, Issuing, Releases
  <2>4. CASE rows = {} /\ req[w].op = "confirm"
    <3>1. AfterRelease(w) = "undo_save"
      BY <2>4 DEF AfterRelease
    <3>2. Goto(w, "undo_save") /\ req' = req /\ seen'[w].then = "idle"
      BY <1>10, <2>1, <2>2, <2>4, <3>1 DEF ReleaseFind, Continue
    <3>3. QED
      BY <2>1, <2>4, <3>2, RouteGo DEF Step, StepsOf, Refreshing, Shipping, Issuing
  <2>5. CASE rows = {} /\ req[w].op = "cancel"
    <3>1. AfterRelease(w) = "idle"
      BY <2>5 DEF AfterRelease
    <3>2. Answer(w)
      BY <1>10, <2>2, <2>5, <3>1 DEF ReleaseFind
    <3>3. QED
      BY <3>2, RouteAnswer
  <2>6. QED
    BY <2>1, <2>3, <2>4, <2>5
<1>11. ASSUME ReleaseSave(w) PROVE Route(w)'
  <2>1. /\ pc[w] = "release_save"
        /\ \/ req' = req /\ Goto(w, "sum_reserved") /\ seen'[w].then = "release_save"
           \/ req' = req /\ Goto(w, "sum_reserved") /\ seen'[w].then = AfterRelease(w)
    BY <1>0, <1>11, Here DEF ReleaseSave, At, Continue, Refresh, Snapshot, Refreshing,
       Reserves, Releases, Books
  <2>2. QED
    BY <1>0, <2>1, Here, RouteAnswer, RouteGo DEF AfterRelease, Step, StepsOf, Refreshing,
       Shipping, Issuing, Reserves, Releases, Books, Returns
<1>12. ASSUME ReadEvent(w) PROVE Route(w)'
  <2>1. /\ pc[w] = "read_event"
        /\ \/ Answer(w)
           \/ req' = req /\ Goto(w, "read_line") /\ seen'[w].then = "idle"
    BY <1>0, <1>12, Here DEF ReadEvent, At, Continue, Refresh, Snapshot, Refreshing, Reserves,
       Releases, Books
  <2>2. QED
    BY <1>0, <2>1, Here, RouteAnswer, RouteGo DEF AfterRelease, Step, StepsOf, Refreshing,
       Shipping, Issuing, Reserves, Releases, Books, Returns
<1>13. ASSUME ReadLine(w) PROVE Route(w)'
  <2>1. /\ pc[w] = "read_line"
        /\ \/ Answer(w)
           \/ req' = req /\ Goto(w, "save_line") /\ seen'[w].then = "idle"
           \/ /\ req' = req /\ Goto(w, "stock_check") /\ seen'[w].then = "idle"
              /\ req[w].kind = "ship" /\ req[w].op = "post"
           \/ req' = req /\ Goto(w, "post") /\ seen'[w].then = "idle" /\ req[w].kind = "ship"
    BY <1>0, <1>13, Here DEF ReadLine, At, Continue, Refresh, Snapshot, Refreshing, Reserves,
       Releases, Books
  <2>2. QED
    BY <1>0, <2>1, Here, RouteAnswer, RouteGo DEF AfterRelease, Step, StepsOf, Refreshing,
       Shipping, Issuing, Reserves, Releases, Books, Returns
<1>14. ASSUME StockCheck(w) PROVE Route(w)'
  <2>1. /\ pc[w] = "stock_check"
        /\ \/ Answer(w)
           \/ req' = req /\ Goto(w, "post") /\ seen'[w].then = "idle"
    BY <1>0, <1>14, Here DEF StockCheck, At, Continue, Refresh, Snapshot, Refreshing, Reserves,
       Releases, Books
  <2>2. QED
    BY <1>0, <2>1, Here, RouteAnswer, RouteGo DEF AfterRelease, Step, StepsOf, Refreshing,
       Shipping, Issuing, Reserves, Releases, Books, Returns
<1>15. ASSUME Post(w) PROVE Route(w)'
  <2>1. /\ pc[w] = "post"
        /\ /\ req' = req /\ Goto(w, "sum_ledger")
        /\ seen'[w].then = IF req[w].op = "post" THEN "consume_find" ELSE "restore_find"
    BY <1>0, <1>15, Here DEF Post, At, Continue, Refresh, Snapshot, Refreshing, Reserves,
       Releases, Books
  <2>2. QED
    BY <1>0, <2>1, Here, RouteAnswer, RouteGo DEF AfterRelease, Step, StepsOf, Refreshing,
       Shipping, Issuing, Reserves, Releases, Books, Returns
<1>16. ASSUME ConsumeFind(w) PROVE Route(w)'
  <2>1. /\ pc[w] = "consume_find"
        /\ \/ Answer(w)
           \/ req' = req /\ Goto(w, "save_line") /\ seen'[w].then = "idle"
           \/ req' = req /\ Goto(w, "consume_save") /\ seen'[w].then = "idle"
    BY <1>0, <1>16, Here DEF ConsumeFind, At, Continue, Refresh, Snapshot, Refreshing,
       Reserves, Releases, Books
  <2>2. QED
    BY <1>0, <2>1, Here, RouteAnswer, RouteGo DEF AfterRelease, Step, StepsOf, Refreshing,
       Shipping, Issuing, Reserves, Releases, Books, Returns
<1>17. ASSUME ConsumeSave(w) PROVE Route(w)'
  <2>1. /\ pc[w] = "consume_save"
        /\ \/ Answer(w)
           \/ req' = req /\ Goto(w, "sum_reserved") /\ seen'[w].then = "save_line"
    BY <1>0, <1>17, Here DEF ConsumeSave, At, Continue, Refresh, Snapshot, Refreshing,
       Reserves, Releases, Books
  <2>2. QED
    BY <1>0, <2>1, Here, RouteAnswer, RouteGo DEF AfterRelease, Step, StepsOf, Refreshing,
       Shipping, Issuing, Reserves, Releases, Books, Returns
<1>18. ASSUME RestoreFind(w) PROVE Route(w)'
  <2>1. /\ pc[w] = "restore_find"
        /\ \/ req' = req /\ Goto(w, "save_line") /\ seen'[w].then = "idle"
           \/ req' = req /\ Goto(w, "restore_save") /\ seen'[w].then = "idle"
    BY <1>0, <1>18, Here DEF RestoreFind, At, Continue, Refresh, Snapshot, Refreshing,
       Reserves, Releases, Books
  <2>2. QED
    BY <1>0, <2>1, Here, RouteAnswer, RouteGo DEF AfterRelease, Step, StepsOf, Refreshing,
       Shipping, Issuing, Reserves, Releases, Books, Returns
<1>19. ASSUME RestoreSave(w) PROVE Route(w)'
  <2>1. /\ pc[w] = "restore_save"
        /\ \/ Answer(w)
           \/ req' = req /\ Goto(w, "sum_reserved") /\ seen'[w].then = "save_line"
    BY <1>0, <1>19, Here DEF RestoreSave, At, Continue, Refresh, Snapshot, Refreshing,
       Reserves, Releases, Books
  <2>2. QED
    BY <1>0, <2>1, Here, RouteAnswer, RouteGo DEF AfterRelease, Step, StepsOf, Refreshing,
       Shipping, Issuing, Reserves, Releases, Books, Returns
<1>20. ASSUME SaveLine(w) PROVE Route(w)'
  <2>1. /\ pc[w] = "save_line"
        /\ \/ req' = req /\ Goto(w, "read_lines") /\ seen'[w].then = "idle"
    BY <1>0, <1>20, Here DEF SaveLine, At, Continue, Refresh, Snapshot, Refreshing, Reserves,
       Releases, Books
  <2>2. QED
    BY <1>0, <2>1, Here, RouteAnswer, RouteGo DEF AfterRelease, Step, StepsOf, Refreshing,
       Shipping, Issuing, Reserves, Releases, Books, Returns
<1>21. ASSUME ReadLines(w) PROVE Route(w)'
  <2>1. /\ pc[w] = "read_lines"
        /\ \/ req' = req /\ Goto(w, "save_order") /\ seen'[w].then = "idle"
    BY <1>0, <1>21, Here DEF ReadLines, At, Continue, Refresh, Snapshot, Refreshing, Reserves,
       Releases, Books
  <2>2. QED
    BY <1>0, <2>1, Here, RouteAnswer, RouteGo DEF AfterRelease, Step, StepsOf, Refreshing,
       Shipping, Issuing, Reserves, Releases, Books, Returns
<1>22. ASSUME SaveOrder(w) PROVE Route(w)'
  <2>1. /\ pc[w] = "save_order"
        /\ \/ req' = req /\ Goto(w, "create_event") /\ seen'[w].then = "idle"
    BY <1>0, <1>22, Here DEF SaveOrder, At, Continue, Refresh, Snapshot, Refreshing, Reserves,
       Releases, Books
  <2>2. QED
    BY <1>0, <2>1, Here, RouteAnswer, RouteGo DEF AfterRelease, Step, StepsOf, Refreshing,
       Shipping, Issuing, Reserves, Releases, Books, Returns
<1>23. ASSUME CreateEvent(w) PROVE Route(w)'
  <2>1. /\ pc[w] = "create_event"
        /\ \/ Answer(w)
           \/ req' = req /\ Goto(w, "mark_event") /\ seen'[w].then = "idle" /\ req[w].op = "reverse"
           \/ /\ req' = req /\ Goto(w, "drop_find") /\ seen'[w].then = "idle"
              /\ req[w].kind = "drop" /\ req[w].op = "post"
    BY <1>0, <1>23, Here DEF CreateEvent, At, Continue, Refresh, Snapshot, Refreshing,
       Reserves, Releases, Books
  <2>2. QED
    BY <1>0, <2>1, Here, RouteAnswer, RouteGo DEF AfterRelease, Step, StepsOf, Refreshing,
       Shipping, Issuing, Reserves, Releases, Books, Returns
<1>24. ASSUME MarkEvent(w) PROVE Route(w)'
  <2>1. /\ pc[w] = "mark_event"
        /\ \/ Answer(w)
    BY <1>0, <1>24, Here DEF MarkEvent, At, Continue, Refresh, Snapshot, Refreshing, Reserves,
       Releases, Books
  <2>2. QED
    BY <1>0, <2>1, Here, RouteAnswer, RouteGo DEF AfterRelease, Step, StepsOf, Refreshing,
       Shipping, Issuing, Reserves, Releases, Books, Returns
<1>25. ASSUME DropFind(w) PROVE Route(w)'
  <2>1. /\ pc[w] = "drop_find"
        /\ \/ Answer(w)
           \/ req' = req /\ Goto(w, "drop_save") /\ seen'[w].then = "idle"
    BY <1>0, <1>25, Here DEF DropFind, At, Continue, Refresh, Snapshot, Refreshing, Reserves,
       Releases, Books
  <2>2. QED
    BY <1>0, <2>1, Here, RouteAnswer, RouteGo DEF AfterRelease, Step, StepsOf, Refreshing,
       Shipping, Issuing, Reserves, Releases, Books, Returns
<1>26. ASSUME DropSave(w) PROVE Route(w)'
  <2>1. /\ pc[w] = "drop_save"
        /\ \/ req' = req /\ Goto(w, "sum_reserved") /\ seen'[w].then = "idle"
    BY <1>0, <1>26, Here DEF DropSave, At, Continue, Refresh, Snapshot, Refreshing, Reserves,
       Releases, Books
  <2>2. QED
    BY <1>0, <2>1, Here, RouteAnswer, RouteGo DEF AfterRelease, Step, StepsOf, Refreshing,
       Shipping, Issuing, Reserves, Releases, Books, Returns
<1>27. ASSUME SumReserved(w) \/ SumLedger(w) \/ ReadRollup(w) PROVE Route(w)'
  <2>1. /\ pc[w] \in Refreshing /\ pc'[w] \in Refreshing /\ req' = req
        /\ seen'[w].then = seen[w].then
    BY <1>0, <1>27 DEF SumReserved, SumLedger, ReadRollup, At, Continue, Goto, Refreshing,
       Snapshot
  <2>2. QED
    BY <2>1 DEF Route, Stage
<1>28. ASSUME SaveRollup(w) PROVE Route(w)'
  <2>1. CASE seen[w].then = "idle"
    BY <1>28, <2>1, RouteAnswer DEF SaveRollup
  <2>2. CASE seen[w].then # "idle"
    <3>1. /\ pc[w] \in Refreshing /\ req' = req /\ seen'[w].then = "idle"
          /\ Goto(w, seen[w].then)
      BY <1>0, <1>28, <2>2 DEF SaveRollup, At, Continue, Refreshing, Snapshot
    <3>2. seen[w].then \in Returns /\ seen[w].then \in Step /\ seen[w].then \notin Refreshing
      BY <3>1 DEF Route, Returns, Step, Refreshing
    <3>3. QED
      BY <3>1, <3>2, RouteGo DEF Route, Stage, Step
  <2>3. QED
    BY <2>1, <2>2
<1>29. QED
  BY <1>1, <1>2, <1>3, <1>4, <1>5, <1>6, <1>7, <1>8, <1>9, <1>10, <1>11, <1>12, <1>13, <1>14,
     <1>15, <1>16, <1>17, <1>18, <1>19, <1>20, <1>21, <1>22, <1>23, <1>24, <1>25, <1>26, <1>27,
     <1>28, <1>0 DEF Serve

\* A request that arrives begins at the first step of its kind.
LEMMA RouteArrival ==
  ASSUME TInv, NEW w \in Workers, Route(w), Arrival(w)
  PROVE  Route(w)'
<1>0. pc \in [Workers -> Step] /\ seen \in [Workers -> Snapshot] /\ req \in [Workers -> Request]
  BY DEF TInv, TypeOK
<1>1. seen[w].then = "idle" /\ pc[w] = "idle"
  BY Blank DEF TInv, Loaded, Arrival, Rebuild, ReceiveConfirm, ReceiveCancel, ReceivePosting,
     ReceiveReversal, Receive, At
<1>2. seen'[w].then = "idle"
  BY <1>0, <1>1 DEF Snapshot, Arrival, Rebuild, ReceiveConfirm, ReceiveCancel, ReceivePosting,
     ReceiveReversal
<1>3. \/ pc'[w] = "sum_reserved" /\ req'[w].op = "rebuild"
      \/ pc'[w] = "confirm_save" /\ req'[w].op = "confirm"
      \/ pc'[w] = "cancel_save" /\ req'[w].op = "cancel"
      \/ pc'[w] = "read_line" /\ req'[w].op = "post"
      \/ pc'[w] = "read_event" /\ req'[w].op = "reverse"
  BY <1>0, Blank DEF Ask, Arrival, Rebuild, ReceiveConfirm, ReceiveCancel, ReceivePosting,
     ReceiveReversal, Receive, Goto
<1>4. QED
  BY <1>2, <1>3 DEF Route, Stage, StepsOf, Refreshing, Shipping, Issuing, Releases, Books, Returns

\* What a step leaves alone.
LEMMA ServeFrame ==
  ASSUME TInv, NEW w \in Workers, Serve(w)
  PROVE  /\ order' = order \/ SaveConfirmed(w) \/ UndoConfirm(w) \/ SaveCancelled(w) \/ SaveOrder(w)
         /\ line' = line \/ SaveLine(w) \/ BackorderLine(w)
         /\ ledger' = ledger \/ Post(w)
         /\ events' = events \/ CreateEvent(w) \/ MarkEvent(w)
         /\ rollup' = rollup \/ SaveRollup(w)
         /\ \/ resv' = resv
            \/ ReserveCreate(w) \/ ReleaseSave(w) \/ ConsumeSave(w) \/ RestoreSave(w) \/ DropSave(w)
<1> USE DEF docs, RefreshSteps
<1>1. CASE \/ SaveConfirmed(w) \/ ReserveOpen(w) \/ ReserveFind(w) \/ ReserveBalance(w)
           \/ ReserveSum(w) \/ ReserveCreate(w) \/ BackorderLine(w) \/ UndoConfirm(w)
  BY <1>1 DEF SaveConfirmed, ReserveOpen, ReserveFind, ReserveBalance, ReserveSum, ReserveCreate,
     BackorderLine, UndoConfirm
<1>2. CASE \/ SaveCancelled(w) \/ ReleaseFind(w) \/ ReleaseSave(w)
           \/ ReadEvent(w) \/ ReadLine(w) \/ StockCheck(w) \/ Post(w)
  BY <1>2 DEF SaveCancelled, ReleaseFind, ReleaseSave, ReadEvent, ReadLine, StockCheck, Post
<1>3. CASE \/ ConsumeFind(w) \/ ConsumeSave(w) \/ RestoreFind(w) \/ RestoreSave(w)
           \/ SaveLine(w) \/ ReadLines(w) \/ SaveOrder(w) \/ CreateEvent(w) \/ MarkEvent(w)
  BY <1>3 DEF ConsumeFind, ConsumeSave, RestoreFind, RestoreSave, SaveLine, ReadLines, SaveOrder,
     CreateEvent, MarkEvent
<1>4. CASE DropFind(w) \/ DropSave(w) \/ RefreshSteps(w)
  BY <1>4 DEF DropFind, DropSave, SumReserved, SumLedger, ReadRollup, SaveRollup
<1>5. QED
  BY <1>1, <1>2, <1>3, <1>4 DEF Serve

\* What a request keeps of what it has read, until it is answered.
Kept(w) ==
    /\ req' = req
    /\ seen'[w].status = seen[w].status
    /\ seen'[w].line = seen[w].line \/ ReadLine(w) \/ ReserveOpen(w)
    /\ seen'[w].next = seen[w].next \/ ReadLines(w)
    /\ seen'[w].row = seen[w].row
         \/ ReserveSum(w) \/ ConsumeFind(w) \/ RestoreFind(w) \/ DropFind(w)
    /\ seen'[w].rows = seen[w].rows \/ ReleaseFind(w) \/ ReleaseSave(w)
    /\ seen'[w].onHand = seen[w].onHand
         \/ ReserveBalance(w) \/ ReserveSum(w) \/ SumLedger(w) \/ SaveRollup(w)
    /\ seen'[w].reserved = seen[w].reserved \/ SumReserved(w) \/ SaveRollup(w)

\* A step is the answer, or keeps what the request has read but for what it reads.
LEMMA ServeKeeps ==
  ASSUME TInv, NEW w \in Workers, Serve(w)
  PROVE  Answer(w) \/ Kept(w)
<1>0. seen \in [Workers -> Snapshot]
  BY DEF TInv, TypeOK
<1> USE DEF Continue, Refresh, RefreshSteps, Kept, Snapshot
<1>1. CASE \/ SaveConfirmed(w) \/ ReserveOpen(w) \/ ReserveFind(w) \/ ReserveBalance(w)
           \/ ReserveCreate(w) \/ BackorderLine(w) \/ UndoConfirm(w)
  BY <1>0, <1>1 DEF SaveConfirmed, ReserveOpen, ReserveFind, ReserveBalance, ReserveCreate,
     BackorderLine, UndoConfirm
<1>2. CASE ReserveSum(w) \/ SaveCancelled(w) \/ ReleaseFind(w) \/ ReleaseSave(w)
           \/ ReadEvent(w) \/ ReadLine(w) \/ StockCheck(w) \/ Post(w)
  BY <1>0, <1>2 DEF ReserveSum, SaveCancelled, ReleaseFind, ReleaseSave, ReadEvent, ReadLine,
     StockCheck, Post
<1>3. CASE \/ ConsumeFind(w) \/ ConsumeSave(w) \/ RestoreFind(w) \/ RestoreSave(w)
           \/ SaveLine(w) \/ ReadLines(w) \/ SaveOrder(w) \/ CreateEvent(w) \/ MarkEvent(w)
  BY <1>0, <1>3 DEF ConsumeFind, ConsumeSave, RestoreFind, RestoreSave, SaveLine, ReadLines,
     SaveOrder,
     CreateEvent, MarkEvent
<1>4. CASE DropFind(w) \/ DropSave(w) \/ RefreshSteps(w)
  BY <1>0, <1>4 DEF DropFind, DropSave, SumReserved, SumLedger, ReadRollup, SaveRollup
<1>5. QED
  BY <1>1, <1>2, <1>3, <1>4 DEF Serve

\* The step that leads to a step.
LEMMA Entered ==
  ASSUME TInv, NEW w \in Workers, Route(w), Serve(w)
  PROVE  /\ pc[w] # "idle" /\ pc'[w] # "confirm_save"
         /\ pc'[w] = "save_order" => ReadLines(w)
         /\ pc'[w] = "consume_save" => ConsumeFind(w)
         /\ pc'[w] = "reserve_sum" => ReserveBalance(w)
         /\ pc'[w] = "reserve_create" => ReserveSum(w)
         /\ pc'[w] = "post" => StockCheck(w) \/ ReadLine(w)
         /\ pc'[w] = "sum_ledger" => SumReserved(w) \/ Post(w)
         /\ pc'[w] = "read_rollup" => SumLedger(w)
         /\ pc'[w] = "save_rollup" => ReadRollup(w)
         /\ pc'[w] = "idle" => Answer(w)
<1>0. pc \in [Workers -> Step] /\ seen[w].then \in Step
  BY DEF TInv, TypeOK, Snapshot
<1>1. pc[w] \in Refreshing => seen[w].then \in Returns
  BY DEF Route
<1> USE DEF At, Continue, Refresh, RefreshSteps, Goto
<1>91. ASSUME Answer(w) PROVE pc'[w] = "idle"
  BY <1>0, <1>91 DEF Answer
<1>2. CASE \/ SaveConfirmed(w) \/ ReserveOpen(w) \/ ReserveFind(w) \/ ReserveBalance(w)
           \/ ReserveSum(w)
  BY <1>0, <1>91, <1>2 DEF SaveConfirmed, ReserveOpen, ReserveFind, ReserveBalance, ReserveSum
<1>3. CASE ReserveCreate(w) \/ BackorderLine(w) \/ UndoConfirm(w) \/ SaveCancelled(w) \/ ReleaseSave(w)
           \/ ReadEvent(w) \/ StockCheck(w) \/ Post(w)
  BY <1>0, <1>91, <1>3 DEF ReserveCreate, BackorderLine, UndoConfirm, SaveCancelled, ReleaseSave,
     ReadEvent, StockCheck, Post
<1>4. CASE ReleaseFind(w)
  BY <1>0, <1>91, <1>4 DEF ReleaseFind, AfterRelease
<1>5. CASE ReadLine(w)
  BY <1>0, <1>91, <1>5 DEF ReadLine
<1>6. CASE \/ ConsumeFind(w) \/ ConsumeSave(w) \/ RestoreFind(w) \/ RestoreSave(w)
  BY <1>0, <1>91, <1>6 DEF ConsumeFind, ConsumeSave, RestoreFind, RestoreSave
<1>7. CASE \/ SaveLine(w) \/ ReadLines(w) \/ SaveOrder(w) \/ CreateEvent(w) \/ MarkEvent(w)
           \/ DropFind(w) \/ DropSave(w)
  BY <1>0, <1>91, <1>7 DEF SaveLine, ReadLines, SaveOrder, CreateEvent, MarkEvent, DropFind,
     DropSave
<1>8. CASE SumReserved(w) \/ SumLedger(w) \/ ReadRollup(w)
  BY <1>0, <1>91, <1>8 DEF SumReserved, SumLedger, ReadRollup
<1>9. CASE SaveRollup(w)
  BY <1>0, <1>1, <1>91, <1>9 DEF SaveRollup, Refreshing, Returns
<1>10. QED
  BY <1>2, <1>3, <1>4, <1>5, <1>6, <1>7, <1>8, <1>9 DEF Serve

\* The status of the order a request is about.
Ordered(w) ==
    LET o == req[w].order IN
    /\ req[w].op \in {"post", "reverse"} =>
         order[o] \in Fulfillable /\ seen[w].status \in Fulfillable
    /\ pc[w] = "save_order" => seen[w].next \in Fulfillable
    /\ req[w].op = "confirm" => order[o] = IF pc[w] = "confirm_save" THEN "Draft" ELSE "Confirmed"

\* A step keeps what is known of the status.
LEMMA OrderedServe ==
  ASSUME TInv, NEW w \in Workers, Route(w), Ordered(w), Serve(w)
  PROVE  Ordered(w)'
<1>0. /\ pc \in [Workers -> Step] /\ req \in [Workers -> Request] /\ seen \in [Workers -> Snapshot]
      /\ order \in [Orders -> OrderStatus] /\ req[w].order \in Orders
  BY DEF TInv, TypeOK, Request
<1>1. CASE Answer(w)
  BY <1>1, RouteAnswer, Blank DEF Ordered
<1>2. CASE ~Answer(w) /\ (SaveConfirmed(w) \/ SaveCancelled(w))
  <2>1. /\ req[w].op = IF SaveConfirmed(w) THEN "confirm" ELSE "cancel"
        /\ req' = req /\ pc'[w] \in {"reserve_open", "release_find"}
        /\ SaveConfirmed(w) => order'[req[w].order] = "Confirmed"
    BY <1>0, <1>2, Here DEF SaveConfirmed, SaveCancelled, At, Continue, Goto
  <2>2. QED
    BY <1>2, <2>1 DEF Ordered
<1>3. CASE SaveOrder(w)
  <2>1. /\ pc[w] = "save_order" /\ req' = req /\ seen' = seen /\ pc'[w] = "create_event"
        /\ order'[req[w].order] \in {order[req[w].order], seen[w].next}
    BY <1>0, <1>3 DEF SaveOrder, At, Continue, Goto
  <2>2. req[w].op \in {"post", "reverse"}
    BY <2>1, Here DEF Books
  <2>3. QED
    BY <2>1, <2>2 DEF Ordered
<1>4. CASE ReadLines(w)
  <2>1. req[w].op \in {"post", "reverse"} /\ req' = req /\ order' = order /\ pc'[w] = "save_order"
        /\ seen'[w].status = seen[w].status
    BY <1>0, <1>4, Here DEF ReadLines, At, Continue, Goto, Books, docs, Snapshot
  <2>2. PICK h : h = Header(req[w].order)
    OBVIOUS
  <2>3. seen'[w].next = IF req[w].op = "post" THEN AfterFulfillment(seen[w].status, h)
                                              ELSE AfterReversal(seen[w].status, h)
    BY <1>0, <1>4, <2>2 DEF ReadLines, Snapshot
  <2>4. seen[w].status \in Fulfillable
    BY <2>1 DEF Ordered
  <2>5. seen'[w].next \in Fulfillable
    BY <2>3, <2>4 DEF AfterFulfillment, AfterReversal, Fulfillable
  <2>6. QED
    BY <2>1, <2>4, <2>5 DEF Ordered
<1>5. CASE ~Answer(w) /\ ~SaveConfirmed(w) /\ ~SaveCancelled(w) /\ ~SaveOrder(w) /\ ~ReadLines(w)
  <2>1. ~UndoConfirm(w)
    BY <1>5 DEF UndoConfirm
  <2>2. order' = order /\ req' = req /\ seen'[w].status = seen[w].status
        /\ pc'[w] \notin {"save_order", "confirm_save"}
    BY <1>5, <2>1, ServeFrame, ServeKeeps, Entered DEF Kept
  <2>3. pc[w] # "confirm_save"
    BY <1>5 DEF Serve, ReserveOpen, ReserveFind, ReserveBalance, ReserveSum, ReserveCreate,
       BackorderLine,
       UndoConfirm, ReleaseFind, ReleaseSave, ReadEvent, ReadLine, StockCheck, Post, ConsumeFind, ConsumeSave,
       RestoreFind, RestoreSave, SaveLine, CreateEvent, MarkEvent, DropFind, DropSave,
       SumReserved, SumLedger, ReadRollup, SaveRollup, At
  <2>4. QED
    BY <2>2, <2>3 DEF Ordered
<1>6. QED
  BY <1>1, <1>2, <1>3, <1>4, <1>5

\* What a request that arrives brings.
Arrived(w) ==
    LET q == req'[w] o == q.order IN
    /\ pc[w] = "idle" /\ UNCHANGED docs /\ seen[w] = Nothing
    /\ \/ seen'[w] = Nothing
       \/ \E s \in OrderStatus : seen'[w] = [Nothing EXCEPT !.status = s]
    /\ \/ q.op = "rebuild" /\ pc'[w] = "sum_reserved"
       \/ q.op = "confirm" /\ pc'[w] = "confirm_save" /\ order[o] = "Draft"
       \/ q.op = "cancel" /\ pc'[w] = "cancel_save"
       \/ /\ q.op = "post" /\ pc'[w] = "read_line"
          /\ order[o] \in Fulfillable /\ seen'[w].status = order[o] /\ q.qty \in 1 .. Quantity[o]
       \/ /\ q.op = "reverse" /\ pc'[w] = "read_event"
          /\ order[o] \in Fulfillable /\ seen'[w].status = order[o]
          /\ q.event \in DOMAIN events /\ events[q.event].qty = q.qty

\* What arrives is that.
LEMMA ArrivalBrings ==
  ASSUME TInv, NEW w \in Workers, Arrival(w)
  PROVE  Arrived(w)
<1>0. /\ pc \in [Workers -> Step] /\ req \in [Workers -> Request] /\ seen \in [Workers -> Snapshot]
      /\ order \in [Orders -> OrderStatus] /\ events \in Seq(Event)
  BY DEF TInv, TypeOK
<1>1. pc[w] = "idle" /\ UNCHANGED docs /\ seen[w] = Nothing
  BY DEF TInv, Loaded, Arrival, Rebuild, ReceiveConfirm, ReceiveCancel, ReceivePosting,
     ReceiveReversal, Receive, At
<1>2. ASSUME Rebuild(w) PROVE Arrived(w)
  BY <1>0, <1>1, <1>2, Blank DEF Rebuild, Receive, Goto, Arrived
<1>3. ASSUME NEW o \in Orders, ReceiveConfirm(w, o) PROVE Arrived(w)
  BY <1>0, <1>1, <1>3 DEF ReceiveConfirm, Receive, Goto, Ask, Arrived
<1>4. ASSUME NEW o \in Orders, ReceiveCancel(w, o) PROVE Arrived(w)
  BY <1>0, <1>1, <1>4 DEF ReceiveCancel, Receive, Goto, Ask, Arrived
<1>5. ASSUME NEW o \in Orders, NEW kind \in PostingKinds, NEW q \in 1 .. Quantity[o],
             ReceivePosting(w, o, kind, q)
      PROVE  Arrived(w)
  <2>1. seen'[w] = [Nothing EXCEPT !.status = order[o]] /\ order[o] \in OrderStatus
    BY <1>0, <1>1, <1>5 DEF ReceivePosting
  <2>2. seen'[w].status = order[o]
    BY <2>1, Blank DEF Snapshot
  <2>3. req'[w] = Ask("post", o, kind, q, 0) /\ pc'[w] = "read_line" /\ order[o] \in Fulfillable
    BY <1>0, <1>5 DEF ReceivePosting, Receive, Goto
  <2>4. req'[w].op = "post" /\ req'[w].order = o /\ req'[w].qty = q
    BY <2>3 DEF Ask
  <2>5. QED
    BY <1>1, <2>1, <2>2, <2>3, <2>4 DEF Arrived
<1>6. ASSUME NEW e \in DOMAIN events, ReceiveReversal(w, e) PROVE Arrived(w)
  <2>0. PICK ev \in Event : ev = events[e]
    BY <1>0, ElementOfSeq, LenProperties
  <2>1. seen'[w] = [Nothing EXCEPT !.status = order[ev.order]] /\ order[ev.order] \in OrderStatus
    BY <1>0, <1>1, <1>6, <2>0 DEF ReceiveReversal, Event
  <2>2. seen'[w].status = order[ev.order]
    BY <2>1, Blank DEF Snapshot
  <2>3. /\ req'[w] = Ask("reverse", ev.order, ev.kind, ev.qty, e) /\ pc'[w] = "read_event"
        /\ order[ev.order] \in Fulfillable
    BY <1>0, <1>6, <2>0 DEF ReceiveReversal, Receive, Goto
  <2>4. req'[w].op = "reverse" /\ req'[w].order = ev.order /\ req'[w].qty = ev.qty /\ req'[w].event = e
    BY <2>3 DEF Ask
  <2>5. QED
    BY <1>1, <2>0, <2>1, <2>2, <2>3, <2>4 DEF Arrived
<1>7. QED
  BY <1>2, <1>3, <1>4, <1>5, <1>6 DEF Arrival

\* A request arrives for an order in a status its kind allows.
LEMMA OrderedArrival ==
  ASSUME TInv, NEW w \in Workers, Arrived(w)
  PROVE  Ordered(w)'
  BY DEF Ordered, Arrived, docs

\* At first no request says anything of an order.
LEMMA OrderedInit == Init => \A w \in Workers : Ordered(w)
  BY Blank DEF Init, Ordered

\* A refresh leads back, or to the answer.
LEMMA StageKept ==
  ASSUME TInv, NEW w \in Workers, Route(w), RefreshSteps(w)
  PROVE  Answer(w) \/ Stage(w)' = Stage(w)
<1>0. /\ pc \in [Workers -> Step] /\ seen \in [Workers -> Snapshot]
  BY DEF TInv, TypeOK
<1>1. CASE SumReserved(w) \/ SumLedger(w) \/ ReadRollup(w)
  BY <1>0, <1>1 DEF SumReserved, SumLedger, ReadRollup, At, Continue, Goto, Refreshing,
     Snapshot, Stage
<1>2. CASE SaveRollup(w) /\ seen[w].then = "idle"
  BY <1>2 DEF SaveRollup
<1>3. CASE SaveRollup(w) /\ seen[w].then # "idle"
  <2>1. pc[w] = "save_rollup" /\ pc'[w] = seen[w].then
    BY <1>0, <1>3 DEF SaveRollup, At, Continue, Goto
  <2>2. seen[w].then \notin Refreshing
    BY <2>1 DEF Route, Refreshing, Returns
  <2>3. QED
    BY <2>1, <2>2 DEF Stage, Refreshing
<1>4. QED
  BY <1>1, <1>2, <1>3 DEF RefreshSteps

\* The steps of a confirmation at which its order has no reservation.
Unreserved == Reserves \cup Releases \cup {"undo_save"}

\* An order has at most one reservation, which a posting that saves it still has as it is.
Rows(w) ==
    LET o == req[w].order IN
    /\ \A x \in Orders : Len(resv[x]) <= 1 /\ (order[x] = "Draft" => resv[x] = <<>>)
    /\ req[w].op = "confirm" /\ Stage(w) \in Unreserved => resv[o] = <<>>
    /\ pc[w] = "consume_save" => seen[w].row \in Range(resv[o])

\* At first nothing is reserved.
LEMMA RowsInit == Init => \A w \in Workers : Rows(w)
<1>1. Len(<<>>) = 0
  OBVIOUS
<1>2. QED
  BY <1>1, Blank DEF Init, Rows

\* A confirmation arrives for a draft, which has no reservation.
LEMMA RowsArrival ==
  ASSUME TInv, NEW w \in Workers, Rows(w), Arrived(w)
  PROVE  Rows(w)'
<1>1. req'[w].op = "confirm" => pc'[w] = "confirm_save"
  BY DEF Arrived
<1>2. req'[w].op = "confirm" => Stage(w)' = "confirm_save"
  BY <1>1 DEF Stage, Refreshing
<1>3. pc'[w] # "consume_save" /\ UNCHANGED docs
  BY DEF Arrived
<1>4. QED
  BY <1>2, <1>3 DEF Rows, docs, Unreserved, Reserves, Releases

\* An order without reservations.
LEMMA NoRows ==
  ASSUME TypeOK, NEW o \in Orders
  PROVE  /\ resv[o] = <<>> => ActiveRows(o) = {} /\ Ids(o) = {}
         /\ Ids(o) # {} => resv[o] # <<>>
  BY DEF ActiveRows, Ids, Range

\* Saving a reservation.
LEMMA RowsSaved ==
  ASSUME TInv, NEW w \in Workers, Rows(w), NEW o \in Orders, NEW r \in Reservation, r.id \in Ids(o),
         resv' = Saved(o, r)
  PROVE  \A x \in Orders : Len(resv'[x]) = Len(resv[x]) /\ (resv[x] = <<>> => resv'[x] = <<>>)
<1>1. TypeOK
  BY DEF TInv
<1>2. /\ \A x \in Orders : x # o => resv'[x] = resv[x]
      /\ Len(resv'[o]) = Len(resv[o])
  BY <1>1, SavedRows DEF Moved
<1>3. resv[o] # <<>>
  BY <1>1, NoRows
<1>4. QED
  BY <1>2, <1>3

\* The save of a reservation: it succeeds and the balance is refreshed, or the request fails.
RowSaved(w) ==
    LET o == req[w].order IN
    /\ \E r \in Reservation : /\ r.id \in Ids(o) /\ resv' = Saved(o, r)
                              /\ ReleaseSave(w) => r.id \in seen[w].rows /\ ~Active(r)
    /\ req' = req /\ pc[w] \in Saving \cup {"release_save"} /\ pc'[w] = "sum_reserved"
    /\ pc[w] \in {"consume_save", "restore_save"} => seen'[w].then = "save_line"
    /\ pc[w] = "drop_save" => seen'[w].then = "idle"
    /\ UNCHANGED <<order, line, events, ledger, rollup>>

\* The version or the unique index refuses it.
RowRefused(w) ==
    LET o == req[w].order IN
    /\ Answer(w) /\ UNCHANGED docs
    /\ \/ pc[w] = "consume_save" /\ RowById(o, seen[w].row.id).version # seen[w].row.version
       \/ pc[w] = "restore_save" /\ \E r \in ActiveRows(o) : r.id # seen[w].row.id

\* Each of the four saves of a reservation is one of the two.
LEMMA RowSaves ==
  ASSUME TInv, NEW w \in Workers, ReleaseSave(w) \/ ConsumeSave(w) \/ RestoreSave(w) \/ DropSave(w)
  PROVE  RowSaved(w) \/ RowRefused(w)
<1>0. /\ pc \in [Workers -> Step] /\ seen \in [Workers -> Snapshot]
      /\ req[w].order \in Orders /\ req[w].qty \in Nat /\ seen[w].row \in Reservation /\ TypeOK
  BY DEF TInv, TypeOK, Snapshot, Request
<1>1. PICK o \in Orders : o = req[w].order
  BY <1>0
<1>2. PICK loaded \in Reservation : loaded = seen[w].row
  BY <1>0
<1>3. loaded.consumed \in Int /\ loaded.quantity \in Int
  BY <1>2 DEF Reservation
<1>4. ASSUME NEW id \in Ids(o)
      PROVE  RowById(o, id) \in Reservation /\ RowById(o, id).id = id
  BY <1>0, <1>1, <1>4, RowOfId
<1>5. pc[w] \in Saving => loaded.id \in Ids(o)
  BY <1>1, <1>2 DEF TInv, Loaded
<1>6. CASE ReleaseSave(w)
  <2>1. PICK id \in seen[w].rows : resv' = Saved(o, [RowById(o, id) EXCEPT !.status = "cancelled"])
    BY <1>1, <1>6 DEF ReleaseSave
  <2>2. id \in Ids(o)
    BY <1>1 DEF TInv, Loaded
  <2>3. PICK r : r = [RowById(o, id) EXCEPT !.status = "cancelled"]
    OBVIOUS
  <2>4. r \in Reservation /\ r.id = id /\ ~Active(r)
    BY <1>4, <2>2, <2>3 DEF Reservation, ReservationStatus, Active, ActiveStatus
  <2>5. /\ req' = req /\ pc'[w] = "sum_reserved" /\ pc[w] = "release_save"
        /\ UNCHANGED <<order, line, events, ledger, rollup>>
    BY <1>0, <1>6 DEF ReleaseSave, At, Continue, Goto
  <2>6. QED
    BY <1>1, <2>1, <2>2, <2>3, <2>4, <2>5 DEF RowSaved
<1>91. ASSUME NEW then, Refresh(w, then),
               At(w, "consume_save") \/ At(w, "restore_save") \/ At(w, "drop_save")
      PROVE  /\ req' = req /\ pc[w] \in Saving \cup {"release_save"} /\ pc'[w] = "sum_reserved"
             /\ seen'[w].then = then /\ ~ReleaseSave(w)
  BY <1>0, <1>91 DEF Refresh, At, Goto, Saving, Snapshot, ReleaseSave
<1>7. CASE ConsumeSave(w)
  <2>0. pc[w] \in Saving /\ pc[w] = "consume_save"
    BY <1>7 DEF ConsumeSave, At, Saving
  <2>1. PICK current \in Reservation : current = RowById(o, loaded.id) /\ current.id \in Ids(o)
    BY <1>4, <1>5, <2>0
  <2>2. PICK taking \in Int : taking = Consumption(w)
    BY <1>0, <1>2, <1>3 DEF Consumption, Remaining, Lesser, AtLeast0
  <2>3. PICK st \in ReservationStatus :
          st = IF loaded.consumed + taking >= loaded.quantity
                 THEN "consumed" ELSE "partially_consumed"
    BY DEF ReservationStatus, ActiveStatus
  <2>4. PICK a \in Reservation :
          a = Rewritten(current, loaded, loaded.consumed + taking, st) /\ a.id = current.id
    BY <1>3, RewrittenType
  <2>5. PICK r \in Reservation : r = [a EXCEPT !.version = a.version + 1] /\ r.id = current.id
    <3>1. PICK n \in Nat : n = a.version + 1
      BY RowChanged
    <3>2. [a EXCEPT !.version = n] \in Reservation /\ [a EXCEPT !.version = n].id = a.id
      BY RowChanged, Zenon
    <3>3. a.id = current.id
      BY <2>4
    <3>4. QED
      BY <3>1, <3>2, <3>3, Zenon
  <2>6. CASE current.version # loaded.version
    <3>1. Answer(w) /\ UNCHANGED docs
      BY <1>1, <1>2, <1>7, <2>1, <2>6 DEF ConsumeSave, docs
    <3>2. QED
      BY <1>1, <1>2, <2>0, <2>1, <2>6, <3>1 DEF RowRefused
  <2>7. CASE current.version = loaded.version
    <3>1. /\ resv' = Saved(o, r) /\ Refresh(w, "save_line")
          /\ UNCHANGED <<order, line, events, ledger, rollup>>
      BY <1>1, <1>2, <1>7, <2>1, <2>2, <2>3, <2>4, <2>5, <2>7 DEF ConsumeSave
    <3>2. QED
      BY <1>1, <1>91, <2>0, <2>1, <2>5, <3>1 DEF RowSaved, At
  <2>8. QED
    BY <2>6, <2>7
<1>8. CASE RestoreSave(w)
  <2>0. pc[w] \in Saving /\ pc[w] = "restore_save"
    BY <1>8 DEF RestoreSave, At, Saving
  <2>1. PICK current \in Reservation : current = RowById(o, loaded.id) /\ current.id \in Ids(o)
                                       /\ current.id = loaded.id
    BY <1>4, <1>5, <2>0
  <2>2. PICK back \in Int : back = Lesser(loaded.consumed, req[w].qty)
    BY <1>0, <1>3 DEF Lesser
  <2>3. PICK st \in ReservationStatus :
          st = IF loaded.consumed - back > 0 THEN "partially_consumed" ELSE "active"
    BY DEF ReservationStatus, ActiveStatus
  <2>4. PICK r \in Reservation :
          r = Rewritten(current, loaded, loaded.consumed - back, st) /\ r.id = current.id
    BY <1>3, RewrittenType
  <2>5. \/ Answer(w) /\ UNCHANGED docs /\ \E x \in ActiveRows(o) : x.id # r.id
        \/ /\ resv' = Saved(o, r) /\ Refresh(w, "save_line")
           /\ UNCHANGED <<order, line, events, ledger, rollup>>
    BY <1>1, <1>2, <1>8, <2>1, <2>2, <2>3, <2>4 DEF RestoreSave, docs
  <2>6. CASE Answer(w) /\ UNCHANGED docs /\ \E x \in ActiveRows(o) : x.id # r.id
    BY <1>1, <1>2, <2>0, <2>1, <2>4, <2>6 DEF RowRefused
  <2>7. CASE /\ resv' = Saved(o, r) /\ Refresh(w, "save_line")
             /\ UNCHANGED <<order, line, events, ledger, rollup>>
    BY <1>1, <1>91, <2>0, <2>1, <2>4, <2>7 DEF RowSaved, At
  <2>8. QED
    BY <2>5, <2>6, <2>7
<1>9. CASE DropSave(w)
  <2>0. pc[w] \in Saving /\ pc[w] = "drop_save"
    BY <1>9 DEF DropSave, At, Saving
  <2>1. PICK current \in Reservation : current = RowById(o, loaded.id) /\ current.id \in Ids(o)
    BY <1>4, <1>5, <2>0
  <2>2. PICK r \in Reservation :
          /\ r = IF req[w].qty >= Remaining(loaded)
                   THEN [current EXCEPT !.status = "released"]
                   ELSE [current EXCEPT !.quantity = loaded.quantity - req[w].qty]
          /\ r.id = current.id
    <3>1. CASE req[w].qty >= Remaining(loaded)
      <4>1. "released" \in ReservationStatus
        BY DEF ReservationStatus
      <4>2. QED
        BY <3>1, <4>1, RowChanged, Zenon
    <3>2. CASE ~(req[w].qty >= Remaining(loaded))
      <4>1. PICK n \in Int : n = loaded.quantity - req[w].qty
        BY <1>0, <1>3
      <4>2. QED
        BY <3>2, <4>1, RowChanged, Zenon
    <3>3. QED
      BY <3>1, <3>2
  <2>3. /\ resv' = Saved(o, r) /\ Refresh(w, "idle")
        /\ UNCHANGED <<order, line, events, ledger, rollup>>
    BY <1>1, <1>2, <1>9, <2>1, <2>2 DEF DropSave
  <2>4. QED
    BY <1>1, <1>91, <2>0, <2>1, <2>2, <2>3 DEF RowSaved, At
<1>10. QED
  BY <1>6, <1>7, <1>8, <1>9

\* A step leaves an order one reservation at most: only a confirmation inserts one.
LEMMA RowsServe ==
  ASSUME TInv, NEW w \in Workers, Route(w), Ordered(w), Rows(w), Serve(w)
  PROVE  Rows(w)'
<1>0. /\ pc \in [Workers -> Step] /\ req \in [Workers -> Request] /\ seen \in [Workers -> Snapshot]
      /\ order \in [Orders -> OrderStatus] /\ resv \in [Orders -> Seq(Reservation)]
      /\ TypeOK
  BY DEF TInv, TypeOK
<1> DEFINE o == req[w].order
<1>92. PICK p \in Orders : p = o
  BY <1>0 DEF Request
<1> DEFINE Few == \A x \in Orders : Len(resv[x]) <= 1 /\ (order[x] = "Draft" => resv[x] = <<>>)
<1>93. Few
  BY DEF Rows
\* A save of a reservation.
<1>94. ASSUME NEW r \in Reservation, r.id \in Ids(o), resv' = Saved(o, r), order' = order,
             req' = req, pc'[w] \in Refreshing, pc[w] \in Saving \cup {"release_save"}
      PROVE  Rows(w)'
  <2>1. \A x \in Orders : Len(resv'[x]) = Len(resv[x]) /\ (resv[x] = <<>> => resv'[x] = <<>>)
    BY <1>0, <1>92, <1>94, RowsSaved
  <2>2. resv[o] # <<>>
    BY <1>0, <1>92, <1>94, NoRows
  <2>3. \A x \in Orders : Len(resv'[x]) <= 1 /\ (order'[x] = "Draft" => resv'[x] = <<>>)
    BY <1>93, <1>94, <2>1
  <2>4. req[w].op # "confirm"
    <3>1. SUFFICES ASSUME req[w].op = "confirm" PROVE FALSE
      OBVIOUS
    <3>2. pc[w] = "release_save" /\ Stage(w) = "release_save"
      BY <1>94, <3>1, Here DEF Saving, Stage, Refreshing
    <3>3. QED
      BY <2>2, <3>1, <3>2 DEF Rows, Unreserved, Releases
  <2>5. QED
    BY <1>94, <2>3, <2>4 DEF Rows, Refreshing
<1>1. CASE SaveConfirmed(w)
  <2>1. /\ pc[w] = "confirm_save" /\ req' = req /\ resv' = resv /\ pc'[w] = "reserve_open"
        /\ order' = [order EXCEPT ![o] = "Confirmed"]
    BY <1>0, <1>1 DEF SaveConfirmed, At, Continue, Goto
  <2>2. resv[o] = <<>>
    <3>1. order[o] = "Draft"
      BY <2>1, Here DEF Ordered
    <3>2. QED
      BY <1>93, <1>92, <3>1
  <2>3. \A x \in Orders : order'[x] = "Draft" => order[x] = "Draft"
    BY <1>0, <2>1
  <2>4. QED
    BY <1>93, <2>1, <2>2, <2>3 DEF Rows
<1>2. CASE UndoConfirm(w)
  <2>1. /\ pc[w] = "undo_save" /\ Answer(w) /\ resv' = resv
        /\ order' = [order EXCEPT ![o] = "Draft"]
    BY <1>2 DEF UndoConfirm, At
  <2>2. resv[o] = <<>>
    BY <2>1, Here DEF Rows, Stage, Refreshing, Unreserved
  <2>3. \A x \in Orders : order'[x] = "Draft" => order[x] = "Draft" \/ x = o
    BY <1>0, <2>1
  <2>4. \A x \in Orders : Len(resv'[x]) <= 1 /\ (order'[x] = "Draft" => resv'[x] = <<>>)
    BY <1>93, <2>1, <2>2, <2>3
  <2>5. QED
    BY <2>1, <2>4, RouteAnswer, Blank DEF Rows
<1>3. CASE SaveCancelled(w)
  <2>1. /\ req[w].op = "cancel" /\ req' = req /\ resv' = resv /\ pc'[w] = "release_find"
        /\ order' = [order EXCEPT ![o] = "Cancelled"]
    BY <1>0, <1>3, Here DEF SaveCancelled, At, Continue, Goto
  <2>2. \A x \in Orders : order'[x] = "Draft" => order[x] = "Draft"
    BY <1>0, <2>1
  <2>3. QED
    BY <1>93, <2>1, <2>2 DEF Rows
<1>4. CASE SaveOrder(w)
  <2>1. /\ pc[w] = "save_order" /\ req' = req /\ resv' = resv /\ pc'[w] = "create_event"
        /\ order' = IF seen[w].next = seen[w].status THEN order
                    ELSE [order EXCEPT ![o] = seen[w].next]
    BY <1>0, <1>4 DEF SaveOrder, At, Continue, Goto
  <2>2. req[w].op # "confirm" /\ seen[w].next # "Draft"
    BY <2>1, Here DEF Ordered, Fulfillable, Books
  <2>3. \A x \in Orders : order'[x] = "Draft" => order[x] = "Draft"
    BY <1>0, <2>1, <2>2
  <2>4. QED
    BY <1>93, <2>1, <2>2, <2>3 DEF Rows
<1>5. CASE ReserveCreate(w)
  <2>1. pc[w] = "reserve_create" /\ req[w].op = "confirm" /\ Stage(w) \in Unreserved
    BY <1>5, Here DEF ReserveCreate, At, Reserves, Unreserved, Stage, Refreshing
  <2>2. resv[o] = <<>> /\ ActiveRows(o) = {}
    BY <1>0, <1>92, <2>1, NoRows DEF Rows
  <2>3. PICK row : row = [seen[w].row EXCEPT !.id = Len(resv[o]) + 1]
    OBVIOUS
  <2>4. /\ resv' = [resv EXCEPT ![o] = Append(@, row)] /\ order' = order /\ req' = req
        /\ pc'[w] = "sum_reserved" /\ seen'[w].then \in {"backorder_line", "idle"}
    BY <1>0, <1>5, <2>2, <2>3 DEF ReserveCreate, Refresh, Goto, Snapshot
  <2>5. resv'[o] = <<row>> /\ \A x \in Orders : x # o => resv'[x] = resv[x]
    BY <1>0, <1>92, <2>2, <2>4
  <2>6. order[o] # "Draft"
    BY <2>1 DEF Ordered
  <2>7. Len(resv'[o]) = 1
    BY <2>5
  <2>8. Stage(w)' \notin Unreserved
    BY <2>4 DEF Stage, Refreshing, Unreserved, Reserves, Releases
  <2>9. QED
    BY <1>93, <1>92, <2>4, <2>5, <2>6, <2>7, <2>8 DEF Rows
<1>7. CASE (ReleaseSave(w) \/ ConsumeSave(w) \/ RestoreSave(w) \/ DropSave(w)) /\ resv' # resv
  <2>1. RowSaved(w)
    BY <1>7, RowSaves DEF RowRefused, docs
  <2>2. PICK r \in Reservation : r.id \in Ids(o) /\ resv' = Saved(o, r)
    BY <2>1 DEF RowSaved
  <2>3. QED
    BY <1>94, <2>1, <2>2 DEF RowSaved, Refreshing
<1>8. CASE resv' = resv /\ order' = order
  <2>1. \A x \in Orders : Len(resv'[x]) <= 1 /\ (order'[x] = "Draft" => resv'[x] = <<>>)
    BY <1>93, <1>8
  <2>2. CASE Answer(w)
    BY <2>1, <2>2, RouteAnswer, Blank DEF Rows
  <2>3. CASE Kept(w) /\ ConsumeFind(w)
    <3>1. req[w].op = "post" /\ req' = req
      BY <2>3, Here DEF ConsumeFind, At, Kept
    <3>2. pc'[w] = "consume_save" => seen'[w].row \in ActiveRows(o)
      BY <1>0, <2>3 DEF ConsumeFind, Continue, Goto, Snapshot
    <3>3. QED
      BY <1>8, <2>1, <3>1, <3>2 DEF Rows, ActiveRows
  <2>4. CASE Kept(w) /\ ~ConsumeFind(w) /\ ~SaveConfirmed(w) /\ ~Answer(w)
    <3>1. pc'[w] # "consume_save" /\ req' = req
      BY <2>4, Entered DEF Kept
    <3>2. req[w].op = "confirm" /\ Stage(w)' \in Unreserved => Stage(w) \in Unreserved
      <4>1. SUFFICES ASSUME req[w].op = "confirm", Stage(w) \notin Unreserved, pc[w] \notin Refreshing
                     PROVE  FALSE
        BY <2>4, StageKept, ServeSteps
      <4>2. pc[w] \in {"confirm_save", "backorder_line", "idle"}
        BY <4>1 DEF Route, Stage, StepsOf, Unreserved
      <4>3. pc[w] # "idle" /\ ~BackorderLine(w) /\ ~UndoConfirm(w)
        BY <2>4, Entered DEF BackorderLine, UndoConfirm
      <4>4. QED
        BY <2>4, <4>2, <4>3 DEF Serve, ReserveOpen, ReserveFind, ReserveBalance, ReserveSum,
           ReserveCreate, SaveCancelled, ReleaseFind, ReleaseSave, ReadEvent, ReadLine, StockCheck,
           Post, ConsumeSave, RestoreFind, RestoreSave, SaveLine, ReadLines, SaveOrder,
           CreateEvent, MarkEvent, DropFind, DropSave, SumReserved, SumLedger, ReadRollup,
           SaveRollup, At
    <3>3. QED
      BY <1>8, <2>1, <3>1, <3>2 DEF Rows
  <2>5. QED
    BY <1>1, <2>2, <2>3, <2>4, ServeKeeps
<1>9. QED
  BY <1>1, <1>2, <1>3, <1>4, <1>5, <1>7, <1>8, ServeFrame

\* A lone request is never refused the save of a reservation.
LEMMA NotRefused ==
  ASSUME TInv, NEW w \in Workers, Rows(w)
  PROVE  ~RowRefused(w)
<1>1. PICK o \in Orders : o = req[w].order
  BY DEF TInv, TypeOK, Request
<1>2. PICK s \in Seq(Reservation) : s = resv[o] /\ DOMAIN s = 1 .. Len(s) /\ Len(s) \in Nat /\ Len(s) <= 1
  BY LenProperties DEF TInv, TypeOK, Rows
<1>3. Distinct(s) /\ \A i \in DOMAIN s : s[i].id \in 1 .. Len(s)
  BY <1>2 DEF TInv, Numbered, Distinct
<1>4. CASE pc[w] = "consume_save"
  <2>1. PICK i \in DOMAIN s : s[i] = seen[w].row
    BY <1>1, <1>2, <1>4 DEF Rows, Range
  <2>2. RowById(o, seen[w].row.id) = RowOf(s, seen[w].row.id)
    BY <1>2 DEF RowById, Place, RowOf
  <2>3. RowOf(s, seen[w].row.id) = s[i]
    BY <1>3, <2>1, RowOfIndex
  <2>4. QED
    BY <1>1, <1>4, <2>1, <2>2, <2>3 DEF RowRefused
<1>5. CASE pc[w] = "restore_save"
  <2>1. seen[w].row.id \in Ids(o)
    BY <1>1, <1>5 DEF TInv, Loaded, Saving
  <2>2. ASSUME NEW x \in Ids(o) PROVE x = 1
    BY <1>2, <1>3, <2>2 DEF Ids
  <2>3. \A r \in ActiveRows(o) : r.id \in Ids(o)
    BY ActiveRow DEF TInv
  <2>4. QED
    BY <1>1, <1>5, <2>1, <2>2, <2>3 DEF RowRefused
<1>6. QED
  BY <1>4, <1>5 DEF RowRefused

\* Outside a refresh the balance is that of ledger and reservations; a refresh has
\* read what there is, or was not asked for the reservations, which are as they were.
Balanced(w) ==
    /\ pc[w] \notin Refreshing => Accurate
    /\ pc[w] \notin Refreshing \ {"sum_reserved"} => seen[w].reserved = {}
    /\ pc[w] \in Refreshing \ {"sum_reserved"} =>
         \/ seen[w].reserved = {} /\ rollup.reserved = Reserved
         \/ seen[w].reserved = {Reserved}
    /\ pc[w] \in {"read_rollup", "save_rollup"} => seen[w].onHand = OnHand
    /\ pc[w] = "save_rollup" => seen[w].rollup = rollup

\* What is saved is right.
LEMMA BalancedSave ==
  ASSUME TInv, NEW w \in Workers, Balanced(w), pc[w] = "save_rollup"
  PROVE  RollupSaved(seen[w]) = [onHand |-> OnHand, reserved |-> Reserved]
<1>1. seen[w].onHand = OnHand /\ seen[w].rollup = rollup
  BY DEF Balanced
<1>2. CASE seen[w].reserved = {Reserved}
  BY <1>1, <1>2, FreshSave
<1>3. CASE seen[w].reserved = {} /\ rollup.reserved = Reserved
  BY <1>1, <1>3 DEF RollupSaved
<1>4. QED
  BY <1>2, <1>3 DEF Balanced, Refreshing

\* A request arrives when the balance is right, and has read nothing.
LEMMA BalancedArrival ==
  ASSUME TInv, NEW w \in Workers, Balanced(w), Arrived(w)
  PROVE  Balanced(w)'
<1>1. Reserved' = Reserved /\ OnHand' = OnHand /\ rollup' = rollup
  BY SumsKept DEF Arrived, docs
<1>2. seen'[w].reserved = {}
  <2>1. Nothing.reserved = {}
    BY DEF Nothing
  <2>2. QED
    BY <2>1, Blank DEF Arrived, Snapshot
<1>3. pc'[w] \notin Refreshing \ {"sum_reserved"} /\ pc[w] = "idle"
  BY DEF Arrived, Refreshing
<1>4. QED
  BY <1>1, <1>2, <1>3 DEF Balanced, Refreshing, Accurate

\* A step that changes ledger or reservations is followed by a refresh.
LEMMA BalancedServe ==
  ASSUME TInv, NEW w \in Workers, Route(w), Rows(w), Balanced(w), Serve(w)
  PROVE  Balanced(w)'
<1>0. /\ pc \in [Workers -> Step] /\ seen \in [Workers -> Snapshot]
  BY DEF TInv, TypeOK
<1>1. CASE SumReserved(w) \/ SumLedger(w) \/ ReadRollup(w)
  <2>1. Reserved' = Reserved /\ OnHand' = OnHand /\ rollup' = rollup
    BY <1>1, SumsKept DEF SumReserved, SumLedger, ReadRollup, docs
  <2>2. \/ pc[w] = "sum_reserved" /\ pc'[w] = "sum_ledger" /\ seen'[w].reserved = {Reserved}
        \/ /\ pc[w] = "sum_ledger" /\ pc'[w] = "read_rollup"
           /\ seen'[w].onHand = OnHand /\ seen'[w].reserved = seen[w].reserved
        \/ /\ pc[w] = "read_rollup" /\ pc'[w] = "save_rollup" /\ seen'[w].rollup = rollup
           /\ seen'[w].reserved = seen[w].reserved /\ seen'[w].onHand = seen[w].onHand
    BY <1>0, <1>1 DEF SumReserved, SumLedger, ReadRollup, Continue, Goto, At, Snapshot
  <2>3. QED
    BY <2>1, <2>2 DEF Balanced, Refreshing
<1>2. CASE SaveRollup(w)
  <2>1. pc[w] = "save_rollup" /\ Reserved' = Reserved /\ OnHand' = OnHand
    BY <1>2, SumsKept DEF SaveRollup, At
  <2>2. rollup' = [onHand |-> OnHand, reserved |-> Reserved]
    BY <1>2, <2>1, BalancedSave DEF SaveRollup
  <2>3. Accurate'
    BY <2>1, <2>2 DEF Accurate
  <2>4. pc'[w] \notin Refreshing /\ seen'[w].reserved = {}
    <3>1. CASE seen[w].then = "idle"
      BY <1>2, <3>1, RouteAnswer DEF SaveRollup, Nothing, Refreshing
    <3>2. CASE seen[w].then # "idle"
      <4>1. pc'[w] = seen[w].then /\ seen'[w].reserved = {}
        BY <1>0, <1>2, <3>2 DEF SaveRollup, Continue, Goto, Snapshot
      <4>2. seen[w].then \in Returns
        BY <2>1 DEF Route, Refreshing
      <4>3. QED
        BY <4>1, <4>2 DEF Returns, Refreshing
    <3>3. QED
      BY <3>1, <3>2
  <2>5. QED
    BY <2>3, <2>4 DEF Balanced, Refreshing
<1>3. CASE ~RefreshSteps(w)
  <2>1. pc[w] \notin Refreshing /\ Accurate /\ seen[w].reserved = {}
    BY <1>3, ServeSteps DEF Balanced
  <2>2. seen'[w].reserved = {}
    <3>1. CASE Answer(w)
      BY <3>1, RouteAnswer DEF Nothing
    <3>2. CASE Kept(w)
      BY <1>3, <2>1, <3>2 DEF Kept, RefreshSteps
    <3>3. QED
      BY <3>1, <3>2, ServeKeeps
  <2>3. pc'[w] \notin {"read_rollup", "save_rollup"}
    BY <1>3, Entered DEF RefreshSteps
  <2>4. CASE Post(w)
    <3>1. pc'[w] = "sum_ledger" /\ resv' = resv /\ rollup' = rollup
      BY <1>0, <2>4 DEF Post, Continue, Goto
    <3>2. Reserved' = Reserved /\ rollup.reserved = Reserved
      BY <2>1, <3>1, SumsKept DEF Accurate
    <3>3. QED
      BY <2>2, <3>1, <3>2 DEF Balanced, Refreshing
  <2>5. CASE pc'[w] = "sum_reserved"
    BY <2>2, <2>5 DEF Balanced, Refreshing
  <2>6. CASE ~Post(w) /\ pc'[w] # "sum_reserved"
    <3>1. pc'[w] \notin Refreshing
      BY <1>3, <2>3, <2>6, Entered DEF Refreshing, RefreshSteps
    <3>2. resv' = resv
      <4>1. ASSUME ReserveCreate(w) PROVE resv' = resv
        BY <1>0, <2>6, <4>1 DEF ReserveCreate, Refresh, Goto
      <4>2. ASSUME ReleaseSave(w) \/ ConsumeSave(w) \/ RestoreSave(w) \/ DropSave(w)
            PROVE  FALSE
        BY <2>6, <4>2, RowSaves, NotRefused DEF RowSaved
      <4>3. QED
        BY <4>1, <4>2, ServeFrame
    <3>3. ledger' = ledger /\ rollup' = rollup
      BY <1>3, <2>6, ServeFrame DEF RefreshSteps
    <3>4. Reserved' = Reserved /\ OnHand' = OnHand
      BY <3>2, <3>3, SumsKept
    <3>5. Accurate'
      BY <2>1, <3>3, <3>4 DEF Accurate
    <3>6. QED
      BY <2>2, <3>1, <3>5 DEF Balanced, Refreshing
  <2>7. QED
    BY <2>4, <2>5, <2>6
<1>4. QED
  BY <1>1, <1>2, <1>3 DEF RefreshSteps

\* The opening balance is that of an empty ledger.
LEMMA BalancedInit == Init => \A w \in Workers : Balanced(w)
<1> SUFFICES ASSUME Init PROVE \A w \in Workers : Balanced(w)
  OBVIOUS
<1>1. ASSUME NEW o \in Orders PROVE Held(o) = 0
  <2>1. PICK f : f = [i \in DOMAIN resv[o] |->
           IF Active(resv[o][i]) THEN resv[o][i].quantity - resv[o][i].consumed ELSE 0]
    OBVIOUS
  <2>2. DOMAIN f = {} /\ Held(o) = SumFunctionOnSet(f, DOMAIN f)
    <3>1. resv[o] = <<>> /\ DOMAIN f = DOMAIN resv[o]
      BY <1>1, <2>1 DEF Init
    <3>2. DOMAIN f = {}
      BY <3>1
    <3>3. Held(o) = FoldFunction(+, 0, f)
      BY <2>1 DEF Held
    <3>4. QED
      BY <3>2, <3>3, FoldIsSum
  <2>3. QED
    BY <2>2, SumEmpty
<1>2. Reserved = 0
  <2>1. PICK f : f = [o \in Orders |-> Held(o)]
    OBVIOUS
  <2>2. DOMAIN f = Orders /\ \A o \in Orders : f[o] = 0
    BY <1>1, <2>1
  <2>3. Reserved = SumFunctionOnSet(f, DOMAIN f)
    BY <2>1, FoldIsSum DEF Reserved
  <2>4. QED
    BY <2>2, <2>3, SumZero, OrdersAssumption
<1>3. OnHand = Opening
  <2>1. DOMAIN ledger = Orders /\ \A o \in Orders : ledger[o] = 0
    BY DEF Init
  <2>2. SumFunctionOnSet(ledger, Orders) = 0
    BY <2>1, SumZero, OrdersAssumption
  <2>3. OnHand = Opening + SumFunctionOnSet(ledger, DOMAIN ledger)
    BY FoldIsSum DEF OnHand
  <2>4. QED
    BY <2>1, <2>2, <2>3, SettingsAssumption
<1>4. Nothing.reserved = {}
  BY DEF Nothing
<1>5. QED
  BY <1>2, <1>3, <1>4 DEF Init, Balanced, Accurate, Refreshing

\* What the ledger entry of a request is ahead of the line.
Ahead(w, o) ==
    IF o = req[w].order /\ req[w].kind = "ship" /\ Stage(w) \in Issuing THEN Delta(w) ELSE 0

\* The lines tell what the ledger does, but for the posting under way; what is posted
\* next is there and open, or was booked.
LinesAgree(w) ==
    \A o \in Orders : line[o].cancelled >= 0 /\ line[o].fulfilled + ledger[o] = Ahead(w, o)
\* What a request books is there and open, or was booked.
Booking(w) ==
    LET o == req[w].order IN
    /\ req[w].op \in {"post", "reverse"} =>
         /\ req[w].qty >= 1
         /\ Stage(w) \in Issuing \cup {"stock_check", "post"} =>
              seen[w].line = line[o] /\ Fits(w, line[o])
    /\ req[w].op = "post" => req[w].qty <= Quantity[o]
    /\ req[w].op = "post" /\ pc[w] = "post" => req[w].qty <= OnHand
\* No event is of nothing.
Quantities == \A e \in DOMAIN events : events[e].qty >= 1

\* At first nothing has shipped and no event is posted.
LEMMA BookingInit == Init => Quantities /\ \A w \in Workers : LinesAgree(w) /\ Booking(w)
<1>1. DOMAIN <<>> = {}
  OBVIOUS
<1>2. QED
  BY <1>1, Blank DEF Init, Quantities, LinesAgree, Booking, Ahead, NoLine, Stage, Refreshing,
     Issuing

\* A request that arrives has posted nothing, and asks for a quantity of 1 at least.
LEMMA BookingArrival ==
  ASSUME TInv, NEW w \in Workers, LinesAgree(w), Quantities, Arrived(w)
  PROVE  LinesAgree(w)' /\ Booking(w)' /\ Quantities'
<1>1. line' = line /\ ledger' = ledger /\ events' = events /\ pc[w] = "idle"
  BY DEF Arrived, docs
<1>2. \A o \in Orders : Ahead(w, o) = 0
  BY <1>1 DEF Ahead, Stage, Refreshing, Issuing
<1>3. Stage(w)' \notin Issuing \cup {"stock_check", "post"} /\ pc'[w] # "post"
  <2>1. seen'[w].then = "idle"
    BY Blank DEF Arrived, Snapshot
  <2>2. QED
    BY <2>1 DEF Arrived, Stage, Issuing, Refreshing
<1>4. \A o \in Orders : Ahead(w, o)' = 0
  BY <1>3 DEF Ahead
<1>5. LinesAgree(w)'
  BY <1>1, <1>2, <1>4 DEF LinesAgree
<1>6. Booking(w)'
  <2>1. req'[w].op = "post" => req'[w].qty \in 1 .. Quantity[req'[w].order]
    BY DEF Arrived
  <2>2. req'[w].op = "reverse" => req'[w].qty >= 1
    BY DEF Arrived, Quantities
  <2>3. req'[w].op = "post" => req'[w].qty >= 1 /\ req'[w].qty <= Quantity[req'[w].order]
    BY <2>1
  <2>4. QED
    BY <1>3, <2>2, <2>3 DEF Booking
<1>7. QED
  BY <1>1, <1>5, <1>6 DEF Quantities

\* A posting is not answered between its ledger entry and its line.
LEMMA IssuingGoesOn ==
  ASSUME TInv, NEW w \in Workers, Route(w), Rows(w), Serve(w), Answer(w)
  PROVE  Stage(w) \notin Issuing
<1>0. pc \in [Workers -> Step] /\ pc'[w] = "idle"
  BY RouteAnswer DEF TInv, TypeOK
<1>1. CASE RefreshSteps(w)
  <2>1. SaveRollup(w) /\ seen[w].then = "idle"
    <3>1. ~SumReserved(w) /\ ~SumLedger(w) /\ ~ReadRollup(w)
      BY <1>0 DEF SumReserved, SumLedger, ReadRollup, Continue, Goto
    <3>2. ASSUME seen[w].then # "idle" PROVE FALSE
      BY <1>0, <1>1, <3>1, <3>2 DEF RefreshSteps, SaveRollup, Continue, Goto
    <3>3. QED
      BY <1>1, <3>1, <3>2 DEF RefreshSteps
  <2>2. QED
    BY <2>1 DEF SaveRollup, At, Stage, Refreshing, Issuing
<1>2. CASE ~RefreshSteps(w)
  <2>1. Stage(w) = pc[w]
    BY <1>2, ServeSteps DEF Stage
  <2>2. ~ConsumeSave(w) /\ ~RestoreSave(w)
    BY <1>0, RowSaves, NotRefused DEF RowSaved
  <2>3. ~ConsumeFind(w) /\ ~RestoreFind(w) /\ ~SaveLine(w)
    BY <1>0 DEF ConsumeFind, RestoreFind, SaveLine, Continue, Goto
  <2>4. pc[w] \notin Issuing
    BY <1>2, <2>2, <2>3 DEF Issuing, Serve, SaveConfirmed, ReserveOpen, ReserveFind,
       ReserveBalance,
       ReserveSum, ReserveCreate, BackorderLine, UndoConfirm, SaveCancelled, ReleaseFind, ReleaseSave,
       ReadEvent, ReadLine, StockCheck, Post, ReadLines, SaveOrder, CreateEvent, MarkEvent, DropFind,
       DropSave, RefreshSteps, At
  <2>5. QED
    BY <2>1, <2>4
<1>3. QED
  BY <1>1, <1>2

\* The steps that neither read, check, post nor write a line stay within a stage.
LEMMA IssuingKept ==
  ASSUME TInv, NEW w \in Workers, Route(w), Serve(w), ~Answer(w), Rows(w),
         ~ReadLine(w), ~StockCheck(w), ~Post(w), ~SaveLine(w)
  PROVE  /\ Stage(w)' \in Issuing <=> Stage(w) \in Issuing
         /\ Stage(w)' \notin {"stock_check", "post"}
<1>0. /\ pc \in [Workers -> Step] /\ seen \in [Workers -> Snapshot]
      /\ req[w].op \in {"confirm", "cancel", "post", "reverse", "rebuild"}
  BY DEF TInv, TypeOK, Request
<1>1. Route(w)' /\ req' = req
  BY RouteServe, ServeKeeps DEF Kept
<1>2. CASE req[w].op \in {"confirm", "cancel", "rebuild"}
  <2>1. /\ Stage(w) \in StepsOf("confirm") \cup StepsOf("cancel") \cup StepsOf("rebuild")
        /\ Stage(w)' \in StepsOf("confirm") \cup StepsOf("cancel") \cup StepsOf("rebuild")
    BY <1>1, <1>2 DEF Route
  <2>2. QED
    BY <2>1 DEF StepsOf, Issuing, Reserves, Releases
<1>3. CASE RefreshSteps(w)
  <2>1. Stage(w)' = Stage(w)
    BY <1>3, StageKept
  <2>2. pc[w] \in Refreshing
    BY <1>3 DEF RefreshSteps, SumReserved, SumLedger, ReadRollup, SaveRollup, At, Refreshing
  <2>3. QED
    BY <2>1, <2>2 DEF Route, Stage, Returns
<1>4. CASE ReadEvent(w) \/ ReadLines(w) \/ SaveOrder(w) \/ CreateEvent(w) \/ DropFind(w)
  <2>1. /\ pc[w] \in {"read_event", "read_lines", "save_order", "create_event", "drop_find"}
        /\ pc'[w] \in {"read_line", "save_order", "create_event", "mark_event", "drop_find", "drop_save"}
    BY <1>0, <1>4 DEF ReadEvent, ReadLines, SaveOrder, CreateEvent, DropFind, At, Continue, Goto
  <2>2. QED
    BY <2>1 DEF Stage, Refreshing, Issuing
<1>5. CASE ConsumeFind(w) \/ RestoreFind(w)
  <2>1. /\ pc[w] \in {"consume_find", "restore_find"}
        /\ pc'[w] \in {"consume_save", "restore_save", "save_line"}
    BY <1>0, <1>5 DEF ConsumeFind, RestoreFind, At, Continue, Goto
  <2>2. QED
    BY <2>1 DEF Stage, Refreshing, Issuing
<1>6. CASE ConsumeSave(w) \/ RestoreSave(w) \/ DropSave(w)
  <2>1. RowSaved(w)
    BY <1>6, RowSaves, NotRefused
  <2>2. pc[w] \in {"consume_save", "restore_save", "drop_save"}
    BY <1>6 DEF ConsumeSave, RestoreSave, DropSave, At
  <2>3. QED
    BY <2>1, <2>2 DEF RowSaved, Stage, Refreshing, Issuing
<1>7. CASE req[w].op \in {"post", "reverse"}
  <2>1. /\ ~SaveConfirmed(w) /\ ~ReserveOpen(w) /\ ~ReserveFind(w) /\ ~ReserveBalance(w)
        /\ ~ReserveSum(w) /\ ~ReserveCreate(w) /\ ~BackorderLine(w) /\ ~UndoConfirm(w)
    BY <1>7, Here DEF SaveConfirmed, ReserveOpen, ReserveFind, ReserveBalance, ReserveSum,
       ReserveCreate,
       BackorderLine, UndoConfirm, At, Reserves
  <2>2. ~SaveCancelled(w) /\ ~ReleaseFind(w) /\ ~ReleaseSave(w)
    BY <1>7, Here DEF SaveCancelled, ReleaseFind, ReleaseSave, At, Releases
  <2>3. ~MarkEvent(w)
    BY DEF MarkEvent
  <2>4. QED
    BY <1>3, <1>4, <1>5, <1>6, <2>1, <2>2, <2>3 DEF Serve, RefreshSteps
<1>8. QED
  BY <1>0, <1>2, <1>7

\* What a request may book depends on the request and the line.
LEMMA FitsKept ==
  ASSUME NEW w \in Workers, UNCHANGED req, NEW l
  PROVE  Fits(w, l)' <=> Fits(w, l)
  BY DEF Fits, Open, Booked

\* Reading the line.
LEMMA BookingReadLine ==
  ASSUME TInv, NEW w \in Workers, Route(w), Balanced(w), LinesAgree(w), Booking(w),
         ReadLine(w), ~Answer(w)
  PROVE  LinesAgree(w)' /\ Booking(w)'
<1>0. /\ pc \in [Workers -> Step] /\ seen \in [Workers -> Snapshot]
      /\ req[w].kind \in PostingKinds
  BY DEF TInv, TypeOK, Request
<1>1. PICK o : o = req[w].order
  OBVIOUS
<1>2. /\ pc[w] = "read_line" /\ req' = req /\ line' = line /\ ledger' = ledger
      /\ Fits(w, line[o]) /\ seen'[w].line = line[o]
      /\ pc'[w] \in {"save_line", "stock_check", "post"}
      /\ req[w].kind # "ship" => pc'[w] = "save_line"
      /\ req[w].kind = "ship" => pc'[w] # "save_line"
      /\ pc'[w] = "post" => req[w].op # "post"
  BY <1>0, <1>1 DEF ReadLine, At, Continue, Goto, docs, Snapshot
<1>3. \A x \in Orders : Ahead(w, x) = 0 /\ Ahead(w, x)' = 0
  BY <1>2 DEF Ahead, Stage, Refreshing, Issuing
<1>4. LinesAgree(w)'
  BY <1>2, <1>3 DEF LinesAgree
<1>5. Fits(w, line[o])'
  <2>1. PICK l : l = line[o]
    OBVIOUS
  <2>2. Fits(w, l)'
    BY <1>2, <2>1, FitsKept
  <2>3. o' = o /\ line[o]' = l
    BY <1>2, <2>1
  <2>4. QED
    BY <2>2, <2>3 DEF Fits, Open, Booked
<1>6. QED
  BY <1>1, <1>2, <1>4, <1>5 DEF Booking

\* The stock check lets a posting go on only if the goods are there.
LEMMA BookingStockCheck ==
  ASSUME TInv, NEW w \in Workers, Route(w), Balanced(w), LinesAgree(w), Booking(w),
         StockCheck(w), ~Answer(w)
  PROVE  LinesAgree(w)' /\ Booking(w)'
<1>0. /\ pc \in [Workers -> Step] /\ req[w].qty \in Nat /\ OnHand \in Int
  BY SumsAreInts DEF TInv, TypeOK, Request
<1>2. /\ pc[w] = "stock_check" /\ req' = req /\ line' = line /\ ledger' = ledger
      /\ seen' = seen /\ pc'[w] = "post" /\ ~(rollup.onHand - req[w].qty < 0)
  BY <1>0 DEF StockCheck, At, Continue, Goto, docs
<1>3. \A x \in Orders : Ahead(w, x) = 0 /\ Ahead(w, x)' = 0
  BY <1>2 DEF Ahead, Stage, Refreshing, Issuing
<1>4. LinesAgree(w)'
  BY <1>2, <1>3 DEF LinesAgree
<1>5. OnHand' = OnHand /\ rollup.onHand = OnHand
  BY <1>2, SumsKept DEF Balanced, Refreshing, Accurate
<1>6. req[w].qty <= OnHand
  BY <1>0, <1>2, <1>5
<1>7. Stage(w) = "stock_check"
  BY <1>2 DEF Stage, Refreshing
<1>8. QED
  BY <1>2, <1>4, <1>5, <1>6, <1>7, FitsKept DEF Booking

\* The ledger entry.
LEMMA BookingPost ==
  ASSUME TInv, NEW w \in Workers, Route(w), LinesAgree(w), Booking(w), Post(w)
  PROVE  LinesAgree(w)' /\ Booking(w)'
<1>0. /\ pc \in [Workers -> Step] /\ seen \in [Workers -> Snapshot] /\ req[w].order \in Orders
      /\ ledger \in [Orders -> Int] /\ req[w].qty \in Nat /\ line \in [Orders -> Line]
  BY DEF TInv, TypeOK, Request
<1>1. PICK o \in Orders : o = req[w].order
  BY <1>0
<1>2. /\ pc[w] = "post" /\ req' = req /\ line' = line
      /\ ledger' = [ledger EXCEPT ![o] = @ + Delta(w)]
      /\ seen'[w].line = seen[w].line /\ pc'[w] = "sum_ledger"
      /\ seen'[w].then \in {"consume_find", "restore_find"}
  BY <1>0, <1>1 DEF Post, At, Continue, Goto, Snapshot
<1>3. Stage(w) = "post" /\ Stage(w)' \in Issuing /\ req[w].kind = "ship"
  BY <1>2, Here DEF Stage, Refreshing, Issuing, Shipping
<1>4. Delta(w) \in Int /\ Delta(w)' = Delta(w)
  BY <1>0, <1>2 DEF Delta
<1>5. \A x \in Orders : Ahead(w, x) = 0 /\ Ahead(w, x)' = IF x = o THEN Delta(w) ELSE 0
  BY <1>1, <1>2, <1>3, <1>4 DEF Ahead, Issuing
<1>6. LinesAgree(w)'
  <2>1. SUFFICES ASSUME NEW x \in Orders
                 PROVE  line'[x].cancelled >= 0 /\ line'[x].fulfilled + ledger'[x] = Ahead(w, x)'
    BY DEF LinesAgree
  <2>2. line[x].cancelled >= 0 /\ line[x].fulfilled + ledger[x] = 0
    BY <1>5 DEF LinesAgree
  <2>3. line[x].fulfilled \in Int /\ ledger[x] \in Int
    BY <1>0 DEF Line
  <2>4. ledger'[x] = IF x = o THEN ledger[x] + Delta(w) ELSE ledger[x]
    BY <1>0, <1>2
  <2>5. Ahead(w, x)' = IF x = o THEN Delta(w) ELSE 0
    BY <1>5
  <2>6. PICK d \in Int : d = Delta(w)
    BY <1>4
  <2>7. line' = line
    BY <1>2
  <2>8. QED
    BY <2>2, <2>3, <2>4, <2>5, <2>6, <2>7
<1>7. QED
  BY <1>2, <1>3, <1>6, FitsKept DEF Booking

\* The line.
LEMMA BookingSaveLine ==
  ASSUME TInv, NEW w \in Workers, Route(w), LinesAgree(w), Booking(w), SaveLine(w)
  PROVE  LinesAgree(w)' /\ Booking(w)'
<1>0. /\ pc \in [Workers -> Step] /\ req[w].order \in Orders /\ req[w].kind \in PostingKinds
      /\ ledger \in [Orders -> Int] /\ req[w].qty \in Nat /\ line \in [Orders -> Line]
  BY DEF TInv, TypeOK, Request
<1>1. PICK o \in Orders : o = req[w].order
  BY <1>0
<1>2. PICK q : q = IF req[w].op = "post" THEN req[w].qty ELSE -req[w].qty
  OBVIOUS
<1>3. /\ pc[w] = "save_line" /\ req' = req /\ ledger' = ledger /\ seen' = seen
      /\ pc'[w] = "read_lines" /\ req[w].op \in {"post", "reverse"}
  BY <1>0, Here DEF SaveLine, At, Continue, Goto, Books
<1>4. Stage(w) = "save_line" /\ Stage(w)' = "read_lines"
  BY <1>3 DEF Stage, Refreshing
<1>5. PICK l \in Line : l = line[o] /\ seen[w].line = l /\ Fits(w, l)
  BY <1>0, <1>1, <1>3, <1>4 DEF Booking, Issuing
<1>6. PICK k \in Line :
        k = CASE req[w].kind = "ship" -> [l EXCEPT !.fulfilled = l.fulfilled + q]
              [] req[w].kind = "drop" -> [l EXCEPT !.cancelled = l.cancelled + q]
              [] req[w].kind = "backorder" -> [l EXCEPT !.backordered = l.backordered + q]
  <2>1. q \in Int
    BY <1>0, <1>2
  <2>2. l.fulfilled + q \in Int /\ l.cancelled + q \in Int /\ l.backordered + q \in Int
    BY <2>1 DEF Line
  <2>3. QED
    BY <1>0, <2>2 DEF Line, PostingKinds
<1>7. line' = [line EXCEPT ![o] = k]
  BY <1>0, <1>1, <1>2, <1>5, <1>6 DEF SaveLine
<1>8. \A x \in Orders :
        /\ Ahead(w, x) = IF x = o /\ req[w].kind = "ship" THEN -q ELSE 0
        /\ Ahead(w, x)' = 0
  <2>1. Delta(w) = -q
    BY <1>0, <1>2 DEF Delta
  <2>2. QED
    BY <1>1, <1>4, <2>1 DEF Ahead, Issuing
<1>9. /\ l.cancelled >= 0 /\ l.fulfilled + ledger[o] = Ahead(w, o)
      /\ l.cancelled \in Int /\ l.fulfilled \in Int /\ ledger[o] \in Int
  BY <1>0, <1>5 DEF LinesAgree, Line
<1>10. k.cancelled >= 0
  <2>1. CASE req[w].kind # "drop"
    BY <1>0, <1>6, <1>9, <2>1 DEF PostingKinds, Line
  <2>2. CASE req[w].kind = "drop"
    <3>1. k.cancelled = l.cancelled + q
      BY <1>6, <2>2 DEF Line
    <3>2. req[w].op = "reverse" => req[w].qty <= l.cancelled
      BY <1>5, <2>2 DEF Fits, Booked
    <3>3. QED
      BY <1>0, <1>2, <1>3, <1>9, <3>1, <3>2
  <2>3. QED
    BY <2>1, <2>2
<1>11. k.fulfilled + ledger[o] = 0
  <2>1. CASE req[w].kind = "ship"
    <3>1. k.fulfilled = l.fulfilled + q /\ q \in Int
      BY <1>0, <1>2, <1>6, <2>1 DEF Line
    <3>2. l.fulfilled + ledger[o] = -q
      BY <1>8, <1>9, <2>1
    <3>3. QED
      BY <1>9, <3>1, <3>2
  <2>2. CASE req[w].kind # "ship"
    <3>1. k.fulfilled = l.fulfilled
      BY <1>0, <1>6, <2>2 DEF Line, PostingKinds
    <3>2. QED
      BY <1>8, <1>9, <2>2, <3>1
  <2>3. QED
    BY <2>1, <2>2
<1>12. LinesAgree(w)'
  <2>1. SUFFICES ASSUME NEW x \in Orders
                 PROVE  line'[x].cancelled >= 0 /\ line'[x].fulfilled + ledger'[x] = Ahead(w, x)'
    BY DEF LinesAgree
  <2>2. CASE x = o
    BY <1>0, <1>3, <1>7, <1>8, <1>10, <1>11, <2>2
  <2>3. CASE x # o
    BY <1>0, <1>3, <1>7, <1>8, <2>3 DEF LinesAgree
  <2>4. QED
    BY <2>2, <2>3
<1>13. QED
  BY <1>3, <1>4, <1>12 DEF Booking, Issuing

\* A step keeps lines and ledger in agreement.
LEMMA BookingServe ==
  ASSUME TInv, NEW w \in Workers, Route(w), Rows(w), Balanced(w), LinesAgree(w), Booking(w),
         Quantities, Serve(w)
  PROVE  LinesAgree(w)' /\ Booking(w)' /\ Quantities'
<1>0. /\ pc \in [Workers -> Step] /\ req[w] \in Request /\ events \in Seq(Event)
      /\ line \in [Orders -> Line] /\ seen[w] \in Snapshot
  BY DEF TInv, TypeOK
<1>1. Quantities'
  <2>1. CASE CreateEvent(w)
    <3>1. PICK e : e = [order |-> req[w].order, kind |-> req[w].kind, qty |-> req[w].qty,
                        status |-> "posted"]
      OBVIOUS
    <3>2. e \in Event /\ events' = Append(events, e)
      BY <1>0, <2>1, <3>1 DEF CreateEvent, Event, Request
    <3>3. req[w].qty >= 1
      BY <2>1, Here DEF CreateEvent, At, Books, Booking
    <3>4. ASSUME NEW i \in DOMAIN events' PROVE events'[i].qty >= 1
      <4>1. i \in 1 .. Len(events) + 1 /\ DOMAIN events = 1 .. Len(events) /\ Len(events) \in Nat
        BY <1>0, <3>2, <3>4, AppendProperties, LenProperties
      <4>2. CASE i = Len(events) + 1
        <5>1. events'[i] = e
          BY <1>0, <3>2, <4>2, AppendProperties
        <5>2. QED
          BY <3>1, <3>3, <5>1
      <4>3. CASE i # Len(events) + 1
        <5>1. i \in 1 .. Len(events)
          BY <4>1, <4>3
        <5>2. events'[i] = events[i]
          BY <1>0, <3>2, <5>1, AppendProperties
        <5>3. QED
          BY <4>1, <5>1, <5>2 DEF Quantities
      <4>4. QED
        BY <4>2, <4>3
    <3>5. QED
      BY <3>4 DEF Quantities
  <2>2. CASE MarkEvent(w)
    <3>1. events' = [events EXCEPT ![req[w].event].status = "reversed"]
      BY <2>2 DEF MarkEvent
    <3>2. ASSUME NEW i \in DOMAIN events' PROVE events'[i].qty >= 1
      <4>1. i \in DOMAIN events
        BY <3>1, <3>2
      <4>2. events[i] \in Event /\ events[i].qty >= 1
        BY <1>0, <4>1, ElementOfSeq, LenProperties DEF Quantities
      <4>3. events'[i].qty = events[i].qty
        BY <3>1, <4>1, <4>2 DEF Event
      <4>4. QED
        BY <4>2, <4>3
    <3>3. QED
      BY <3>2 DEF Quantities
  <2>3. CASE events' = events
    BY <2>3 DEF Quantities
  <2>4. QED
    BY <2>1, <2>2, <2>3, ServeFrame
<1>2. CASE Answer(w)
  <2>1. \A x \in Orders : Ahead(w, x) = 0
    BY <1>2, IssuingGoesOn DEF Ahead
  <2>2. /\ pc'[w] = "idle" /\ req'[w] = NoRequest /\ Stage(w)' = "idle"
    BY <1>2, RouteAnswer DEF Stage, Refreshing
  <2>3. \A x \in Orders : Ahead(w, x)' = 0
    BY <2>2 DEF Ahead, Issuing
  <2>4. ledger' = ledger /\ ~SaveLine(w)
    <3>1. ~Post(w) /\ ~SaveLine(w)
      BY <1>0, <2>2 DEF Post, SaveLine, Continue, Goto
    <3>2. QED
      BY <3>1, ServeFrame
  <2>5. \A x \in Orders : line'[x].cancelled = line[x].cancelled /\ line'[x].fulfilled = line[x].fulfilled
    <3>1. CASE line' = line
      BY <3>1
    <3>2. CASE BackorderLine(w)
      BY <1>0, <3>2 DEF BackorderLine, Line, Request
    <3>3. QED
      BY <2>4, <3>1, <3>2, ServeFrame
  <2>6. LinesAgree(w)'
    BY <2>1, <2>3, <2>4, <2>5 DEF LinesAgree
  <2>7. Booking(w)'
    BY <2>2, Blank DEF Booking
  <2>8. QED
    BY <1>1, <2>6, <2>7
<1>3. CASE ~Answer(w) /\ ~ReadLine(w) /\ ~StockCheck(w) /\ ~Post(w) /\ ~SaveLine(w)
  <2>1. /\ Stage(w)' \in Issuing <=> Stage(w) \in Issuing
        /\ Stage(w)' \notin {"stock_check", "post"}
    BY <1>3, IssuingKept
  <2>2. req' = req /\ line' = line /\ ledger' = ledger
    BY <1>3, ServeKeeps, ServeFrame DEF Kept, BackorderLine
  <2>3. \A x \in Orders : Ahead(w, x)' = Ahead(w, x)
    BY <2>1, <2>2 DEF Ahead, Delta
  <2>4. LinesAgree(w)'
    BY <2>2, <2>3 DEF LinesAgree
  <2>5. req[w].op \in {"post", "reverse"} => seen'[w].line = seen[w].line
    <3>1. req[w].op \in {"post", "reverse"} => ~ReserveOpen(w)
      BY Here DEF ReserveOpen, At, Reserves
    <3>2. QED
      BY <1>3, <3>1, ServeKeeps DEF Kept
  <2>6. pc'[w] # "post"
    BY <2>1 DEF Stage, Refreshing
  <2>7. QED
    BY <1>1, <2>1, <2>2, <2>4, <2>5, <2>6, FitsKept DEF Booking
<1>4. QED
  BY <1>1, <1>2, <1>3, BookingReadLine, BookingStockCheck, BookingPost, BookingSaveLine

\* An order that is closed reserves nothing, but for the rows its cancellation is going to
\* release.
Closing(w) ==
    LET o == req[w].order IN
    /\ Stage(w) = "release_save" => \A r \in ActiveRows(o) : r.id \in seen[w].rows
    /\ \A x \in Orders : order[x] \in {"Draft", "Cancelled"} =>
         \/ ActiveRows(x) = {}
         \/ x = o /\ req[w].op = "cancel" /\ Stage(w) \in Releases

\* At first nothing is reserved.
LEMMA ClosingInit == Init => \A w \in Workers : Closing(w)
<1>1. Init => TypeOK
  BY TypesInit DEF TInv
<1>2. QED
  BY <1>1, NoRows, Blank DEF Init, Closing, Stage, Refreshing

\* What is active depends on the reservations alone.
LEMMA ActiveRowsKept ==
  ASSUME NEW x, resv'[x] = resv[x] PROVE ActiveRows(x)' = ActiveRows(x)
  BY DEF ActiveRows, Range, Active

\* A request that arrives leaves order and reservations as they are.
LEMMA ClosingArrival ==
  ASSUME TInv, NEW w \in Workers, Closing(w), Arrived(w)
  PROVE  Closing(w)'
<1>1. Stage(w)' # "release_save"
  <2>1. seen'[w].then = "idle"
    BY Blank DEF Arrived, Snapshot
  <2>2. QED
    BY <2>1 DEF Arrived, Stage, Refreshing
<1>2. Stage(w) = "idle" /\ order' = order /\ resv' = resv
  BY DEF Arrived, Stage, docs, Refreshing
<1>3. QED
  BY <1>1, <1>2, ActiveRowsKept DEF Closing, Releases

\* A release takes the row it cancels from those that are active.
LEMMA ActiveRowsReleased ==
  ASSUME TInv, NEW o \in Orders, NEW r \in Reservation, r.id \in Ids(o), ~Active(r),
         resv' = Saved(o, r)
  PROVE  /\ \A x \in ActiveRows(o)' : x \in ActiveRows(o) /\ x.id # r.id
         /\ \A x \in Orders : x # o => resv'[x] = resv[x]
<1>1. PICK p \in DOMAIN resv[o] : /\ resv[o][p].id = r.id
                                  /\ Moved(resv'[o], resv[o], p, r)
  BY SavedRows DEF TInv
<1>2. resv' \in [Orders -> Seq(Reservation)] /\ \A x \in Orders : x # o => resv'[x] = resv[x]
  BY SavedRows DEF TInv
<1>3. PICK s \in Seq(Reservation) : s = resv[o] /\ Distinct(s)
  BY DEF TInv, TypeOK, Numbered, Distinct
<1>4. PICK t \in Seq(Reservation) : t = resv'[o]
  BY <1>2
<1>5. PICK n \in Nat : n = Len(s) /\ DOMAIN s = 1 .. n /\ DOMAIN t = 1 .. n
  BY <1>1, <1>3, <1>4, LenProperties DEF Moved
<1>6. ASSUME NEW x \in ActiveRows(o)' PROVE x \in ActiveRows(o) /\ x.id # r.id
  <2>1. PICK i \in 1 .. n : x = t[i] /\ Active(x)
    BY <1>4, <1>5, <1>6 DEF ActiveRows, Range, Active
  <2>2. i # n
    BY <1>1, <1>3, <1>4, <1>5, <2>1 DEF Moved
  <2>3. PICK j \in 1 .. n : j = IF i < p THEN i ELSE i + 1
    BY <1>5, <2>1, <2>2
  <2>4. j # p /\ x = s[j]
    BY <1>1, <1>3, <1>4, <1>5, <2>1, <2>2, <2>3 DEF Moved
  <2>5. x.id # r.id
    BY <1>1, <1>3, <1>5, <2>4 DEF Distinct
  <2>6. QED
    BY <1>3, <1>5, <2>1, <2>4, <2>5 DEF ActiveRows, Range, Active
<1>7. QED
  BY <1>2, <1>6

\* A step that closes an order is followed by the release of what it reserves.
LEMMA ClosingServe ==
  ASSUME TInv, NEW w \in Workers, Route(w), Ordered(w), Rows(w), Closing(w), Serve(w)
  PROVE  Closing(w)'
<1>0. /\ pc \in [Workers -> Step] /\ seen \in [Workers -> Snapshot] /\ req[w] \in Request
      /\ order \in [Orders -> OrderStatus] /\ resv \in [Orders -> Seq(Reservation)] /\ TypeOK
  BY DEF TInv, TypeOK
<1>1. PICK o \in Orders : o = req[w].order
  BY <1>0 DEF Request
<1>2. Route(w)' /\ Rows(w)' /\ ~RowRefused(w)
  BY RouteServe, RowsServe, NotRefused
<1>3. CASE Answer(w)
  <2>1. pc'[w] = "idle" /\ req'[w] = NoRequest /\ Stage(w)' = "idle"
    BY <1>3, RouteAnswer DEF Stage, Refreshing
  <2>2. resv' = resv
    <3>1. ~ReserveCreate(w) \/ resv' = resv
      BY <1>0, <2>1 DEF ReserveCreate, Refresh, Goto
    <3>2. QED
      BY <1>2, <2>1, <3>1, ServeFrame, RowSaves DEF RowSaved
  <2>3. ASSUME Stage(w) \in Releases, req[w].op = "cancel" PROVE ActiveRows(o) = {}
    <3>1. CASE RefreshSteps(w)
      <4>1. ~SumReserved(w) /\ ~SumLedger(w) /\ ~ReadRollup(w)
        BY <1>0, <2>1 DEF SumReserved, SumLedger, ReadRollup, Continue, Goto
      <4>2. seen[w].then = "idle" /\ pc[w] \in Refreshing
        BY <1>0, <2>1, <3>1, <4>1 DEF RefreshSteps, SaveRollup, Continue, Goto, At, Refreshing
      <4>3. QED
        BY <2>3, <4>2 DEF Stage, Releases
    <3>2. CASE ~RefreshSteps(w)
      <4>1. pc[w] \in Releases
        BY <2>3, <3>2, ServeSteps DEF Stage
      <4>2. ReleaseFind(w)
        BY <1>2, <2>1, <3>2, <4>1, RowSaves DEF Releases, RowSaved, Serve, SaveConfirmed,
           ReserveOpen,
           ReserveFind, ReserveBalance, ReserveSum, ReserveCreate, BackorderLine, UndoConfirm,
           SaveCancelled, ReadEvent, ReadLine, StockCheck, Post, ConsumeFind, ConsumeSave, RestoreFind,
           RestoreSave, SaveLine, ReadLines, SaveOrder, CreateEvent, MarkEvent, DropFind, DropSave,
           RefreshSteps, At
      <4>3. PICK rows : rows = {r.id : r \in ActiveRows(o)}
        OBVIOUS
      <4>4. rows = {}
        BY <1>0, <1>1, <2>1, <4>2, <4>3 DEF ReleaseFind, Continue, Goto
      <4>5. QED
        BY <4>3, <4>4
    <3>3. QED
      BY <3>1, <3>2
  <2>4. \A x \in Orders : order[x] \in {"Draft", "Cancelled"} => ActiveRows(x) = {}
    BY <1>1, <2>3 DEF Closing
  <2>5. ASSUME NEW x \in Orders, order'[x] \in {"Draft", "Cancelled"} PROVE ActiveRows(x)' = {}
    <3>1. CASE order' = order
      BY <2>2, <2>4, <2>5, <3>1, ActiveRowsKept
    <3>2. CASE UndoConfirm(w)
      <4>1. pc[w] = "undo_save" /\ order' = [order EXCEPT ![o] = "Draft"]
        BY <1>1, <3>2 DEF UndoConfirm, At
      <4>2. resv[o] = <<>>
        BY <1>1, <4>1, Here DEF Rows, Stage, Refreshing, Unreserved
      <4>3. ActiveRows(o) = {}
        BY <1>0, <1>1, <4>2, NoRows
      <4>4. ActiveRows(x) = {}
        BY <1>0, <1>1, <2>4, <2>5, <4>1, <4>3
      <4>5. QED
        BY <2>2, <4>4, ActiveRowsKept
    <3>3. ~SaveConfirmed(w) /\ ~SaveCancelled(w) /\ ~SaveOrder(w)
      BY <1>0, <2>1 DEF SaveConfirmed, SaveCancelled, SaveOrder, Continue, Goto
    <3>4. QED
      BY <3>1, <3>2, <3>3, ServeFrame
  <2>6. QED
    BY <2>1, <2>5 DEF Closing
\* The order's own status changes, or it is another that is closed.
<1>91. ASSUME req' = req, Stage(w)' # "release_save",
             \A x \in Orders : x # o => order'[x] = order[x] /\ resv'[x] = resv[x],
             \/ order'[o] \notin {"Draft", "Cancelled"}
             \/ req[w].op = "cancel" /\ Stage(w)' \in Releases
      PROVE  Closing(w)'
  <2>1. SUFFICES ASSUME NEW x \in Orders, order'[x] \in {"Draft", "Cancelled"}, x # o
                 PROVE  ActiveRows(x)' = {}
    BY <1>1, <1>91 DEF Closing
  <2>2. order[x] = order'[x] /\ ActiveRows(x)' = ActiveRows(x)
    BY <1>91, <2>1, ActiveRowsKept
  <2>3. QED
    BY <1>1, <2>1, <2>2 DEF Closing
<1>4. CASE SaveConfirmed(w)
  <2>1. /\ req' = req /\ resv' = resv /\ pc'[w] = "reserve_open"
        /\ order' = [order EXCEPT ![o] = "Confirmed"]
    BY <1>0, <1>1, <1>4 DEF SaveConfirmed, Continue, Goto
  <2>2. Stage(w)' # "release_save"
    BY <2>1 DEF Stage, Refreshing
  <2>3. QED
    BY <1>0, <1>91, <2>1, <2>2
<1>5. CASE SaveCancelled(w)
  <2>1. /\ req' = req /\ resv' = resv /\ pc'[w] = "release_find" /\ req[w].op = "cancel"
        /\ order' = [order EXCEPT ![o] = "Cancelled"]
    BY <1>0, <1>1, <1>5, Here DEF SaveCancelled, At, Continue, Goto
  <2>2. Stage(w)' = "release_find"
    BY <2>1 DEF Stage, Refreshing
  <2>3. QED
    BY <1>0, <1>91, <2>1, <2>2 DEF Releases
<1>6. CASE SaveOrder(w)
  <2>1. /\ req' = req /\ resv' = resv /\ pc'[w] = "create_event" /\ pc[w] = "save_order"
        /\ order' = IF seen[w].next = seen[w].status THEN order
                    ELSE [order EXCEPT ![o] = seen[w].next]
    BY <1>0, <1>1, <1>6 DEF SaveOrder, Continue, Goto, At
  <2>2. Stage(w)' # "release_save"
    BY <2>1 DEF Stage, Refreshing
  <2>3. order[o] \in Fulfillable /\ seen[w].next \in Fulfillable
    BY <1>1, <2>1, Here DEF Ordered, Books
  <2>4. order'[o] \in Fulfillable
    BY <1>0, <2>1, <2>3
  <2>5. QED
    BY <1>0, <1>91, <2>1, <2>2, <2>4 DEF Fulfillable
<1>7. CASE ReserveCreate(w) /\ resv' # resv
  <2>1. /\ req' = req /\ order' = order /\ pc[w] = "reserve_create" /\ pc'[w] = "sum_reserved"
        /\ seen'[w].then \in {"backorder_line", "idle"}
        /\ \A x \in Orders : x # o => resv'[x] = resv[x]
    BY <1>0, <1>1, <1>7 DEF ReserveCreate, Refresh, Goto, At, Snapshot
  <2>2. Stage(w)' # "release_save"
    BY <2>1 DEF Stage, Refreshing
  <2>3. order[o] = "Confirmed"
    BY <1>1, <2>1, Here DEF Ordered, Reserves
  <2>4. QED
    BY <1>91, <2>1, <2>2, <2>3
<1>8. CASE ConsumeSave(w) \/ RestoreSave(w) \/ DropSave(w)
  <2>1. RowSaved(w) /\ pc[w] \in Saving
    BY <1>2, <1>8, RowSaves DEF ConsumeSave, RestoreSave, DropSave, At, Saving
  <2>2. PICK r \in Reservation : r.id \in Ids(o) /\ resv' = Saved(o, r)
    BY <1>1, <2>1 DEF RowSaved
  <2>3. \A x \in Orders : x # o => resv'[x] = resv[x]
    BY <1>0, <2>2, SavedRows
  <2>4. Stage(w)' \in {"save_line", "idle"}
    BY <2>1 DEF RowSaved, Stage, Refreshing, Saving
  <2>5. order[o] \in Fulfillable
    BY <1>1, <2>1, Here DEF Ordered, Saving
  <2>6. QED
    BY <1>91, <2>1, <2>3, <2>4, <2>5 DEF RowSaved, Fulfillable
<1>9. CASE ReleaseSave(w)
  <2>1. PICK id \in seen[w].rows :
          /\ resv' = Saved(o, [RowById(o, id) EXCEPT !.status = "cancelled"])
          /\ seen' = [seen EXCEPT ![w].rows = seen[w].rows \ {id},
                ![w].then = IF seen[w].rows \ {id} = {} THEN AfterRelease(w) ELSE "release_save"]
    BY <1>1, <1>9 DEF ReleaseSave
  <2>2. id \in Ids(o)
    BY <1>1 DEF TInv, Loaded
  <2>3. RowById(o, id) \in Reservation /\ RowById(o, id).id = id
    BY <1>0, <2>2, RowOfId
  <2>4. PICK r : r = [RowById(o, id) EXCEPT !.status = "cancelled"]
    OBVIOUS
  <2>5. r \in Reservation /\ r.id = id /\ ~Active(r)
    BY <2>3, <2>4 DEF Reservation, ReservationStatus, Active, ActiveStatus
  <2>6. /\ \A x \in ActiveRows(o)' : x \in ActiveRows(o) /\ x.id # id
        /\ \A x \in Orders : x # o => resv'[x] = resv[x]
    BY <2>1, <2>2, <2>4, <2>5, ActiveRowsReleased
  <2>7. /\ req' = req /\ order' = order /\ pc[w] = "release_save" /\ pc'[w] = "sum_reserved"
    BY <1>0, <1>9 DEF ReleaseSave, At, Continue, Goto
  <2>8. Stage(w) = "release_save" /\ Stage(w)' = seen'[w].then
    BY <2>7 DEF Stage, Refreshing
  <2>9. \A x \in ActiveRows(o) : x.id \in seen[w].rows
    BY <1>1, <2>8 DEF Closing
  <2>10. \A x \in ActiveRows(o)' : x.id \in seen[w].rows \ {id}
    BY <2>6, <2>9
  <2>11. req[w].op = "cancel"
    <3>1. ASSUME req[w].op = "confirm" PROVE FALSE
      BY <1>0, <1>1, <2>2, <2>8, <3>1, NoRows DEF Rows, Unreserved, Releases
    <3>2. QED
      BY <2>7, <3>1, Here DEF Releases
  <2>12. CASE seen[w].rows \ {id} = {}
    <3>1. ActiveRows(o)' = {}
      BY <2>10, <2>12
    <3>2. Stage(w)' = "idle"
      BY <1>0, <2>1, <2>8, <2>11, <2>12 DEF AfterRelease, Snapshot
    <3>3. SUFFICES ASSUME NEW x \in Orders, order'[x] \in {"Draft", "Cancelled"}
                   PROVE  ActiveRows(x)' = {}
      BY <3>2 DEF Closing
    <3>4. CASE x = o
      BY <3>1, <3>4
    <3>5. CASE x # o
      BY <1>1, <2>6, <2>7, <3>3, <3>5, ActiveRowsKept DEF Closing
    <3>6. QED
      BY <3>4, <3>5
  <2>13. CASE seen[w].rows \ {id} # {}
    <3>1. seen'[w].rows = seen[w].rows \ {id} /\ Stage(w)' = "release_save"
      BY <1>0, <2>1, <2>8, <2>13 DEF Snapshot
    <3>2. \A x \in ActiveRows(req[w].order)' : x.id \in seen'[w].rows
      BY <1>1, <2>7, <2>10, <3>1
    <3>3. ASSUME NEW x \in Orders, order'[x] \in {"Draft", "Cancelled"}, x # o
          PROVE  ActiveRows(x)' = {}
      BY <1>1, <2>6, <2>7, <3>3, ActiveRowsKept DEF Closing
    <3>4. \A x \in ActiveRows(o)' : x.id \in seen'[w].rows
      BY <2>10, <3>1
    <3>5. req'[w].order = o /\ req'[w].op = "cancel"
      BY <1>1, <2>7, <2>11
    <3>6. QED
      BY <1>1, <3>1, <3>3, <3>4, <3>5 DEF Closing, Releases
  <2>14. QED
    BY <2>12, <2>13
<1>10. CASE ~Answer(w) /\ ReleaseFind(w)
  <2>1. PICK rows : rows = {r.id : r \in ActiveRows(o)}
    OBVIOUS
  <2>2. /\ req' = req /\ order' = order /\ resv' = resv /\ pc[w] = "release_find"
        /\ \/ pc'[w] = "release_save" /\ seen'[w].rows = rows
           \/ pc'[w] = "undo_save" /\ rows = {} /\ req[w].op = "confirm"
    BY <1>0, <1>1, <1>10, <2>1 DEF ReleaseFind, AfterRelease, At, Continue, Goto, docs, Snapshot
  <2>3. Stage(w) = "release_find" /\ Stage(w)' = pc'[w]
    BY <2>2 DEF Stage, Refreshing
  <2>4. ActiveRows(o)' = ActiveRows(o) /\ \A x \in Orders : ActiveRows(x)' = ActiveRows(x)
    BY <2>2, ActiveRowsKept
  <2>5. rows = {} => ActiveRows(o) = {}
    BY <2>1
  <2>6. req'[w].order = o /\ \A r \in ActiveRows(o) : r.id \in rows
    BY <1>1, <2>1, <2>2
  <2>7. QED
    BY <1>1, <2>2, <2>3, <2>4, <2>5, <2>6 DEF Closing, Releases
<1>11. CASE /\ ~Answer(w) /\ ~SaveConfirmed(w) /\ ~SaveCancelled(w) /\ ~SaveOrder(w)
            /\ ~(ReserveCreate(w) /\ resv' # resv) /\ ~ReleaseSave(w) /\ ~ReleaseFind(w)
            /\ ~(ConsumeSave(w) \/ RestoreSave(w) \/ DropSave(w))
  <2>1. req' = req /\ order' = order /\ resv' = resv /\ seen'[w].rows = seen[w].rows
    BY <1>11, ServeKeeps, ServeFrame DEF Kept, UndoConfirm
  <2>2. \A x \in Orders : ActiveRows(x)' = ActiveRows(x)
    BY <2>1, ActiveRowsKept
  <2>3. req[w].op = "cancel" => Stage(w)' = Stage(w)
    <3>1. CASE RefreshSteps(w)
      BY <1>11, <3>1, StageKept
    <3>2. CASE ~RefreshSteps(w) /\ req[w].op = "cancel"
      <4>1. pc[w] \in Releases \cup {"cancel_save"}
        BY <3>2, ServeSteps, Entered DEF Route, Stage, StepsOf
      <4>2. FALSE
        BY <1>11, <3>2, <4>1 DEF Releases, Serve,  ReserveOpen,
           ReserveFind, ReserveBalance, ReserveSum, ReserveCreate, BackorderLine, UndoConfirm,
           ReadEvent, ReadLine, StockCheck, Post, ConsumeFind, 
           RestoreFind, SaveLine, ReadLines, CreateEvent, MarkEvent, DropFind,
           RefreshSteps, At
      <4>3. QED
        BY <4>2
    <3>3. QED
      BY <3>1, <3>2
  <2>4. Stage(w)' = "release_save" => \A r \in ActiveRows(o)' : r.id \in seen'[w].rows
    <3>1. CASE req[w].op = "cancel"
      BY <1>1, <2>1, <2>2, <2>3, <3>1 DEF Closing
    <3>2. CASE req[w].op = "confirm"
      <4>1. SUFFICES ASSUME Stage(w)' = "release_save" PROVE ActiveRows(o) = {}
        BY <2>2
      <4>2. resv'[o] = <<>>
        BY <1>1, <1>2, <2>1, <3>2, <4>1 DEF Rows, Unreserved, Releases
      <4>3. QED
        BY <1>0, <2>1, <4>2, NoRows
    <3>3. CASE req[w].op \notin {"cancel", "confirm"}
      <4>1. Stage(w)' \in StepsOf(req[w].op) /\ req[w].op \in {"post", "reverse", "rebuild"}
        BY <1>0, <1>2, <2>1, <3>3 DEF Route, Request
      <4>2. QED
        BY <4>1 DEF StepsOf, Books
    <3>4. QED
      BY <3>1, <3>2, <3>3
  <2>5. req'[w].order = o
    BY <1>1, <2>1
  <2>6. QED
    BY <1>1, <2>1, <2>2, <2>3, <2>4, <2>5 DEF Closing
<1>12. QED
  BY <1>3, <1>4, <1>5, <1>6, <1>7, <1>8, <1>9, <1>10, <1>11

\* A reservation is made from what was there a step before.
Reserving(w) ==
    /\ pc[w] = "reserve_sum" => seen[w].onHand = OnHand
    /\ pc[w] = "reserve_create" =>
         /\ seen[w].row.quantity + Reserved <= OnHand
         /\ seen[w].row.consumed = 0 /\ Active(seen[w].row)

\* At first nothing is to be reserved.
LEMMA ReservingInit == Init => \A w \in Workers : Reserving(w)
  BY DEF Init, Reserving

\* A request that arrives has read no balance.
LEMMA ReservingArrival ==
  ASSUME NEW w \in Workers, Arrived(w) PROVE Reserving(w)'
  BY DEF Arrived, Reserving

\* What is reserved is no more than what the two reads left available.
LEMMA ReservingServe ==
  ASSUME TInv, NEW w \in Workers, Route(w), Balanced(w), Reserving(w), Serve(w)
  PROVE  Reserving(w)'
<1>0. /\ pc \in [Workers -> Step] /\ seen \in [Workers -> Snapshot]
      /\ req[w].order \in Orders /\ seen[w].line \in Line /\ seen[w].onHand \in Int
      /\ Reserved \in Int /\ OnHand \in Int
  BY SumsAreInts DEF TInv, TypeOK, Request, Snapshot
<1>1. CASE pc'[w] = "reserve_sum"
  <2>1. ReserveBalance(w)
    BY <1>1, Entered
  <2>2. pc[w] = "reserve_balance" /\ UNCHANGED docs /\ seen'[w].onHand = rollup.onHand
    BY <1>0, <2>1 DEF ReserveBalance, At, Snapshot
  <2>3. rollup.onHand = OnHand /\ OnHand' = OnHand
    BY <2>2, SumsKept DEF Balanced, Refreshing, Accurate, docs
  <2>4. QED
    BY <1>1, <2>2, <2>3 DEF Reserving
<1>2. CASE pc'[w] = "reserve_create"
  <2>1. ReserveSum(w) /\ pc[w] = "reserve_sum"
    BY <1>2, Entered DEF ReserveSum, At
  <2>2. PICK wanted \in Nat : wanted = Open(req[w].order, seen[w].line)
    BY <1>0, OpenIsNat
  <2>3. PICK free \in Int : free = OnHand - Reserved
    BY <1>0
  <2>4. Available(w) = AtLeast0(free)
    BY <2>1, <2>3 DEF Available, Reserving
  <2>5. PICK a \in Nat : a = Available(w) /\ (a # 0 => a = free)
    BY <2>3, <2>4 DEF AtLeast0
  <2>6. PICK qty \in Nat : qty = Lesser(wanted, Available(w)) /\ qty <= a
    BY <2>2, <2>5 DEF Lesser
  <2>7. PICK row \in Reservation : row = [NoRow EXCEPT !.quantity = qty]
    <3>1. NoRow \in Reservation /\ qty \in Int
      BY <2>6, Blank
    <3>2. [NoRow EXCEPT !.quantity = qty] \in Reservation
      BY <3>1, RowChanged, Zenon
    <3>3. QED
      BY <3>2, Zenon
  <2>8. qty # 0 /\ seen'[w].row = row /\ resv' = resv /\ ledger' = ledger
    <3>1. CASE BlockConfirm /\ qty < wanted
      BY <1>0, <1>2, <2>1, <2>2, <2>6, <3>1 DEF ReserveSum, Continue, Goto
    <3>2. CASE ~(BlockConfirm /\ qty < wanted) /\ qty = 0
      BY <1>0, <1>2, <2>1, <2>2, <2>6, <3>2 DEF ReserveSum, Continue, Goto
    <3>3. CASE ~(BlockConfirm /\ qty < wanted) /\ qty # 0
      <4>1. seen' = [seen EXCEPT ![w].onHand = 0, ![w].row = row] /\ UNCHANGED docs
        BY <2>1, <2>2, <2>6, <2>7, <3>3 DEF ReserveSum
      <4>2. QED
        BY <1>0, <3>3, <4>1 DEF Snapshot, docs
    <3>4. QED
      BY <3>1, <3>2, <3>3
  <2>9. row.quantity = qty /\ row.consumed = 0 /\ row.status = "active"
    BY <2>7 DEF NoRow
  <2>10. Reserved' = Reserved /\ OnHand' = OnHand
    BY <2>8, SumsKept
  <2>11. qty + Reserved <= OnHand
    BY <1>0, <2>3, <2>5, <2>6, <2>8
  <2>12. QED
    BY <1>2, <2>8, <2>9, <2>10, <2>11 DEF Reserving, Active, ActiveStatus
<1>3. CASE pc'[w] \notin {"reserve_sum", "reserve_create"}
  BY <1>3 DEF Reserving
<1>4. QED
  BY <1>1, <1>2, <1>3

\* The first reservation of an order adds its quantity to what is reserved.
LEMMA ReservedAfterFirst ==
  ASSUME TInv, NEW o \in Orders, resv[o] = <<>>, NEW r \in Reservation, r.consumed = 0, Active(r),
         resv' = [resv EXCEPT ![o] = <<r>>]
  PROVE  Reserved' = Reserved + r.quantity
<1>0. resv \in [Orders -> Seq(Reservation)] /\ r.quantity \in Int /\ TypeOK
  BY DEF TInv, TypeOK, Reservation
<1>1. Held(o)' = r.quantity
  <2>1. PICK f : f = [i \in {1} |-> r.quantity]
    OBVIOUS
  <2>2. resv'[o] = <<r>> /\ DOMAIN <<r>> = {1} /\ <<r>>[1] = r
    BY <1>0
  <2>3. f = [i \in DOMAIN resv'[o] |->
              IF Active(resv'[o][i]) THEN resv'[o][i].quantity - resv'[o][i].consumed ELSE 0]
    <3>1. r.quantity - r.consumed = r.quantity
      BY <1>0
    <3>2. QED
      BY <2>1, <2>2, <3>1
  <2>4. Held(o)' = FoldFunction(+, 0, f)
    BY <2>3 DEF Held, FoldFunction, FoldFunctionOnSet, MapThenFoldSet, Active
  <2>5. FoldFunction(+, 0, f) = SumFunctionOnSet(f, {1})
    <3>1. DOMAIN f = {1}
      BY <2>1
    <3>2. QED
      BY <3>1, FoldIsSum
  <2>6. SumFunctionOnSet(f, {1}) = f[1] + SumFunctionOnSet(f, {1} \ {1})
    <3>1. IsFiniteSet({1}) /\ 1 \in {1} /\ \A y \in {1} : f[y] \in Int
      BY <1>0, <2>1, FS_Singleton
    <3>2. QED
      BY <3>1, SumTake
  <2>7. {1} \ {1} = {} /\ f[1] = r.quantity /\ SumFunctionOnSet(f, {}) = 0
    BY <2>1, SumEmpty
  <2>8. SumFunctionOnSet(f, {1}) = r.quantity + 0
    BY <2>6, <2>7, Zenon
  <2>9. Held(o)' = r.quantity + 0
    BY <2>4, <2>5, <2>8, Zenon
  <2>10. QED
    BY <1>0, <2>9
<1>2. Held(o) = 0
  <2>1. PICK f : f = [i \in DOMAIN resv[o] |->
           IF Active(resv[o][i]) THEN resv[o][i].quantity - resv[o][i].consumed ELSE 0]
    OBVIOUS
  <2>2. DOMAIN f = {}
    BY <2>1
  <2>3. Held(o) = FoldFunction(+, 0, f)
    BY <2>1 DEF Held
  <2>4. QED
    BY <2>2, <2>3, FoldIsSum, SumEmpty
<1>3. ASSUME NEW x \in Orders, x # o PROVE Held(x)' = Held(x)
  <2>1. resv'[x] = resv[x]
    BY <1>0, <1>3
  <2>2. PICK f : f = [i \in DOMAIN resv[x] |->
           IF Active(resv[x][i]) THEN resv[x][i].quantity - resv[x][i].consumed ELSE 0]
    OBVIOUS
  <2>3. f = [i \in DOMAIN resv'[x] |->
           IF Active(resv'[x][i]) THEN resv'[x][i].quantity - resv'[x][i].consumed ELSE 0]
    BY <2>1, <2>2, Zenon
  <2>4. Held(x)' = FoldFunction(+, 0, f)
    BY <2>3 DEF Held, FoldFunction, FoldFunctionOnSet, MapThenFoldSet, Active
  <2>5. Held(x) = FoldFunction(+, 0, f)
    BY <2>2 DEF Held
  <2>6. QED
    BY <2>4, <2>5
<1>4. PICK f : f = [x \in Orders |-> Held(x)]
  OBVIOUS
<1>5. PICK h : h = [x \in Orders |-> Held(x)']
  OBVIOUS
<1>6. Reserved = SumFunctionOnSet(f, Orders)
  <2>1. Reserved = FoldFunction(+, 0, f) /\ DOMAIN f = Orders
    BY <1>4 DEF Reserved
  <2>2. QED
    BY <2>1, FoldIsSum
<1>7. Reserved' = SumFunctionOnSet(h, Orders)
  <2>1. Reserved' = FoldFunction(+, 0, h) /\ DOMAIN h = Orders
    BY <1>5 DEF Reserved, FoldFunction, FoldFunctionOnSet, MapThenFoldSet
  <2>2. QED
    BY <2>1, FoldIsSum
<1>8. /\ h[o] = r.quantity /\ f[o] = 0 /\ h[o] \in Int
      /\ \A x \in Orders : f[x] \in Int
      /\ \A x \in Orders \ {o} : h[x] = f[x]
  BY <1>0, <1>1, <1>2, <1>3, <1>4, <1>5, SumsAreInts
<1>9. SumFunctionOnSet(h, Orders) = SumFunctionOnSet(f, Orders) - f[o] + h[o]
  BY <1>8, SumChange, OrdersAssumption
<1>10. SumFunctionOnSet(f, Orders) \in Int
  BY <1>8, SumType, OrdersAssumption
<1>11. QED
  BY <1>0, <1>6, <1>7, <1>8, <1>9, <1>10

\* The inductive invariant of one request at a time.
SInv(w) ==
    /\ Route(w) /\ Ordered(w) /\ Rows(w) /\ Balanced(w)
    /\ LinesAgree(w) /\ Booking(w) /\ Quantities
    /\ Closing(w) /\ Reserving(w)

\* The invariant holds at first.
LEMMA SerialInit == ASSUME NEW w \in Workers PROVE Init => SInv(w)
  BY RouteInit, OrderedInit, RowsInit, BalancedInit, BookingInit, ClosingInit, ReservingInit
     DEF SInv

\* With one worker and no crash every step is that of the one request.
LEMMA SerialNext ==
  ASSUME TInv, NEW w \in Workers, Workers = {w}, MaxCrashes = 0, Next
  PROVE  (Arrival(w) /\ Arrived(w)) \/ Serve(w)
<1>1. PICK v \in Workers : Arrival(v) \/ Serve(v) \/ Crash(v)
  BY DEF Next
<1>2. v = w
  BY <1>1
<1>3. ~Crash(w)
  <2>1. crashes \in Nat
    BY DEF TInv, TypeOK
  <2>2. QED
    BY <2>1 DEF Crash
<1>4. QED
  BY <1>1, <1>2, <1>3, ArrivalBrings

\* The invariant looks at the variables only.
LEMMA SerialUnchanged ==
  ASSUME NEW w \in Workers, SInv(w), UNCHANGED vars
  PROVE  SInv(w)'
<1>1. /\ order' = order /\ line' = line /\ events' = events /\ ledger' = ledger
      /\ rollup' = rollup /\ resv' = resv /\ pc' = pc /\ req' = req /\ seen' = seen
  BY DEF vars, docs
<1>2. Reserved' = Reserved /\ OnHand' = OnHand
  BY <1>1, SumsKept
<1>3. Stage(w)' = Stage(w) /\ \A o \in Orders : Ahead(w, o)' = Ahead(w, o)
  BY <1>1 DEF Stage, Ahead, Delta
<1>4. Route(w)'
  BY <1>1, <1>3 DEF SInv, Route
<1>5. Ordered(w)'
  BY <1>1 DEF SInv, Ordered
<1>6. Rows(w)'
  BY <1>1, <1>3 DEF SInv, Rows, Range
<1>7. Balanced(w)'
  BY <1>1, <1>2 DEF SInv, Balanced, Accurate
<1>8. LinesAgree(w)' /\ Quantities'
  BY <1>1, <1>3 DEF SInv, LinesAgree, Quantities
<1>9. Booking(w)'
  BY <1>1, <1>2, <1>3 DEF SInv, Booking, Fits, Open, Booked
<1>10. Closing(w)'
  BY <1>1, <1>3, ActiveRowsKept DEF SInv, Closing
<1>11. Reserving(w)'
  BY <1>1, <1>2 DEF SInv, Reserving, Active
<1>12. QED
  BY <1>4, <1>5, <1>6, <1>7, <1>8, <1>9, <1>10, <1>11 DEF SInv

\* Every step keeps the invariant.
LEMMA SerialStep ==
  ASSUME TInv, NEW w \in Workers, Workers = {w}, MaxCrashes = 0, SInv(w), [Next]_vars
  PROVE  SInv(w)'
<1>1. CASE UNCHANGED vars
  BY <1>1, SerialUnchanged
<1>2. CASE Arrival(w) /\ Arrived(w)
  BY <1>2, RouteArrival, OrderedArrival, RowsArrival, BalancedArrival, BookingArrival,
     ClosingArrival, ReservingArrival DEF SInv
<1>3. CASE Serve(w)
  BY <1>3, RouteServe, OrderedServe, RowsServe, BalancedServe, BookingServe, ClosingServe,
     ReservingServe DEF SInv
<1>4. QED
  BY <1>1, <1>2, <1>3, SerialNext

\* Requests served one at a time, none of which dies, leave the balance equal to ledger
\* and reservations and each line equal to what the ledger issued for it, whatever the
\* orders, quantities, settings and requests (postSalesOrderFulfillment, reserveLine,
\* releaseReservationRecord, refreshReservedRollup).
THEOREM RestAgrees ==
  ASSUME NEW w, Workers = {w}, MaxCrashes = 0
  PROVE  Spec => []RestIsConsistent
<1>1. Init => TInv /\ SInv(w)
  BY TypesInit, SerialInit
<1>2. TInv /\ SInv(w) /\ [Next]_vars => TInv' /\ SInv(w)'
  BY TypesStep, SerialStep
<1>3. TInv /\ SInv(w) => RestIsConsistent
  <2> SUFFICES ASSUME TInv, SInv(w), AtRest 
           PROVE  Accurate /\ \A o \in Orders : line[o].fulfilled = -ledger[o]
    BY DEF RestIsConsistent
  <2>1. pc[w] = "idle"
    BY DEF AtRest, At
  <2>2. Accurate
    BY <2>1 DEF SInv, Balanced, Refreshing
  <2>3. ASSUME NEW o \in Orders PROVE line[o].fulfilled = -ledger[o]
    <3>1. Ahead(w, o) = 0
      BY <2>1 DEF Ahead, Stage, Refreshing, Issuing
    <3>2. line[o].fulfilled + ledger[o] = 0
      BY <3>1 DEF SInv, LinesAgree
    <3>3. line[o].fulfilled \in Int /\ ledger[o] \in Int
      BY DEF TInv, TypeOK, Line
    <3>4. QED
      BY <3>2, <3>3
  <2>4. QED
    BY <2>2, <2>3
<1>4. QED
  BY <1>1, <1>2, <1>3, PTL DEF Spec

\* A draft or cancelled order reserves nothing once its request is answered: a failed
\* confirmation and a cancellation release every active reservation, and nobody makes
\* one for an order that is not confirmed (confirmSalesOrder, cancelSalesOrder).
THEOREM ClosedOrdersReserveNothing ==
  ASSUME NEW w, Workers = {w}, MaxCrashes = 0
  PROVE  Spec => []ClosedReservesNothing
<1>1. Init => TInv /\ SInv(w)
  BY TypesInit, SerialInit
<1>2. TInv /\ SInv(w) /\ [Next]_vars => TInv' /\ SInv(w)'
  BY TypesStep, SerialStep
<1>3. SInv(w) => ClosedReservesNothing
  BY DEF SInv, Closing, ClosedReservesNothing, AtRest, At, Stage, Refreshing, Releases
<1>4. QED
  BY <1>1, <1>2, <1>3, PTL DEF Spec

\* Only the insert of a reservation makes the reservations of an order more.
LEMMA InsertsReserve ==
  ASSUME TInv, NEW w \in Workers, SInv(w), Serve(w), NEW x \in Orders, Len(resv'[x]) > Len(resv[x])
  PROVE  ReserveCreate(w)
<1>0. req[w].order \in Orders /\ \A o \in Orders : Len(resv[o]) \in Int
  BY LenProperties DEF TInv, TypeOK, Request
<1>1. resv' # resv
  BY <1>0
<1>2. ASSUME ReleaseSave(w) \/ ConsumeSave(w) \/ RestoreSave(w) \/ DropSave(w) PROVE FALSE
  <2>1. RowSaved(w)
    BY <1>2, RowSaves, NotRefused DEF SInv
  <2>2. PICK o \in Orders : o = req[w].order
    BY <1>0
  <2>3. PICK r \in Reservation : r.id \in Ids(o) /\ resv' = Saved(o, r)
    BY <2>1, <2>2 DEF RowSaved
  <2>4. Len(resv'[x]) = Len(resv[x])
    BY <2>3, RowsSaved DEF SInv
  <2>5. QED
    BY <1>0, <2>4
<1>3. QED
  BY <1>1, <1>2, ServeFrame

\* One request at a time, the making of a reservation never takes what is reserved
\* beyond the stock: the balance that computeAtp reads is right (reserveLine).
THEOREM ReservationsFromStock ==
  ASSUME NEW w, Workers = {w}, MaxCrashes = 0
  PROVE  Spec => ReservedFromStock
<1>1. Init => TInv /\ SInv(w)
  BY TypesInit, SerialInit
<1>2. TInv /\ SInv(w) /\ [Next]_vars => TInv' /\ SInv(w)'
  BY TypesStep, SerialStep
<1>3. ASSUME TInv, SInv(w), Next, NEW x \in Orders, Len(resv'[x]) > Len(resv[x])
      PROVE  Reserved' <= OnHand
  <2>0. /\ resv \in [Orders -> Seq(Reservation)] /\ req[w].order \in Orders
        /\ seen[w].row \in Reservation /\ Len(resv[x]) \in Int
        /\ Reserved \in Int /\ OnHand \in Int
    BY <1>3, SumsAreInts, LenProperties DEF TInv, TypeOK, Request, Snapshot
  <2>1. Serve(w)
    <3>1. ~Arrived(w)
      BY <1>3, <2>0 DEF Arrived, docs
    <3>2. QED
      BY <1>3, <3>1, SerialNext
  <2>2. ReserveCreate(w) /\ resv' # resv
    BY <1>3, <2>0, <2>1, InsertsReserve
  <2>3. pc[w] = "reserve_create"
    BY <2>2 DEF ReserveCreate, At
  <2>4. PICK o \in Orders : o = req[w].order
    BY <2>0
  <2>5. resv[o] = <<>>
    <3>1. Stage(w) \in Unreserved
      BY <2>3 DEF Stage, Refreshing, Unreserved, Reserves
    <3>2. req[w].op = "confirm"
      BY <1>3, <2>3, Here DEF SInv, Reserves
    <3>3. QED
      BY <1>3, <2>4, <3>1, <3>2 DEF SInv, Rows
  <2>6. seen[w].row.quantity + Reserved <= OnHand /\ seen[w].row.consumed = 0 /\ Active(seen[w].row)
    BY <1>3, <2>3 DEF SInv, Reserving
  <2>7. Len(<<>>) + 1 = 1 /\ 1 \in Nat
    BY EmptySeq
  <2>8. PICK r : r = [seen[w].row EXCEPT !.id = Len(resv[o]) + 1]
    OBVIOUS
  <2>9. r \in Reservation
    BY <2>0, <2>5, <2>7, <2>8, RowChanged, Zenon
  <2>10. r.quantity = seen[w].row.quantity /\ r.consumed = 0 /\ Active(r)
    BY <2>0, <2>6, <2>8 DEF Reservation, Active
  <2>11. resv' = [resv EXCEPT ![o] = Append(@, r)]
    BY <2>2, <2>4, <2>8 DEF ReserveCreate
  <2>12. Append(resv[o], r) = <<r>>
    BY <2>5, <2>9
  <2>13. resv' = [resv EXCEPT ![o] = <<r>>]
    BY <2>11, <2>12
  <2>14. Reserved' = Reserved + r.quantity
    BY <1>3, <2>5, <2>9, <2>10, <2>13, ReservedAfterFirst
  <2>15. QED
    BY <2>0, <2>6, <2>10, <2>14 DEF Reservation
<1>4. ASSUME TInv, SInv(w), [Next]_vars
      PROVE  [\A o \in Orders : Len(resv'[o]) > Len(resv[o]) => Reserved' <= OnHand]_vars
  BY <1>3, <1>4
<1>5. QED
  BY <1>1, <1>2, <1>4, PTL DEF Spec, ReservedFromStock

\* What has left against the orders, and the sum of it.
Issued == [o \in Orders |-> -ledger[o]]

\* What StockLevel has in stock is what the ledger says.
LEMMA InStockIsOnHand == ASSUME TypeOK PROVE Stock!InStock = OnHand
<1>1. PICK f : f = Issued
  OBVIOUS
<1>2. PICK g : g = ledger
  OBVIOUS
<1>3. DOMAIN f = Orders /\ DOMAIN g = Orders /\ \A o \in Orders : g[o] \in Int /\ f[o] = -g[o]
  BY <1>1, <1>2 DEF Issued, TypeOK
<1>4. FoldFunction(+, 0, f) = SumFunctionOnSet(f, Orders)
  BY <1>3, FoldIsSum
<1>5. FoldFunction(+, 0, g) = SumFunctionOnSet(g, Orders)
  BY <1>3, FoldIsSum
<1>6. SumFunctionOnSet(f, Orders) = -SumFunctionOnSet(g, Orders)
  BY <1>3, SumOpposite, OrdersAssumption
<1>7. SumFunctionOnSet(g, Orders) \in Int
  BY <1>3, SumType, OrdersAssumption
<1>8. Stock!InStock = Opening - FoldFunction(+, 0, f)
  <2>1. f = [o \in Orders |-> -ledger[o]]
    BY <1>1 DEF Issued
  <2>2. QED
    BY <2>1 DEF Stock!InStock, Stock!FoldFunction, Stock!FoldFunctionOnSet, Stock!MapThenFoldSet,
       FoldFunction, FoldFunctionOnSet, MapThenFoldSet
<1>9. OnHand = Opening + FoldFunction(+, 0, g)
  BY <1>2 DEF OnHand
<1>10. PICK a \in Int : a = SumFunctionOnSet(g, Orders)
  BY <1>7
<1>11. Stock!InStock = Opening - (-a) /\ OnHand = Opening + a
  BY <1>4, <1>5, <1>6, <1>8, <1>9, <1>10, Zenon
<1>12. QED
  BY <1>11, SettingsAssumption

\* The ledger entry issues what is there and open, or takes back what had left.
LEMMA PostIssues ==
  ASSUME TInv, NEW w \in Workers, SInv(w), Post(w)
  PROVE  \E o \in Orders : Stock!Issue(o) \/ Stock!Return(o)
<1>0. /\ req[w] \in Request /\ ledger \in [Orders -> Int] /\ line \in [Orders -> Line] /\ TypeOK
      /\ pc[w] = "post"
  BY DEF TInv, TypeOK, Post, At
<1>1. PICK o \in Orders : o = req[w].order
  BY <1>0 DEF Request
<1>2. PICK q \in Nat : q = req[w].qty
  BY <1>0 DEF Request
<1>3. req[w].op \in {"post", "reverse"} /\ req[w].kind = "ship" /\ Stage(w) = "post"
  BY <1>0, Here DEF SInv, Books, Shipping, Stage, Refreshing
<1>4. line[o].fulfilled = -ledger[o] /\ line[o].cancelled >= 0
  <2>1. Ahead(w, o) = 0
    BY <1>3 DEF Ahead, Issuing
  <2>2. line[o].fulfilled + ledger[o] = 0 /\ line[o].cancelled >= 0
    BY <2>1 DEF SInv, LinesAgree
  <2>3. line[o].fulfilled \in Int /\ ledger[o] \in Int
    BY <1>0 DEF Line
  <2>4. QED
    BY <2>2, <2>3
<1>5. q >= 1 /\ Fits(w, line[o])
  BY <1>1, <1>2, <1>3 DEF SInv, Booking
<1>6. /\ Issued = [x \in Orders |-> -ledger[x]]
      /\ Issued' = [x \in Orders |-> -ledger'[x]]
  BY DEF Issued
<1>7. ledger[o] \in Int /\ Quantity[o] \in Nat /\ line[o].fulfilled \in Int /\ line[o].cancelled \in Int
  BY <1>0, OrdersAssumption DEF Line
<1>8. CASE req[w].op = "post"
  <2>1. q \in 1 .. Quantity[o] /\ q <= Stock!InStock
    <3>1. q <= Quantity[o] /\ q <= OnHand
      BY <1>0, <1>1, <1>2, <1>8 DEF SInv, Booking
    <3>2. QED
      BY <1>0, <1>5, <1>7, <3>1, InStockIsOnHand
  <2>2. q <= AtLeast0(Quantity[o] - line[o].fulfilled - line[o].cancelled)
    BY <1>1, <1>2, <1>5, <1>8 DEF Fits, Open
  <2>3. Issued[o] + q <= Quantity[o]
    BY <1>4, <1>5, <1>6, <1>7, <2>2 DEF AtLeast0
  <2>4. ledger' = [ledger EXCEPT ![o] = @ - q]
    BY <1>0, <1>1, <1>2, <1>7, <1>8 DEF Post, Delta
  <2>5. Issued' = [Issued EXCEPT ![o] = @ + q]
    BY <1>0, <1>6, <1>7, <2>4
  <2>6. Stock!Issue(o)
    BY <2>1, <2>3, <2>5 DEF Stock!Issue, Issued
  <2>7. QED
    BY <2>6
<1>9. CASE req[w].op = "reverse"
  <2>1. q <= Issued[o] /\ Issued[o] \in Int
    BY <1>1, <1>2, <1>3, <1>4, <1>5, <1>6, <1>7, <1>9 DEF Fits, Booked
  <2>2. ledger' = [ledger EXCEPT ![o] = @ + q]
    BY <1>0, <1>1, <1>2, <1>9 DEF Post, Delta
  <2>3. Issued' = [Issued EXCEPT ![o] = @ - q]
    BY <1>0, <1>6, <1>7, <2>2
  <2>4. q \in 1 .. Issued[o]
    BY <1>5, <2>1
  <2>5. Stock!Return(o)
    BY <2>3, <2>4 DEF Stock!Return, Issued
  <2>6. QED
    BY <2>5
<1>10. QED
  BY <1>3, <1>8, <1>9

\* Requests served one at a time refine StockLevel: the ledger entry of a posting is an
\* issue of goods that are there and were ordered, that of a reversal takes back goods
\* that had left, and every other step leaves what was issued alone (assertSufficientStock,
\* createLedgerEntry, reverseSalesOrderFulfillment).
THEOREM StockLevelImplemented ==
  ASSUME NEW w, Workers = {w}, MaxCrashes = 0
  PROVE  Spec => ImplementsStockLevel
<1>1. Init => TInv /\ SInv(w)
  BY TypesInit, SerialInit
<1>2. TInv /\ SInv(w) /\ [Next]_vars => TInv' /\ SInv(w)'
  BY TypesStep, SerialStep
<1>3. Init => Stock!Init
  <2>1. ASSUME Init, NEW o \in Orders PROVE -ledger[o] = 0
    <3>1. ledger[o] = 0
      BY <2>1 DEF Init
    <3>2. \A n \in Int : n <= 0 /\ n >= 0 => -n = 0
      OBVIOUS
    <3>3. 0 \in Int /\ 0 <= 0 /\ 0 >= 0
      OBVIOUS
    <3>4. QED
      BY <3>1, <3>2, <3>3, Zenon
  <2>2. QED
    BY <2>1 DEF Stock!Init
<1>4. ASSUME TInv, SInv(w), [Next]_vars PROVE [Stock!Next]_Issued
  <2>1. CASE ledger' = ledger
    BY <2>1 DEF Issued
  <2>2. CASE Post(w)
    BY <1>4, <2>2, PostIssues DEF Stock!Next
  <2>3. CASE Serve(w)
    BY <1>4, <2>1, <2>2, <2>3, ServeFrame
  <2>4. CASE Arrived(w)
    BY <2>1, <2>4 DEF Arrived, docs
  <2>5. CASE UNCHANGED vars
    BY <2>1, <2>5 DEF vars, docs
  <2>6. QED
    BY <1>4, <2>3, <2>4, <2>5, SerialNext
<1>5. TInv /\ SInv(w) /\ [Next]_vars => [Stock!Next]_[o \in Orders |-> -ledger[o]]
  BY <1>4 DEF Issued
<1>6. QED
  BY <1>1, <1>2, <1>3, <1>5, PTL DEF Spec, ImplementsStockLevel, Stock!Spec
==============================================================================
