------------------------ MODULE SalesOrderStock_proofs ------------------------
(***************************************************************************)
(* For any number of orders, workers, requests and crashes, with and without    *)
(* the reservation index:                                                   *)
(*   - every variable keeps its type, for which each request that saves a        *)
(*     reservation must find it among those of its order;                      *)
(*   - as long as no fulfilment is reversed, a line never claims to have shipped  *)
(*     more than the ledger issued for it, and no consumption is lost;           *)
(*   - a rebuild that nothing overlapped leaves an accurate balance.            *)
(***************************************************************************)
EXTENDS SalesOrderStock, SequenceTheorems, Sums

-----------------------------------------------------------------------------
(* The rows of an order, and their sums.                                   *)

Ids(o) == {resv[o][i].id : i \in DOMAIN resv[o]}

\* The reservations of an order have numbers of their own, from one on.
Numbered ==
    \A o \in Orders :
        /\ \A i \in DOMAIN resv[o] : resv[o][i].id \in 1 .. Len(resv[o])
        /\ \A i, j \in DOMAIN resv[o] : resv[o][i].id = resv[o][j].id => i = j

\* t is s with the element at p replaced by r and put at the end.
Moved(t, s, p, r) ==
    /\ Len(t) = Len(s)
    /\ \A i \in 1 .. Len(s) :
         /\ i < p => t[i] = s[i]
         /\ i < Len(s) /\ p <= i => t[i] = s[i + 1]
    /\ t[Len(s)] = r

LEMMA MovedLast ==
  ASSUME NEW S, NEW s \in Seq(S), NEW p \in 1 .. Len(s), NEW r \in S
  PROVE  /\ Append(RemoveAt(s, p), r) \in Seq(S)
         /\ Moved(Append(RemoveAt(s, p), r), s, p, r)
<1> DEFINE front == SubSeq(s, 1, p - 1)
           back == SubSeq(s, p + 1, Len(s))
           rest == front \o back
<1>1. Len(s) \in Nat /\ p \in Nat /\ \A i \in 1 .. Len(s) : s[i] \in S
  BY LenProperties, ElementOfSeq
<1>2. /\ front \in Seq(S) /\ Len(front) = p - 1
      /\ \A i \in 1 .. p - 1 : front[i] = s[i]
  <2>1. \A i \in 1 .. p - 1 : s[i] \in S
    BY <1>1
  <2>2. QED
    BY <1>1, <2>1, SubSeqProperties
<1>3. /\ back \in Seq(S) /\ Len(back) = Len(s) - p
      /\ \A i \in 1 .. Len(s) - p : back[i] = s[p + i]
  <2>1. \A i \in p + 1 .. Len(s) : s[i] \in S
    BY <1>1
  <2>2. QED
    BY <1>1, <2>1, SubSeqProperties
<1> HIDE DEF front, back
<1>4. /\ rest \in Seq(S) /\ Len(rest) = Len(s) - 1
      /\ \A i \in 1 .. Len(s) - 1 : rest[i] = IF i < p THEN s[i] ELSE s[i + 1]
  <2>1. /\ rest \in Seq(S) /\ Len(rest) = Len(front) + Len(back)
        /\ \A i \in 1 .. Len(front) + Len(back) :
             rest[i] = IF i <= Len(front) THEN front[i] ELSE back[i - Len(front)]
    BY <1>2, <1>3, ConcatProperties
  <2>2. Len(rest) = Len(s) - 1
    BY <1>1, <1>2, <1>3, <2>1
  <2> HIDE DEF rest
  <2>3. ASSUME NEW i \in 1 .. Len(s) - 1
        PROVE  rest[i] = IF i < p THEN s[i] ELSE s[i + 1]
    <3>0. /\ i \in 1 .. Len(front) + Len(back)
          /\ rest[i] = IF i <= p - 1 THEN front[i] ELSE back[i - (p - 1)]
      <4>1. Len(front) + Len(back) = Len(s) - 1
        BY <2>1, <2>2
      <4>2. QED
        BY <1>2, <2>1, <4>1
    <3>1. CASE i < p
      <4>1. i <= p - 1 /\ i \in 1 .. p - 1
        BY <1>1, <3>1
      <4>2. QED
        BY <1>2, <3>0, <3>1, <4>1
    <3>2. CASE ~(i < p)
      <4>0. ~(i <= p - 1) /\ i - (p - 1) \in 1 .. Len(s) - p
        BY <1>1, <3>2
      <4>1. rest[i] = back[i - (p - 1)] /\ i - (p - 1) \in 1 .. Len(s) - p
        BY <3>0, <4>0
      <4>2. back[i - (p - 1)] = s[p + (i - (p - 1))] /\ p + (i - (p - 1)) = i + 1
        BY <1>1, <1>3, <4>1
      <4>3. QED
        BY <3>2, <4>1, <4>2
    <3>3. QED
      BY <3>1, <3>2
  <2>4. QED
    BY <2>1, <2>2, <2>3
<1>5. RemoveAt(s, p) = rest
  BY DEF RemoveAt, front, back
<1> HIDE DEF rest
<1>6. QED
  BY <1>1, <1>4, <1>5, AppendProperties DEF Moved

\* A number names a row of the order.
LEMMA RowOfId ==
  ASSUME TypeOK, NEW o \in Orders, NEW id \in Ids(o)
  PROVE  /\ Place(o, id) \in DOMAIN resv[o]
         /\ RowById(o, id) = resv[o][Place(o, id)]
         /\ RowById(o, id) \in Reservation /\ RowById(o, id).id = id
<1>1. \E i \in DOMAIN resv[o] : resv[o][i].id = id
  BY DEF Ids
<1>2. Place(o, id) \in DOMAIN resv[o] /\ resv[o][Place(o, id)].id = id
  BY <1>1 DEF Place
<1>3. resv[o] \in Seq(Reservation)
  BY DEF TypeOK
<1>4. QED
  BY <1>2, <1>3, ElementOfSeq, LenProperties DEF RowById

\* What a save leaves of the rows.
LEMMA SavedRows ==
  ASSUME TypeOK, NEW o \in Orders, NEW r \in Reservation, r.id \in Ids(o), resv' = Saved(o, r)
  PROVE  /\ resv' \in [Orders -> Seq(Reservation)]
         /\ \A x \in Orders : x # o => resv'[x] = resv[x]
         /\ \E p \in DOMAIN resv[o] :
              /\ p = Place(o, r.id) /\ resv[o][p].id = r.id
              /\ RowById(o, r.id) = resv[o][p]
              /\ Moved(resv'[o], resv[o], p, r)
<1> DEFINE s == resv[o]
           p == Place(o, r.id)
           t == Append(RemoveAt(s, p), r)
<1>1. s \in Seq(Reservation) /\ DOMAIN s = 1 .. Len(s)
  BY LenProperties DEF TypeOK
<1>2. p \in 1 .. Len(s) /\ s[p].id = r.id /\ RowById(o, r.id) = s[p]
  <2>1. PICK id \in Ids(o) : id = r.id
    OBVIOUS
  <2>2. QED
    BY <1>1, <2>1, RowOfId
<1>3. resv' = [resv EXCEPT ![o] = t]
  BY DEF Saved
<1> HIDE DEF p, t
<1>4. t \in Seq(Reservation) /\ Moved(t, s, p, r)
  BY <1>1, <1>2, MovedLast DEF t
<1>5. resv'[o] = t /\ (\A x \in Orders : x # o => resv'[x] = resv[x])
      /\ resv' \in [Orders -> Seq(Reservation)]
  BY <1>3, <1>4 DEF TypeOK
<1>6. QED
  BY <1>1, <1>2, <1>4, <1>5 DEF p

\* A save keeps the numbers.
LEMMA SaveKeepsIds ==
  ASSUME TypeOK, Numbered, NEW o \in Orders, NEW r \in Reservation, r.id \in Ids(o),
         resv' = Saved(o, r)
  PROVE  Numbered' /\ \A x \in Orders : Ids(x)' = Ids(x)
<1>1. /\ resv' \in [Orders -> Seq(Reservation)]
      /\ \A x \in Orders : x # o => resv'[x] = resv[x]
  BY SavedRows
<1>2. PICK p \in DOMAIN resv[o] :
              /\ resv[o][p].id = r.id
              /\ Len(resv'[o]) = Len(resv[o])
              /\ \A i \in 1 .. Len(resv[o]) :
                   /\ i < p => resv'[o][i] = resv[o][i]
                   /\ i < Len(resv[o]) /\ p <= i => resv'[o][i] = resv[o][i + 1]
              /\ resv'[o][Len(resv[o])] = r
  BY SavedRows DEF Moved
<1> DEFINE n == Len(resv[o])
           from == [i \in 1 .. n |-> IF i < p THEN i ELSE IF i < n THEN i + 1 ELSE p]
<1>3. n \in Nat /\ p \in 1 .. n /\ DOMAIN resv[o] = 1 .. n /\ DOMAIN resv'[o] = 1 .. n
  BY <1>1, <1>2 DEF TypeOK
<1>4. \A i \in 1 .. n : from[i] \in 1 .. n /\ resv'[o][i].id = resv[o][from[i]].id
  BY <1>2, <1>3
<1>5. \A i, j \in 1 .. n : from[i] = from[j] => i = j
  BY <1>2, <1>3
<1>6. \A j \in 1 .. n : \E i \in 1 .. n : from[i] = j
  <2>1. TAKE j \in 1 .. n
  <2>2. CASE j < p
    <3>1. from[j] = j
      BY <2>2
    <3>2. QED
      BY <3>1
  <2>3. CASE j = p
    <3>1. from[n] = p /\ n \in 1 .. n
      BY <1>2, <1>3
    <3>2. QED
      BY <2>3, <3>1
  <2>4. CASE j > p
    <3>1. j - 1 \in 1 .. n /\ from[j - 1] = j
      BY <1>2, <1>3, <2>4
    <3>2. QED
      BY <3>1
  <2>5. j < p \/ j = p \/ j > p
    BY <1>3
  <2> HIDE DEF from
  <2>6. QED
    BY <2>2, <2>3, <2>4, <2>5
<1> HIDE DEF from
<1>7. Ids(o)' = Ids(o)
  <2>1. /\ Ids(o) = {resv[o][i].id : i \in 1 .. n}
        /\ Ids(o)' = {resv'[o][i].id : i \in 1 .. n}
    BY <1>3 DEF Ids
  <2>2. \A i \in 1 .. n : \E j \in 1 .. n : resv'[o][i].id = resv[o][j].id
    BY <1>4
  <2>3. \A j \in 1 .. n : \E i \in 1 .. n : resv'[o][i].id = resv[o][j].id
    <3>1. TAKE j \in 1 .. n
    <3>2. PICK i \in 1 .. n : from[i] = j
      BY <1>6
    <3>3. resv'[o][i].id = resv[o][j].id
      BY <1>4, <3>2
    <3>4. QED
      BY <3>3
  <2> HIDE DEF n
  <2>4. {resv[o][i].id : i \in 1 .. n} = {resv'[o][i].id : i \in 1 .. n}
    <3>1. \A m \in 1 .. n : resv[o][m].id \in {resv'[o][i].id : i \in 1 .. n}
      BY <2>3
    <3>2. \A m \in 1 .. n : resv'[o][m].id \in {resv[o][i].id : i \in 1 .. n}
      BY <2>2
    <3>3. QED
      BY <3>1, <3>2, Zenon
  <2>5. QED
    BY <2>1, <2>4
<1>8. \A x \in Orders : Ids(x)' = Ids(x)
  <2>1. TAKE x \in Orders
  <2>2. CASE x = o
    BY <1>7, <2>2
  <2>3. CASE x # o
    BY <1>1, <2>3 DEF Ids
  <2>4. QED
    BY <2>2, <2>3
<1>9. /\ \A i \in DOMAIN resv'[o] : resv'[o][i].id \in 1 .. Len(resv'[o])
      /\ \A i, j \in DOMAIN resv'[o] : resv'[o][i].id = resv'[o][j].id => i = j
  <2>1. /\ \A i \in 1 .. n : resv[o][i].id \in 1 .. n
        /\ \A i, j \in 1 .. n : resv[o][i].id = resv[o][j].id => i = j
    BY <1>3 DEF Numbered
  <2>2. DOMAIN resv'[o] = 1 .. n /\ Len(resv'[o]) = n
    BY <1>2, <1>3
  <2>3. \A i \in 1 .. n : resv'[o][i].id \in 1 .. n
    BY <1>4, <2>1
  <2>4. ASSUME NEW i \in 1 .. n, NEW j \in 1 .. n, resv'[o][i].id = resv'[o][j].id
        PROVE  i = j
    <3>1. resv[o][from[i]].id = resv[o][from[j]].id
      BY <1>4, <2>4
    <3>2. from[i] = from[j]
      BY <1>4, <2>1, <3>1
    <3>3. QED
      BY <1>5, <3>2
  <2> HIDE DEF n
  <2>5. QED
    BY <2>2, <2>3, <2>4
<1>10. Numbered'
  BY <1>1, <1>9 DEF Numbered
<1>11. QED
  BY <1>8, <1>10

-----------------------------------------------------------------------------
(* Types.                                                                  *)

\* The steps that save a reservation loaded before.
Saving == {"consume_save", "restore_save", "drop_save"}

\* What a request has loaded of the reservations is there, and a worker without a
\* request holds nothing.
Loaded(w) ==
    /\ pc[w] \in Saving => seen[w].row.id \in Ids(req[w].order)
    /\ seen[w].rows \subseteq Ids(req[w].order)
    /\ seen[w].then \notin Saving
    /\ pc[w] = "idle" => seen[w] = Nothing /\ req[w] = NoRequest

\* The inductive invariant of the types.
TInv == TypeOK /\ Numbered /\ \A w \in Workers : Loaded(w)

LEMMA Blank == Nothing \in Snapshot /\ NoRequest \in Request /\ NoRow \in Reservation
               /\ Nothing.rows = {} /\ Nothing.then = "idle" /\ NoRequest.op = "rebuild"
<1>1. NoOrder \in Orders
  BY OrdersAssumption DEF NoOrder
<1>2. NoRow \in Reservation
  BY DEF NoRow, Reservation, ReservationStatus, ActiveStatus
<1>3. QED
  BY <1>1, <1>2 DEF Nothing, Snapshot, NoRequest, Request, NoLine, Line, Balance, PostingKinds,
     OrderStatus, Step

LEMMA TypesInit == Init => TInv
<1> SUFFICES ASSUME Init PROVE TInv
  OBVIOUS
<1>1. /\ resv = [o \in Orders |-> <<>>] /\ seen = [w \in Workers |-> Nothing]
      /\ req = [w \in Workers |-> NoRequest] /\ pc = [w \in Workers |-> "idle"]
  BY DEF Init
<1>2. <<>> \in Seq(Reservation) /\ <<>> \in Seq(Event)
  BY EmptySeq
<1>3. Numbered
  BY <1>1 DEF Numbered
<1>4. \A w \in Workers : Loaded(w)
  BY <1>1, Blank DEF Loaded, Saving
<1>5. line \in [Orders -> Line] /\ rollup \in Balance /\ order \in [Orders -> OrderStatus]
  <2>1. NoLine \in Line /\ Opening \in Int
    BY SettingsAssumption DEF Line, NoLine
  <2>2. [onHand |-> Opening, reserved |-> 0] \in Balance
    BY <2>1 DEF Balance
  <2>3. order \in [Orders -> {"Draft", "Confirmed"}]
    BY DEF Init
  <2>4. order \in [Orders -> OrderStatus]
    BY <2>3 DEF OrderStatus
  <2>5. QED
    BY <2>1, <2>2, <2>4 DEF Init
<1>6. TypeOK
  BY <1>1, <1>2, <1>5, Blank DEF Init, TypeOK, Step
<1>7. QED
  BY <1>3, <1>4, <1>6 DEF TInv

\* The sums are integers.
LEMMA SumsAreInts ==
  ASSUME TypeOK
  PROVE  /\ \A o \in Orders : Held(o) \in Int
         /\ Reserved \in Int /\ OnHand \in Int
<1>1. ASSUME NEW o \in Orders PROVE Held(o) \in Int
  <2> DEFINE f == [i \in DOMAIN resv[o] |->
                IF Active(resv[o][i]) THEN resv[o][i].quantity - resv[o][i].consumed ELSE 0]
  <2>1. /\ resv[o] \in Seq(Reservation) /\ DOMAIN resv[o] = 1 .. Len(resv[o])
        /\ Len(resv[o]) \in Nat
    BY LenProperties DEF TypeOK
  <2>2. \A i \in DOMAIN resv[o] : f[i] \in Int
    <3>1. \A i \in DOMAIN resv[o] : resv[o][i] \in Reservation
      BY <2>1, ElementOfSeq
    <3>2. QED
      BY <3>1 DEF Reservation
  <2>3. IsFiniteSet(DOMAIN f) /\ DOMAIN f = DOMAIN resv[o]
    BY <2>1, FS_Interval
  <2>4. Held(o) = SumFunctionOnSet(f, DOMAIN f)
    BY FoldIsSum DEF Held
  <2> HIDE DEF f
  <2>5. QED
    BY <2>2, <2>3, <2>4, SumType
<1>2. Reserved \in Int
  <2> DEFINE f == [o \in Orders |-> Held(o)]
  <2>1. \A x \in Orders : f[x] \in Int
    BY <1>1
  <2>2. DOMAIN f = Orders
    OBVIOUS
  <2>3. Reserved = SumFunctionOnSet(f, DOMAIN f)
    BY FoldIsSum DEF Reserved
  <2> HIDE DEF f
  <2>4. QED
    BY <2>1, <2>2, <2>3, SumType, OrdersAssumption
<1>3. OnHand \in Int
  <2>1. \A x \in Orders : ledger[x] \in Int
    BY DEF TypeOK
  <2>2. DOMAIN ledger = Orders
    BY DEF TypeOK
  <2>3. OnHand = Opening + SumFunctionOnSet(ledger, DOMAIN ledger)
    BY FoldIsSum DEF OnHand
  <2>4. SumFunctionOnSet(ledger, Orders) \in Int
    BY <2>1, SumType, OrdersAssumption
  <2>5. QED
    BY <2>2, <2>3, <2>4, SettingsAssumption
<1>4. QED
  BY <1>1, <1>2, <1>3

\* The parts of TypeOK: documents, workers, history.
DocumentTypes ==
    /\ order \in [Orders -> OrderStatus]
    /\ line \in [Orders -> Line]
    /\ events \in Seq(Event)
    /\ ledger \in [Orders -> Int]
    /\ rollup \in Balance
    /\ resv \in [Orders -> Seq(Reservation)]
WorkerTypes ==
    /\ pc \in [Workers -> Step]
    /\ req \in [Workers -> Request]
    /\ seen \in [Workers -> Snapshot]
HistoryTypes ==
    /\ taken \in [Orders -> Int]
    /\ alone \subseteq Workers
    /\ requests \in Nat /\ crashes \in Nat

\* A step of w leaves what the other workers hold, and no reservation disappears.
Others(w) == \A v \in Workers \ {w} : pc'[v] = pc[v] /\ req'[v] = req[v] /\ seen'[v] = seen[v]
IdsKept == \A o \in Orders : Ids(o) \subseteq Ids(o)'

LEMMA TypeStep ==
  ASSUME TInv, NEW w \in Workers, DocumentTypes', HistoryTypes', Numbered', IdsKept,
         WorkerTypes', Others(w), Loaded(w)'
  PROVE  TInv'
<1>1. TypeOK'
  BY DEF TypeOK, DocumentTypes, WorkerTypes, HistoryTypes
<1>2. ASSUME NEW v \in Workers PROVE Loaded(v)'
  <2>1. CASE v = w
    BY <2>1
  <2>2. CASE v # w
    <3>1. pc'[v] = pc[v] /\ req'[v] = req[v] /\ seen'[v] = seen[v] /\ Loaded(v)
      BY <2>2 DEF Others, TInv
    <3>2. PICK o \in Orders : o = req[v].order
      BY DEF TInv, TypeOK, Request
    <3>3. Ids(o) \subseteq Ids(o)'
      BY DEF IdsKept
    <3>4. Ids(req[v].order) = Ids(o) /\ Ids(req[v].order)' = Ids(o)'
      BY <3>1, <3>2 DEF Ids
    <3>5. QED
      BY <3>1, <3>3, <3>4 DEF Loaded
  <2>3. QED
    BY <2>1, <2>2
<1>3. QED
  BY <1>1, <1>2 DEF TInv

LEMMA QuietRows == ASSUME UNCHANGED resv PROVE IdsKept /\ (Numbered => Numbered')
  BY DEF IdsKept, Ids, Numbered

\* A request that is answered, by whatever step, has nothing to keep.
LEMMA AnswerTypes ==
  ASSUME TInv, NEW w \in Workers, Goto(w, "idle"),
         req' = [req EXCEPT ![w] = NoRequest], seen' = [seen EXCEPT ![w] = Nothing]
  PROVE  WorkerTypes' /\ Others(w) /\ Loaded(w)'
<1>1. pc'[w] = "idle" /\ req'[w] = NoRequest /\ seen'[w] = Nothing
  BY DEF TInv, TypeOK, Goto
<1>2. WorkerTypes' /\ Others(w)
  BY Blank DEF TInv, TypeOK, Goto, WorkerTypes, Others, Step
<1>3. Loaded(w)'
  BY <1>1, Blank DEF Loaded, Saving
<1>4. QED
  BY <1>2, <1>3

\* What a request reads keeps its type, and its rows stay.
SeenTypes(w) ==
    /\ seen' \in [Workers -> Snapshot]
    /\ \A v \in Workers \ {w} : seen'[v] = seen[v]
    /\ seen'[w].rows \subseteq Ids(req[w].order)' /\ seen'[w].then \notin Saving

LEMMA ContinueTypes ==
  ASSUME TInv, NEW w \in Workers, NEW step \in Step \ {"idle"}, Goto(w, step), UNCHANGED req,
         SeenTypes(w), step \in Saving => seen'[w].row.id \in Ids(req[w].order)'
  PROVE  WorkerTypes' /\ Others(w) /\ Loaded(w)'
<1>1. pc'[w] = step /\ req'[w] = req[w]
  BY DEF TInv, TypeOK, Goto
<1>2. WorkerTypes' /\ Others(w)
  BY DEF TInv, TypeOK, Goto, WorkerTypes, Others, SeenTypes
<1>3. Loaded(w)'
  BY <1>1 DEF Loaded, SeenTypes
<1>4. QED
  BY <1>2, <1>3

LEMMA SeenFields ==
  ASSUME TInv, NEW w \in Workers, IdsKept, UNCHANGED req
  PROVE  /\ UNCHANGED seen => SeenTypes(w)
         /\ \A r \in Reservation : seen' = [seen EXCEPT ![w].row = r] =>
               SeenTypes(w) /\ seen'[w].row = r
         /\ \A n \in OrderStatus : seen' = [seen EXCEPT ![w].next = n] => SeenTypes(w)
         /\ \A n \in Int : seen' = [seen EXCEPT ![w].onHand = n] => SeenTypes(w)
         /\ \A n \in Int : seen' = [seen EXCEPT ![w].reserved = {n}] => SeenTypes(w)
         /\ \A n \in Balance : seen' = [seen EXCEPT ![w].rollup = n] => SeenTypes(w)
         /\ \A n \in Line : seen' = [seen EXCEPT ![w].line = n] => SeenTypes(w)
         /\ \A n \in Step \ Saving : seen' = [seen EXCEPT ![w].then = n] => SeenTypes(w)
         /\ \A n \in Int, r \in Reservation :
               seen' = [seen EXCEPT ![w].onHand = n, ![w].row = r] => SeenTypes(w)
         /\ \A n \in Step \ Saving : seen' = [seen EXCEPT ![w].onHand = 0, ![w].reserved = {},
                ![w].rollup = Nothing.rollup, ![w].then = n] => SeenTypes(w)
<1>0. seen \in [Workers -> Snapshot] /\ seen[w].rows \subseteq Ids(req[w].order)
      /\ seen[w].then \notin Saving /\ req[w].order \in Orders /\ Nothing.rollup \in Balance
  BY DEF TInv, TypeOK, Loaded, Request, Nothing, Balance
<1>1. Ids(req[w].order) \subseteq Ids(req[w].order)'
  <2>1. PICK o \in Orders : o = req[w].order
    BY <1>0
  <2>2. Ids(req[w].order) = Ids(o) /\ Ids(req[w].order)' = Ids(o)'
    BY <2>1 DEF Ids
  <2>3. QED
    BY <2>2 DEF IdsKept
<1>2. seen[w].rows \subseteq Ids(req[w].order)'
  BY <1>0, <1>1
<1> HIDE DEF Ids
<1>3. QED
  BY <1>0, <1>2 DEF SeenTypes, Snapshot

LEMMA QuietAnswer ==
  ASSUME TInv, NEW w \in Workers, UNCHANGED docs, Answer(w)
  PROVE  TInv'
<1>1. DocumentTypes' /\ HistoryTypes' /\ Numbered' /\ IdsKept
  BY QuietRows DEF docs, Answer, KeepHistory, TInv, TypeOK, DocumentTypes, HistoryTypes
<1>2. WorkerTypes' /\ Others(w) /\ Loaded(w)'
  BY AnswerTypes DEF Answer
<1>3. QED
  BY <1>1, <1>2, TypeStep

LEMMA QuietContinue ==
  ASSUME TInv, NEW w \in Workers, NEW step \in Step \ {"idle"}, UNCHANGED docs,
         Continue(w, step), SeenTypes(w),
         step \in Saving => seen'[w].row.id \in Ids(req[w].order)'
  PROVE  TInv'
<1>1. DocumentTypes' /\ HistoryTypes' /\ Numbered' /\ IdsKept
  BY QuietRows DEF docs, Continue, KeepHistory, TInv, TypeOK, DocumentTypes, HistoryTypes
<1>2. WorkerTypes' /\ Others(w) /\ Loaded(w)'
  BY ContinueTypes DEF Continue
<1>3. QED
  BY <1>1, <1>2, TypeStep

\* An active row of the order is a reservation of it.
LEMMA ActiveRow ==
  ASSUME TypeOK, NEW o \in Orders, NEW r \in ActiveRows(o)
  PROVE  r \in Reservation /\ r.id \in Ids(o) /\ Active(r)
<1>1. PICK i \in DOMAIN resv[o] : r = resv[o][i]
  BY DEF ActiveRows, Range
<1>2. resv[o][i] \in Reservation
  BY ElementOfSeq, LenProperties DEF TypeOK
<1>3. QED
  BY <1>1, <1>2 DEF Ids, ActiveRows

\* A request is about one order.
LEMMA RequestOrder ==
  ASSUME TypeOK, NEW w \in Workers
  PROVE  /\ req[w].order \in Orders /\ req[w].qty \in Nat /\ req[w].kind \in PostingKinds
         /\ req[w].event \in Nat
         /\ line[req[w].order] \in Line /\ seen[w] \in Snapshot /\ seen[w].line \in Line
         /\ seen[w].row \in Reservation /\ ledger[req[w].order] \in Int
  BY DEF TypeOK, Request, Snapshot

LEMMA OpenIsNat ==
  ASSUME NEW o \in Orders, NEW l \in Line PROVE Open(o, l) \in Nat
<1>1. Quantity[o] \in Int /\ l.fulfilled \in Int /\ l.cancelled \in Int
  BY OrdersAssumption DEF Line
<1>2. QED
  BY <1>1 DEF Open, AtLeast0

\* Receiving a request.
LEMMA ReceiveTypes ==
  ASSUME TInv, NEW w \in Workers, NEW r \in Request, NEW step \in Step \ ({"idle"} \cup Saving),
         Receive(w, r, step), \/ UNCHANGED seen
                              \/ \E s \in OrderStatus : seen' = [seen EXCEPT ![w].status = s]
  PROVE  TInv'
<1>1. DocumentTypes' /\ HistoryTypes' /\ Numbered' /\ IdsKept
  BY QuietRows DEF docs, Receive, TInv, TypeOK, DocumentTypes, HistoryTypes
<1>2. seen[w] = Nothing /\ seen \in [Workers -> Snapshot]
  BY DEF TInv, Loaded, Receive, At, TypeOK
<1>3. seen' \in [Workers -> Snapshot] /\ seen'[w].rows = {} /\ seen'[w].then = "idle"
      /\ \A v \in Workers \ {w} : seen'[v] = seen[v]
  <2>1. CASE UNCHANGED seen
    BY <1>2, <2>1, Blank
  <2>2. ASSUME NEW s \in OrderStatus, seen' = [seen EXCEPT ![w].status = s] PROVE <1>3!1
    BY <1>2, <2>2, Blank DEF Snapshot
  <2>3. QED
    BY <2>1, <2>2
<1>4. pc'[w] = step /\ WorkerTypes' /\ Others(w)
  BY <1>3 DEF TInv, TypeOK, Receive, Goto, WorkerTypes, Others
<1>5. Loaded(w)'
  BY <1>3, <1>4 DEF Loaded, Saving
<1>6. QED
  BY <1>1, <1>4, <1>5, TypeStep

\* Saving a reservation.
LEMMA SaveTypes ==
  ASSUME TInv, NEW o \in Orders, NEW r \in Reservation, r.id \in Ids(o), resv' = Saved(o, r)
  PROVE  resv' \in [Orders -> Seq(Reservation)] /\ Numbered' /\ IdsKept
  BY SavedRows, SaveKeepsIds DEF TInv, IdsKept

\* The next reservation of an order is numbered after those it has.
LEMMA AddTypes ==
  ASSUME TInv, NEW o \in Orders, NEW r \in Reservation, r.id = Len(resv[o]) + 1,
         resv' = [resv EXCEPT ![o] = Append(resv[o], r)]
  PROVE  resv' \in [Orders -> Seq(Reservation)] /\ Numbered' /\ IdsKept
<1> DEFINE s == resv[o]
           n == Len(resv[o])
           t == Append(resv[o], r)
<1>1. s \in Seq(Reservation) /\ n \in Nat /\ DOMAIN s = 1 .. n
  BY LenProperties DEF TInv, TypeOK
<1>2. /\ t \in Seq(Reservation) /\ Len(t) = n + 1 /\ DOMAIN t = 1 .. n + 1
      /\ \A i \in 1 .. n : t[i] = s[i]
      /\ t[n + 1] = r
  BY <1>1, AppendProperties, LenProperties
<1> HIDE DEF t
<1>3. /\ resv' \in [Orders -> Seq(Reservation)] /\ resv'[o] = t
      /\ \A x \in Orders : x # o => resv'[x] = resv[x]
  BY <1>1, <1>2 DEF t, TInv, TypeOK
<1>4. \A i \in 1 .. n : s[i].id \in 1 .. n
  BY <1>1 DEF TInv, Numbered
<1>5. \A i, j \in 1 .. n : s[i].id = s[j].id => i = j
  BY <1>1 DEF TInv, Numbered
<1> HIDE DEF s, n
<1>6. \A i \in 1 .. n + 1 : t[i].id \in 1 .. n + 1
  <2>1. TAKE i \in 1 .. n + 1
  <2>2. CASE i \in 1 .. n
    BY <1>1, <1>2, <1>4, <2>2
  <2>3. CASE i = n + 1
    BY <1>1, <1>2, <2>3 DEF n
  <2>4. QED
    BY <1>1, <2>2, <2>3
<1>7. \A i, j \in 1 .. n + 1 : t[i].id = t[j].id => i = j
  <2>1. SUFFICES ASSUME NEW i \in 1 .. n + 1, NEW j \in 1 .. n + 1, t[i].id = t[j].id
                 PROVE  i = j
    OBVIOUS
  <2>2. t[n + 1].id = n + 1
    BY <1>2 DEF n
  <2>3. \A k \in 1 .. n : t[k].id \in 1 .. n
    BY <1>2, <1>4
  <2>4. CASE i \in 1 .. n /\ j \in 1 .. n
    BY <1>2, <1>5, <2>1, <2>4
  <2>5. CASE i = n + 1 \/ j = n + 1
    <3>1. i = n + 1 => j \notin 1 .. n
      BY <1>1, <2>1, <2>2, <2>3
    <3>2. j = n + 1 => i \notin 1 .. n
      BY <1>1, <2>1, <2>2, <2>3
    <3>3. QED
      BY <1>1, <2>5, <3>1, <3>2
  <2>6. QED
    BY <1>1, <2>4, <2>5
<1>8. Numbered'
  <2>1. ASSUME NEW x \in Orders, x # o
        PROVE  /\ \A i \in DOMAIN resv'[x] : resv'[x][i].id \in 1 .. Len(resv'[x])
               /\ \A i, j \in DOMAIN resv'[x] : resv'[x][i].id = resv'[x][j].id => i = j
    BY <1>3, <2>1 DEF TInv, Numbered
  <2>2. /\ \A i \in DOMAIN t : t[i].id \in 1 .. Len(t)
        /\ \A i, j \in DOMAIN t : t[i].id = t[j].id => i = j
    BY <1>2, <1>6, <1>7
  <2>3. QED
    BY <1>3, <2>1, <2>2 DEF Numbered
<1>9. Ids(o) \subseteq Ids(o)'
  <2>1. SUFFICES ASSUME NEW i \in 1 .. n PROVE s[i].id \in Ids(o)'
    BY <1>1 DEF Ids, s
  <2>2. s[i].id = t[i].id /\ i \in DOMAIN t
    BY <1>1, <1>2
  <2>3. QED
    BY <1>3, <2>2 DEF Ids
<1>10. IdsKept
  <2>1. ASSUME NEW x \in Orders, x # o PROVE Ids(x) \subseteq Ids(x)'
    BY <1>3, <2>1 DEF Ids
  <2>2. QED
    BY <1>9, <2>1 DEF IdsKept
<1>11. QED
  BY <1>3, <1>8, <1>10

\* What a save of a loaded row writes is a reservation.
LEMMA RewrittenType ==
  ASSUME NEW a \in Reservation, NEW b \in Reservation, NEW c \in Int, NEW st \in ReservationStatus
  PROVE  /\ Rewritten(a, b, c, st) \in Reservation /\ Rewritten(a, b, c, st).id = a.id
         /\ Rewritten(a, b, c, st).quantity = a.quantity
         /\ Rewritten(a, b, c, st).version = a.version
  BY DEF Rewritten, Reservation

\* A step that writes an order, a line, an event, the ledger or the balance, and goes
\* on or answers.
LEMMA WriteTypes ==
  ASSUME TInv, NEW w \in Workers, DocumentTypes', UNCHANGED resv,
         \/ Answer(w)
         \/ \E step \in Step \ ({"idle"} \cup Saving) : Continue(w, step) /\ SeenTypes(w)
  PROVE  TInv'
<1>1. HistoryTypes' /\ Numbered' /\ IdsKept
  BY QuietRows DEF Answer, Continue, KeepHistory, TInv, TypeOK, HistoryTypes
<1>2. WorkerTypes' /\ Others(w) /\ Loaded(w)'
  BY AnswerTypes, ContinueTypes DEF Answer, Continue
<1>3. QED
  BY <1>1, <1>2, TypeStep

\* A step that saves a reservation and refreshes the balance.
LEMMA SaveRowTypes ==
  ASSUME TInv, NEW w \in Workers, NEW r \in Reservation, r.id \in Ids(req[w].order),
         resv' = Saved(req[w].order, r), UNCHANGED <<order, line, events, ledger, rollup, req>>,
         NEW step \in Step \ ({"idle"} \cup Saving), Goto(w, step),
         HistoryTypes', \/ \E then \in Step \ Saving : seen' = [seen EXCEPT ![w].then = then]
                        \/ IdsKept => SeenTypes(w)
  PROVE  TInv'
<1>1. PICK o \in Orders : o = req[w].order
  BY DEF TInv, TypeOK, Request
<1>2. resv' \in [Orders -> Seq(Reservation)] /\ Numbered' /\ IdsKept
  BY <1>1, SaveTypes
<1>3. DocumentTypes'
  BY <1>2 DEF TInv, TypeOK, DocumentTypes
<1>4. SeenTypes(w)
  BY <1>2, SeenFields
<1>5. WorkerTypes' /\ Others(w) /\ Loaded(w)'
  BY <1>4, ContinueTypes
<1>6. QED
  BY <1>2, <1>3, <1>5, TypeStep

LEMMA StatusType ==
  ASSUME NEW st \in OrderStatus, NEW h
  PROVE  AfterFulfillment(st, h) \in OrderStatus /\ AfterReversal(st, h) \in OrderStatus
<1>1. AfterFulfillment(st, h) \in OrderStatus
  BY DEF AfterFulfillment, OrderStatus
<1>2. AfterReversal(st, h) \in OrderStatus
  BY DEF AfterReversal, OrderStatus
<1>3. QED
  BY <1>1, <1>2

LEMMA RollupType == ASSUME NEW s \in Snapshot, rollup \in Balance PROVE RollupSaved(s) \in Balance
<1>1. ~(s.reserved \subseteq {s.rollup.reserved}) => (CHOOSE n \in s.reserved : TRUE) \in Int
  <2>1. s.reserved \in SUBSET Int
    BY DEF Snapshot
  <2>2. QED
    BY <2>1
<1>2. s.onHand \in Int /\ rollup.onHand \in Int /\ rollup.reserved \in Int
  BY DEF Snapshot, Balance
<1>3. QED
  BY <1>1, <1>2 DEF RollupSaved, Balance

\* The steps that only read.
LEMMA ReadSteps ==
  ASSUME TInv, NEW w \in Workers,
         \/ ReserveOpen(w) \/ ReserveFind(w) \/ ReserveBalance(w) \/ ReserveSum(w)
         \/ ReleaseFind(w) \/ ReadEvent(w) \/ ReadLine(w) \/ StockCheck(w)
         \/ ConsumeFind(w) \/ RestoreFind(w) \/ ReadLines(w) \/ DropFind(w)
         \/ SumReserved(w) \/ SumLedger(w) \/ ReadRollup(w)
  PROVE  TInv'
<1>0. TypeOK /\ seen[w] \in Snapshot /\ Loaded(w)
  BY DEF TInv, TypeOK
<1>1. PICK o \in Orders : o = req[w].order
  BY <1>0, RequestOrder
<1>2. /\ line[o] \in Line /\ req[w].qty \in Nat /\ req[w].kind \in PostingKinds
      /\ req[w].order \in Orders
  BY <1>0, <1>1, RequestOrder
<1>3. UNCHANGED docs
  BY DEF ReserveOpen, ReserveFind, ReserveBalance, ReserveSum, ReleaseFind, ReadEvent, ReadLine,
         StockCheck, ConsumeFind, RestoreFind, ReadLines, DropFind, SumReserved, SumLedger, ReadRollup
<1>4. IdsKept
  BY <1>3, QuietRows DEF docs
<1>5. Ids(o)' = Ids(o)
  BY <1>3 DEF docs, Ids
<1>6. ASSUME Answer(w) PROVE TInv'
  BY <1>3, <1>6, QuietAnswer
\* A step that goes on with what one field was read into.
<1>7. ASSUME NEW step \in Step \ ({"idle"} \cup Saving), Continue(w, step),
             \/ UNCHANGED seen
             \/ \E n \in Int : seen' = [seen EXCEPT ![w].onHand = n]
             \/ \E n \in Int : seen' = [seen EXCEPT ![w].reserved = {n}]
             \/ seen' = [seen EXCEPT ![w].rollup = rollup]
             \/ \E l \in Line : seen' = [seen EXCEPT ![w].line = l]
             \/ \E n \in OrderStatus : seen' = [seen EXCEPT ![w].next = n]
             \/ \E n \in Int, r \in Reservation :
                   seen' = [seen EXCEPT ![w].onHand = n, ![w].row = r]
      PROVE  TInv'
  <2>1. UNCHANGED req /\ rollup \in Balance
    BY <1>0, <1>7 DEF Continue, TypeOK
  <2>2. SeenTypes(w)
    BY <1>4, <1>7, <2>1, SeenFields
  <2>3. QED
    BY <1>3, <1>7, <2>2, QuietContinue
\* A step that goes on to save a row of the order.
<1>8. ASSUME NEW step \in Saving, Continue(w, step),
             NEW r \in Reservation, r.id \in Ids(o), seen' = [seen EXCEPT ![w].row = r]
      PROVE  TInv'
  <2>1. UNCHANGED req /\ step \in Step \ {"idle"}
    BY <1>8 DEF Continue, Saving, Step
  <2>2. SeenTypes(w) /\ seen'[w].row = r
    BY <1>4, <1>8, <2>1, SeenFields
  <2>3. Ids(req[w].order)' = Ids(o)
    BY <1>1, <1>5, <2>1 DEF Ids
  <2>4. QED
    BY <1>3, <1>8, <2>1, <2>2, <2>3, QuietContinue
<1> USE DEF Step, Saving
<1>10. CASE ReserveOpen(w)
  BY <1>1, <1>2, <1>6, <1>7, <1>10 DEF ReserveOpen
<1>11. CASE ReserveFind(w)
  BY <1>6, <1>7, <1>11 DEF ReserveFind
<1>12. CASE ReserveBalance(w)
  BY <1>0, <1>7, <1>12 DEF ReserveBalance, TypeOK, Balance
<1>13. CASE ReserveSum(w)
  <2>1. Open(o, seen[w].line) \in Int /\ Available(w) \in Int
    <3>1. seen[w].line \in Line /\ seen[w].onHand \in Int /\ Reserved \in Int
      BY <1>0, SumsAreInts DEF Snapshot
    <3>2. QED
      BY <3>1, OpenIsNat DEF Available, AtLeast0
  <2>2. PICK qty \in Int : qty = Lesser(Open(o, seen[w].line), Available(w))
    BY <2>1 DEF Lesser
  <2>3. [NoRow EXCEPT !.quantity = qty] \in Reservation
    BY Blank DEF Reservation
  <2>4. \/ UNCHANGED seen /\ Continue(w, "release_find")
        \/ UNCHANGED seen /\ Continue(w, "backorder_line")
        \/ /\ seen' = [seen EXCEPT ![w].onHand = 0, ![w].row = [NoRow EXCEPT !.quantity = qty]]
           /\ Continue(w, "reserve_create")
    BY <1>1, <1>13, <2>2 DEF ReserveSum
  <2>5. QED
    BY <1>7, <2>3, <2>4
<1>14. CASE ReleaseFind(w)
  <2>1. PICK rows \in SUBSET Nat : /\ rows \subseteq Ids(o)
                     /\ \/ UNCHANGED seen /\ Continue(w, "undo_save")
                        \/ Answer(w)
                        \/ seen' = [seen EXCEPT ![w].rows = rows] /\ Continue(w, "release_save")
    <3> DEFINE rows == {r.id : r \in ActiveRows(o)}
    <3>1. rows \in SUBSET Nat /\ rows \subseteq Ids(o)
      <4>1. \A r \in ActiveRows(o) : r.id \in Nat /\ r.id \in Ids(o)
        BY <1>0, ActiveRow DEF Reservation
      <4>2. QED
        BY <4>1
    <3>2. \/ UNCHANGED seen /\ Continue(w, "undo_save")
          \/ Answer(w)
          \/ seen' = [seen EXCEPT ![w].rows = rows] /\ Continue(w, "release_save")
      BY <1>1, <1>14 DEF ReleaseFind, AfterRelease
    <3> HIDE DEF rows
    <3>3. QED
      BY <3>1, <3>2
  <2>2. CASE seen' = [seen EXCEPT ![w].rows = rows] /\ Continue(w, "release_save")
    <3>1. UNCHANGED req /\ seen \in [Workers -> Snapshot]
      BY <1>0, <2>2 DEF Continue, TypeOK
    <3>2. Ids(req[w].order)' = Ids(o)
      BY <1>1, <1>5, <3>1 DEF Ids
    <3>3. SeenTypes(w)
      BY <1>0, <2>1, <2>2, <3>1, <3>2 DEF SeenTypes, Snapshot, Loaded
    <3>4. QED
      BY <1>3, <2>2, <3>3, QuietContinue
  <2>3. QED
    BY <1>6, <1>7, <2>1, <2>2
<1>15. CASE ReadEvent(w)
  BY <1>6, <1>7, <1>15 DEF ReadEvent
<1>16. CASE ReadLine(w)
  BY <1>1, <1>2, <1>6, <1>7, <1>16 DEF ReadLine
<1>17. CASE StockCheck(w)
  BY <1>6, <1>7, <1>17 DEF StockCheck
<1>18. CASE ConsumeFind(w)
  <2>1. \A r \in ActiveRows(o) : r \in Reservation /\ r.id \in Ids(o)
    BY <1>0, ActiveRow
  <2>2. QED
    BY <1>1, <1>7, <1>8, <1>18, <2>1 DEF ConsumeFind
<1>19. CASE RestoreFind(w)
  <2>1. \A i \in DOMAIN resv[o] : resv[o][i] \in Reservation /\ resv[o][i].id \in Ids(o)
    BY <1>0, ElementOfSeq, LenProperties DEF TypeOK, Ids
  <2>2. \A i \in Restorable(o) : i \in DOMAIN resv[o]
    BY DEF Restorable
  <2>3. QED
    BY <1>1, <1>7, <1>8, <1>19, <2>1, <2>2 DEF RestoreFind
<1>20. CASE ReadLines(w)
  <2>1. seen[w].status \in OrderStatus
    BY <1>0 DEF Snapshot
  <2>2. PICK n \in OrderStatus : seen' = [seen EXCEPT ![w].next = n] /\ Continue(w, "save_order")
    BY <1>20, <2>1, StatusType DEF ReadLines
  <2>3. QED
    BY <1>7, <2>2
<1>21. CASE DropFind(w)
  <2>1. \A r \in ActiveRows(o) : r \in Reservation /\ r.id \in Ids(o)
    BY <1>0, ActiveRow
  <2>2. QED
    BY <1>1, <1>6, <1>8, <1>21, <2>1 DEF DropFind
<1>22. CASE SumReserved(w)
  BY <1>0, <1>7, <1>22, SumsAreInts DEF SumReserved
<1>23. CASE SumLedger(w)
  BY <1>0, <1>7, <1>23, SumsAreInts DEF SumLedger
<1>24. CASE ReadRollup(w)
  BY <1>7, <1>24 DEF ReadRollup
<1>25. QED
  BY <1>10, <1>11, <1>12, <1>13, <1>14, <1>15, <1>16, <1>17, <1>18, <1>19, <1>20, <1>21, <1>22,
     <1>23, <1>24

\* The steps that write an order, a line, an event, the ledger or the balance.
LEMMA WriteSteps ==
  ASSUME TInv, NEW w \in Workers,
         \/ SaveConfirmed(w) \/ BackorderLine(w) \/ UndoConfirm(w) \/ SaveCancelled(w)
         \/ Post(w) \/ SaveLine(w) \/ SaveOrder(w) \/ CreateEvent(w) \/ MarkEvent(w)
         \/ SaveRollup(w)
  PROVE  TInv'
<1>0. TypeOK /\ seen[w] \in Snapshot /\ seen[w].then \in Step \ Saving
  BY DEF TInv, TypeOK, Snapshot, Loaded
<1>1. PICK o \in Orders : o = req[w].order
  BY <1>0, RequestOrder
<1>2. /\ line[o] \in Line /\ req[w].qty \in Nat /\ req[w].kind \in PostingKinds
      /\ ledger[o] \in Int /\ req[w].event \in Nat /\ seen[w].line \in Line
      /\ seen[w].next \in OrderStatus
  BY <1>0, <1>1, RequestOrder DEF Snapshot
<1>3. UNCHANGED resv
  BY DEF SaveConfirmed, BackorderLine, UndoConfirm, SaveCancelled, Post, SaveLine, SaveOrder,
         CreateEvent, MarkEvent, SaveRollup
<1>4. IdsKept
  BY <1>3, QuietRows
<1>5. DocumentTypes /\ resv' \in [Orders -> Seq(Reservation)]
  BY <1>0, <1>3 DEF TypeOK, DocumentTypes
<1>6. ASSUME DocumentTypes', Answer(w) PROVE TInv'
  BY <1>3, <1>6, WriteTypes
<1>7. ASSUME DocumentTypes', NEW step \in Step \ ({"idle"} \cup Saving), Continue(w, step),
             \/ UNCHANGED seen
             \/ \E n \in Step \ Saving : seen' = [seen EXCEPT ![w].then = n]
             \/ seen' = [seen EXCEPT ![w].onHand = 0, ![w].reserved = {},
                            ![w].rollup = Nothing.rollup, ![w].then = "idle"]
      PROVE  TInv'
  <2>1. UNCHANGED req /\ "idle" \in Step \ Saving
    BY <1>7 DEF Continue, Step, Saving
  <2>2. SeenTypes(w)
    BY <1>4, <1>7, <2>1, SeenFields
  <2>3. QED
    BY <1>3, <1>7, <2>2, WriteTypes
<1> USE DEF Step, Saving
<1>8. ASSUME NEW st \in OrderStatus, order' = [order EXCEPT ![o] = st],
             UNCHANGED <<line, events, ledger, rollup>>
      PROVE  DocumentTypes'
  BY <1>5, <1>8 DEF DocumentTypes
<1>9. ASSUME NEW l \in Line, line' = [line EXCEPT ![o] = l],
             UNCHANGED <<order, events, ledger, rollup>>
      PROVE  DocumentTypes'
  BY <1>5, <1>9 DEF DocumentTypes
<1>10. CASE SaveConfirmed(w)
  BY <1>1, <1>7, <1>8, <1>10 DEF SaveConfirmed, OrderStatus
<1>11. CASE BackorderLine(w)
  <2>1. PICK n \in Int : line' = [line EXCEPT ![o] = [line[o] EXCEPT !.backordered = n]]
    <3>1. Open(o, seen[w].line) \in Nat /\ seen[w].row.quantity \in Int
          /\ line[o].backordered \in Int
      BY <1>0, <1>2, OpenIsNat DEF Snapshot, Reservation, Line
    <3>2. PICK n \in Int :
            n = line[o].backordered + Open(o, seen[w].line) - seen[w].row.quantity
      BY <3>1
    <3>3. line' = [line EXCEPT ![o] = [line[o] EXCEPT !.backordered = n]]
      BY <1>1, <1>11, <3>2 DEF BackorderLine
    <3>4. QED
      BY <3>3
  <2>2. [line[o] EXCEPT !.backordered = n] \in Line
    BY <1>2 DEF Line
  <2>3. QED
    BY <1>6, <1>9, <1>11, <2>1, <2>2 DEF BackorderLine
<1>12. CASE UndoConfirm(w)
  BY <1>1, <1>6, <1>8, <1>12 DEF UndoConfirm, OrderStatus
<1>13. CASE SaveCancelled(w)
  BY <1>1, <1>7, <1>8, <1>13 DEF SaveCancelled, OrderStatus
<1>14. CASE Post(w)
  <2>1. ledger[o] + Delta(w) \in Int
    BY <1>2 DEF Delta
  <2>2. DocumentTypes'
    BY <1>1, <1>5, <1>14, <2>1 DEF Post, DocumentTypes
  <2>3. \E n \in Step \ Saving : seen' = [seen EXCEPT ![w].then = n]
    <3>1. PICK n \in Step \ Saving :
            n = IF req[w].op = "post" THEN "consume_find" ELSE "restore_find"
      OBVIOUS
    <3>2. seen' = [seen EXCEPT ![w].then = n]
      BY <1>14, <3>1 DEF Post
    <3>3. QED
      BY <3>2
  <2>4. Continue(w, "sum_ledger")
    BY <1>14 DEF Post
  <2>5. QED
    BY <1>7, <2>2, <2>3, <2>4
<1>15. CASE SaveLine(w)
  <2> DEFINE q == IF req[w].op = "post" THEN req[w].qty ELSE -req[w].qty
  <2>1. PICK l \in Line : line' = [line EXCEPT ![o] = l]
    <3>0. /\ seen[w].line.fulfilled \in Int /\ seen[w].line.cancelled \in Int
          /\ seen[w].line.backordered \in Int /\ req[w].qty \in Int
      BY <1>2 DEF Line
    <3>1. CASE req[w].kind = "ship"
      <4>0. PICK n \in Int : n = seen[w].line.fulfilled + q
        BY <3>0
      <4>1. line' = [line EXCEPT ![o] = [line[o] EXCEPT !.fulfilled = n]]
        BY <1>1, <1>15, <3>1, <4>0 DEF SaveLine
      <4>2. [line[o] EXCEPT !.fulfilled = n] \in Line
        BY <1>2 DEF Line
      <4>3. QED
        BY <4>1, <4>2
    <3>2. CASE req[w].kind = "drop"
      <4>0. PICK n \in Int : n = seen[w].line.cancelled + q
        BY <3>0
      <4>1. line' = [line EXCEPT ![o] = [line[o] EXCEPT !.cancelled = n]]
        BY <1>1, <1>15, <3>2, <4>0 DEF SaveLine
      <4>2. [line[o] EXCEPT !.cancelled = n] \in Line
        BY <1>2 DEF Line
      <4>3. QED
        BY <4>1, <4>2
    <3>3. CASE req[w].kind = "backorder"
      <4>0. PICK n \in Int : n = seen[w].line.backordered + q
        BY <3>0
      <4>1. line' = [line EXCEPT ![o] = [line[o] EXCEPT !.backordered = n]]
        BY <1>1, <1>15, <3>3, <4>0 DEF SaveLine
      <4>2. [line[o] EXCEPT !.backordered = n] \in Line
        BY <1>2 DEF Line
      <4>3. QED
        BY <4>1, <4>2
    <3>4. QED
      BY <1>2, <3>1, <3>2, <3>3 DEF PostingKinds
  <2>2. QED
    BY <1>7, <1>9, <1>15, <2>1 DEF SaveLine
<1>16. CASE SaveOrder(w)
  <2>1. DocumentTypes'
    BY <1>1, <1>2, <1>5, <1>16 DEF SaveOrder, DocumentTypes
  <2>2. QED
    BY <1>7, <1>16, <2>1 DEF SaveOrder
<1>17. CASE CreateEvent(w)
  <2>1. [order |-> o, kind |-> req[w].kind, qty |-> req[w].qty, status |-> "posted"] \in Event
    BY <1>2 DEF Event
  <2>2. events' \in Seq(Event)
    BY <1>1, <1>5, <1>17, <2>1, AppendProperties DEF CreateEvent, DocumentTypes
  <2>3. DocumentTypes'
    BY <1>5, <1>17, <2>2 DEF CreateEvent, DocumentTypes
  <2>4. \/ Answer(w)
        \/ UNCHANGED seen /\ Continue(w, "mark_event")
        \/ UNCHANGED seen /\ Continue(w, "drop_find")
    BY <1>17 DEF CreateEvent
  <2>5. QED
    BY <1>6, <1>7, <2>3, <2>4
<1>18. CASE MarkEvent(w)
  <2> DEFINE e == req[w].event
  <2>1. events' = [events EXCEPT ![e] = [events[e] EXCEPT !.status = "reversed"]]
    BY <1>18 DEF MarkEvent
  <2>2. events' \in Seq(Event)
    <3>0. events \in Seq(Event)
      BY <1>5 DEF DocumentTypes
    <3>1. CASE e \in DOMAIN events
      <4>1. events[e] \in Event
        BY <3>0, <3>1, ElementOfSeq, LenProperties
      <4>2. [events[e] EXCEPT !.status = "reversed"] \in Event
        BY <4>1 DEF Event
      <4>3. QED
        BY <2>1, <3>0, <3>1, <4>2, ExceptSeq, LenProperties
    <3>2. CASE e \notin DOMAIN events
      <4>1. events' = events
        BY <2>1, <3>0, <3>2
      <4>2. QED
        BY <3>0, <4>1
    <3>3. QED
      BY <3>1, <3>2
  <2>3. DocumentTypes'
    BY <1>5, <1>18, <2>2 DEF MarkEvent, DocumentTypes
  <2>4. QED
    BY <1>6, <1>18, <2>3 DEF MarkEvent
<1>19. CASE SaveRollup(w)
  <2>1. rollup' \in Balance
    BY <1>0, <1>5, <1>19, RollupType DEF SaveRollup, DocumentTypes
  <2>2. DocumentTypes'
    BY <1>5, <1>19, <2>1 DEF SaveRollup, DocumentTypes
  <2>3. CASE seen[w].then = "idle"
    BY <1>6, <1>19, <2>2, <2>3 DEF SaveRollup
  <2>4. CASE seen[w].then # "idle"
    <3>1. seen[w].then \in Step \ ({"idle"} \cup Saving)
      BY <1>0, <2>4
    <3>2. QED
      BY <1>7, <1>19, <2>2, <2>4, <3>1 DEF SaveRollup
  <2>5. QED
    BY <2>3, <2>4
<1>20. QED
  BY <1>10, <1>11, <1>12, <1>13, <1>14, <1>15, <1>16, <1>17, <1>18, <1>19

\* One field of a reservation is changed.
LEMMA RowChanged ==
  ASSUME NEW a \in Reservation
  PROVE  /\ \A n \in Nat : [a EXCEPT !.id = n] \in Reservation /\ [a EXCEPT !.id = n].id = n
         /\ \A n \in Int : [a EXCEPT !.quantity = n] \in Reservation
                              /\ [a EXCEPT !.quantity = n].id = a.id
         /\ \A n \in Nat : [a EXCEPT !.version = n] \in Reservation
                              /\ [a EXCEPT !.version = n].id = a.id
         /\ \A st \in ReservationStatus : [a EXCEPT !.status = st] \in Reservation
                              /\ [a EXCEPT !.status = st].id = a.id
         /\ a.version + 1 \in Nat
  BY DEF Reservation

\* The steps that write a reservation.
LEMMA RowSteps ==
  ASSUME TInv, NEW w \in Workers,
         ReserveCreate(w) \/ ReleaseSave(w) \/ ConsumeSave(w) \/ RestoreSave(w) \/ DropSave(w)
  PROVE  TInv'
<1>0. TypeOK /\ seen[w] \in Snapshot /\ seen[w].then \in Step \ Saving /\ Loaded(w)
  BY DEF TInv, TypeOK, Snapshot, Loaded
<1>1. PICK o \in Orders : o = req[w].order
  BY <1>0, RequestOrder
<1>2. PICK loaded \in Reservation : loaded = seen[w].row
  BY <1>0, RequestOrder
<1>3. /\ req[w].qty \in Nat /\ taken \in [Orders -> Int] /\ HistoryTypes /\ DocumentTypes
      /\ loaded.quantity \in Int /\ loaded.consumed \in Int /\ loaded.id \in Nat
  BY <1>0, <1>2, RequestOrder DEF TypeOK, HistoryTypes, DocumentTypes, Reservation
<1>4. ASSUME UNCHANGED docs, Answer(w) PROVE TInv'
  BY <1>4, QuietAnswer
\* A save that refreshes the balance.
<1>5. ASSUME NEW r \in Reservation, r.id \in Ids(o), resv' = Saved(o, r),
             NEW then \in Step \ Saving, Refresh(w, then),
             UNCHANGED <<order, line, events, ledger, rollup, alone, requests, crashes>>,
             taken' \in [Orders -> Int]
      PROVE  TInv'
  <2>1. HistoryTypes'
    BY <1>3, <1>5 DEF HistoryTypes
  <2>2. "sum_reserved" \in Step \ ({"idle"} \cup Saving)
    BY DEF Step, Saving
  <2>3. QED
    BY <1>1, <1>5, <2>1, <2>2, SaveRowTypes DEF Refresh
\* The row of the order that a loaded one stands for.
<1>6. ASSUME NEW id \in Ids(o) PROVE RowById(o, id) \in Reservation /\ RowById(o, id).id = id
  BY <1>0, <1>6, RowOfId
<1>7. CASE ReserveCreate(w)
  <2>1. CASE UNCHANGED <<resv, seen>>
    <3>1. UNCHANGED docs /\ Continue(w, "release_find")
      <4>1. resv' # resv \/ Continue(w, "release_find")
        <5>1. SUFFICES ASSUME UNCHANGED resv, ~Continue(w, "release_find") PROVE FALSE
          OBVIOUS
        <5>2. resv' = [resv EXCEPT ![o] = Append(@, [seen[w].row EXCEPT !.id = Len(resv[o]) + 1])]
          BY <1>1, <1>7, <5>1 DEF ReserveCreate
        <5>3. resv[o] \in Seq(Reservation) /\ Len(resv[o]) \in Nat
          BY <1>0, LenProperties DEF TypeOK
        <5>4. [seen[w].row EXCEPT !.id = Len(resv[o]) + 1] \in Reservation
          <6>1. PICK n \in Nat : n = Len(resv[o]) + 1
            BY <5>3
          <6>2. QED
            BY <1>2, <6>1, RowChanged, Zenon
        <5>5. Len(resv'[o]) = Len(resv[o]) + 1
          BY <1>0, <5>2, <5>3, <5>4, AppendProperties DEF TypeOK
        <5>6. QED
          BY <5>1, <5>3, <5>5
      <4>2. QED
        BY <1>7, <2>1, <4>1 DEF ReserveCreate, docs
    <3>2. SeenTypes(w)
      <4>1. IdsKept /\ UNCHANGED req
        BY <2>1, <3>1, QuietRows DEF Continue
      <4>2. QED
        BY <2>1, <4>1, SeenFields
    <3>3. "release_find" \in Step \ {"idle"} /\ "release_find" \notin Saving
      BY DEF Step, Saving
    <3>4. QED
      BY <3>1, <3>2, <3>3, QuietContinue
  <2>2. CASE ~UNCHANGED <<resv, seen>>
    <3> DEFINE n == Len(resv[o]) + 1
               row == [loaded EXCEPT !.id = n]
    <3>1. n \in Nat /\ row \in Reservation /\ row.id = n
      <4>1. Len(resv[o]) \in Nat
        BY <1>0, LenProperties DEF TypeOK
      <4>2. QED
        BY <4>1 DEF Reservation
    <3>2. PICK then \in Step \ Saving :
            then = IF row.quantity < Open(o, seen[w].line) THEN "backorder_line" ELSE "idle"
      BY DEF Step, Saving
    <3>3. /\ resv' = [resv EXCEPT ![o] = Append(resv[o], row)]
          /\ Refresh(w, then) /\ KeepHistory
          /\ UNCHANGED <<order, line, events, ledger, rollup>>
      BY <1>1, <1>2, <1>7, <2>2, <3>2 DEF ReserveCreate
    <3> HIDE DEF row
    <3>4. resv' \in [Orders -> Seq(Reservation)] /\ Numbered' /\ IdsKept
      BY <3>1, <3>3, AddTypes
    <3>5. SeenTypes(w) /\ UNCHANGED req
      BY <3>3, <3>4, SeenFields DEF Refresh
    <3>6. "sum_reserved" \in Step \ {"idle"} /\ "sum_reserved" \notin Saving
      BY DEF Step, Saving
    <3>7. WorkerTypes' /\ Others(w) /\ Loaded(w)'
      BY <3>3, <3>5, <3>6, ContinueTypes DEF Refresh
    <3>8. DocumentTypes' /\ HistoryTypes'
      BY <1>3, <3>3, <3>4 DEF DocumentTypes, HistoryTypes, KeepHistory
    <3>9. QED
      BY <3>4, <3>7, <3>8, TypeStep
  <2>3. QED
    BY <2>1, <2>2
<1>8. CASE ReleaseSave(w)
  <2>1. PICK id \in seen[w].rows :
          /\ resv' = Saved(o, [RowById(o, id) EXCEPT !.status = "cancelled"])
          /\ seen' = [seen EXCEPT ![w].rows = seen[w].rows \ {id},
               ![w].then = IF seen[w].rows \ {id} = {} THEN AfterRelease(w) ELSE "release_save"]
    BY <1>1, <1>8 DEF ReleaseSave
  <2>2. id \in Ids(o)
    BY <1>0, <1>1 DEF Loaded
  <2>s. "cancelled" \in ReservationStatus
    BY DEF ReservationStatus
  <2>3. PICK r \in Reservation : r = [RowById(o, id) EXCEPT !.status = "cancelled"] /\ r.id = id
    <3>1. RowById(o, id) \in Reservation /\ RowById(o, id).id = id
      BY <1>6, <2>2
    <3>2. QED
      <4>1. PICK c \in Reservation : c = RowById(o, id) /\ c.id = id
        BY <3>1
      <4>2. /\ [c EXCEPT !.status = "cancelled"] \in Reservation
            /\ [c EXCEPT !.status = "cancelled"].id = c.id
        BY <2>s, RowChanged, Zenon
      <4>3. QED
        BY <4>1, <4>2, Zenon
  <2>4. PICK then \in Step \ Saving :
          then = IF seen[w].rows \ {id} = {} THEN AfterRelease(w) ELSE "release_save"
    BY DEF Step, Saving, AfterRelease
  <2>5. /\ Goto(w, "sum_reserved") /\ UNCHANGED req /\ KeepHistory
        /\ UNCHANGED <<order, line, events, ledger, rollup>>
    BY <1>8 DEF ReleaseSave, Continue
  <2>6. HistoryTypes'
    BY <1>3, <2>5 DEF HistoryTypes, KeepHistory
  <2>7. ASSUME IdsKept PROVE SeenTypes(w)
    <3>1. Ids(o) \subseteq Ids(o)' /\ Ids(req[w].order)' = Ids(o)'
      BY <1>1, <2>5, <2>7 DEF IdsKept, Ids
    <3>2. seen \in [Workers -> Snapshot] /\ seen[w].rows \subseteq Ids(o)
      BY <1>0, <1>1 DEF TypeOK, Loaded
    <3>3. seen' = [seen EXCEPT ![w].rows = seen[w].rows \ {id}, ![w].then = then]
      BY <2>1, <2>4
    <3>4. seen'[w].rows \subseteq Ids(o)' /\ seen'[w].then = then
      BY <3>1, <3>2, <3>3 DEF Snapshot
    <3>5. seen' \in [Workers -> Snapshot]
      BY <3>2, <3>3 DEF Snapshot
    <3>6. QED
      BY <3>1, <3>3, <3>4, <3>5 DEF SeenTypes
  <2>8. "sum_reserved" \in Step \ ({"idle"} \cup Saving)
    BY DEF Step, Saving
  <2>9. r.id \in Ids(req[w].order) /\ resv' = Saved(req[w].order, r)
    BY <1>1, <2>1, <2>2, <2>3
  <2>10. QED
    BY <2>5, <2>6, <2>7, <2>8, <2>9, SaveRowTypes
<1>9. CASE ConsumeSave(w)
  <2>0. pc[w] \in Saving
    BY <1>9 DEF ConsumeSave, At, Saving
  <2>1. PICK current \in Reservation : current = RowById(o, loaded.id) /\ current.id \in Ids(o)
    BY <1>0, <1>1, <1>2, <1>6, <2>0 DEF Loaded
  <2>2. PICK taking \in Int : taking = Consumption(w)
    BY <1>2, <1>3 DEF Consumption, Remaining, Lesser, AtLeast0
  <2>3. PICK st \in ReservationStatus :
          st = IF loaded.consumed + taking >= loaded.quantity
                 THEN "consumed" ELSE "partially_consumed"
    BY DEF ReservationStatus, ActiveStatus
  <2>4. PICK a \in Reservation :
          a = Rewritten(current, loaded, loaded.consumed + taking, st) /\ a.id = current.id
    BY <1>3, RewrittenType
  <2>5. PICK r \in Reservation : r = [a EXCEPT !.version = a.version + 1] /\ r.id = current.id
    <3>1. PICK n \in Nat : n = a.version + 1
      BY RowChanged
    <3>2. [a EXCEPT !.version = n] \in Reservation /\ [a EXCEPT !.version = n].id = a.id
      BY RowChanged, Zenon
    <3>3. a.id = current.id
      BY <2>4
    <3>4. QED
      BY <3>1, <3>2, <3>3, Zenon
  <2>6. CASE current.version # loaded.version
    BY <1>1, <1>2, <1>4, <1>9, <2>1, <2>6 DEF ConsumeSave, docs
  <2>7. CASE current.version = loaded.version
    <3>1. /\ resv' = Saved(o, r) /\ taken' = [taken EXCEPT ![o] = taken[o] + taking]
          /\ Refresh(w, "save_line")
          /\ UNCHANGED <<order, line, events, ledger, rollup, alone, requests, crashes>>
      BY <1>1, <1>2, <1>9, <2>1, <2>2, <2>3, <2>4, <2>5, <2>7 DEF ConsumeSave
    <3>2. "save_line" \in Step \ Saving /\ taken' \in [Orders -> Int]
      BY <1>3, <3>1 DEF Step, Saving
    <3>3. QED
      BY <1>5, <2>1, <2>5, <3>1, <3>2
  <2>8. QED
    BY <2>6, <2>7
<1>10. CASE RestoreSave(w)
  <2>0. pc[w] \in Saving
    BY <1>10 DEF RestoreSave, At, Saving
  <2>1. PICK current \in Reservation : current = RowById(o, loaded.id) /\ current.id \in Ids(o)
    BY <1>0, <1>1, <1>2, <1>6, <2>0 DEF Loaded
  <2>2. PICK back \in Int : back = Lesser(loaded.consumed, req[w].qty)
    BY <1>3 DEF Lesser
  <2>3. PICK st \in ReservationStatus :
          st = IF loaded.consumed - back > 0 THEN "partially_consumed" ELSE "active"
    BY DEF ReservationStatus, ActiveStatus
  <2>4. PICK r \in Reservation :
          r = Rewritten(current, loaded, loaded.consumed - back, st) /\ r.id = current.id
    BY <1>3, RewrittenType
  <2>5. \/ Answer(w) /\ UNCHANGED docs
        \/ /\ resv' = Saved(o, r) /\ taken' = [taken EXCEPT ![o] = taken[o] - back]
           /\ Refresh(w, "save_line")
           /\ UNCHANGED <<order, line, events, ledger, rollup, alone, requests, crashes>>
    BY <1>1, <1>2, <1>10, <2>1, <2>2, <2>3, <2>4 DEF RestoreSave, docs
  <2>6. "save_line" \in Step \ Saving
    BY DEF Step, Saving
  <2>7. taken' = [taken EXCEPT ![o] = taken[o] - back] => taken' \in [Orders -> Int]
    BY <1>3
  <2>8. QED
    BY <1>4, <1>5, <2>1, <2>4, <2>5, <2>6, <2>7
<1>11. CASE DropSave(w)
  <2>0. pc[w] \in Saving
    BY <1>11 DEF DropSave, At, Saving
  <2>1. PICK current \in Reservation : current = RowById(o, loaded.id) /\ current.id \in Ids(o)
    BY <1>0, <1>1, <1>2, <1>6, <2>0 DEF Loaded
  <2>2. PICK r \in Reservation :
          /\ r = IF req[w].qty >= Remaining(loaded)
                   THEN [current EXCEPT !.status = "released"]
                   ELSE [current EXCEPT !.quantity = loaded.quantity - req[w].qty]
          /\ r.id = current.id
    <3>1. CASE req[w].qty >= Remaining(loaded)
      <4>1. "released" \in ReservationStatus
        BY DEF ReservationStatus
      <4>2. QED
        BY <3>1, <4>1, RowChanged, Zenon
    <3>2. CASE ~(req[w].qty >= Remaining(loaded))
      <4>1. PICK n \in Int : n = loaded.quantity - req[w].qty
        BY <1>3
      <4>2. QED
        BY <3>2, <4>1, RowChanged, Zenon
    <3>3. QED
      BY <3>1, <3>2
  <2>3. /\ resv' = Saved(o, r) /\ Refresh(w, "idle") /\ KeepHistory
        /\ UNCHANGED <<order, line, events, ledger, rollup>>
    BY <1>1, <1>2, <1>11, <2>1, <2>2 DEF DropSave
  <2>4. "idle" \in Step \ Saving
    BY DEF Step, Saving
  <2>5. QED
    BY <1>3, <1>5, <2>1, <2>2, <2>3, <2>4 DEF KeepHistory
<1>12. QED
  BY <1>7, <1>8, <1>9, <1>10, <1>11

LEMMA ArrivalTypes ==
  ASSUME TInv, NEW w \in Workers, Arrival(w)
  PROVE  TInv'
<1>0. TypeOK
  BY DEF TInv
<1> USE DEF Step, Saving
<1>1. CASE Rebuild(w)
  BY <1>1, Blank, ReceiveTypes DEF Rebuild
<1>2. ASSUME NEW o \in Orders, ReceiveConfirm(w, o) PROVE TInv'
  <2>1. Ask("confirm", o, "ship", 0, 0) \in Request
    BY DEF Ask, Request, PostingKinds
  <2>2. QED
    BY <1>2, <2>1, ReceiveTypes DEF ReceiveConfirm
<1>3. ASSUME NEW o \in Orders, ReceiveCancel(w, o) PROVE TInv'
  <2>1. Ask("cancel", o, "ship", 0, 0) \in Request
    BY DEF Ask, Request, PostingKinds
  <2>2. QED
    BY <1>3, <2>1, ReceiveTypes DEF ReceiveCancel
<1>4. ASSUME NEW o \in Orders, NEW kind \in PostingKinds, NEW q \in 1 .. Quantity[o],
             ReceivePosting(w, o, kind, q) PROVE TInv'
  <2>1. Ask("post", o, kind, q, 0) \in Request /\ order[o] \in OrderStatus
    BY <1>0 DEF Ask, Request, TypeOK
  <2>2. QED
    BY <1>4, <2>1, ReceiveTypes DEF ReceivePosting
<1>5. ASSUME NEW e \in DOMAIN events, ReceiveReversal(w, e) PROVE TInv'
  <2>1. events[e] \in Event /\ e \in Nat
    BY <1>0, ElementOfSeq, LenProperties DEF TypeOK
  <2>2. PICK r \in Request :
          r = Ask("reverse", events[e].order, events[e].kind, events[e].qty, e)
    BY <2>1 DEF Ask, Request, Event
  <2>3. order[events[e].order] \in OrderStatus
    BY <1>0, <2>1 DEF Event, TypeOK
  <2>4. QED
    BY <1>5, <2>2, <2>3, ReceiveTypes DEF ReceiveReversal
<1>6. QED
  BY <1>1, <1>2, <1>3, <1>4, <1>5 DEF Arrival

LEMMA TypesStep == TInv /\ [Next]_vars => TInv'
<1> SUFFICES ASSUME TInv, [Next]_vars PROVE TInv'
  OBVIOUS
<1>1. ASSUME NEW w \in Workers, Serve(w) PROVE TInv'
  BY <1>1, ReadSteps, WriteSteps, RowSteps DEF Serve
<1>2. ASSUME NEW w \in Workers, Crash(w) PROVE TInv'
  <2>1. DocumentTypes' /\ HistoryTypes' /\ Numbered' /\ IdsKept
    BY <1>2, QuietRows DEF docs, Crash, TInv, TypeOK, DocumentTypes, HistoryTypes
  <2>2. WorkerTypes' /\ Others(w) /\ Loaded(w)'
    BY <1>2, AnswerTypes DEF Crash
  <2>3. QED
    BY <2>1, <2>2, TypeStep
<1>3. CASE UNCHANGED vars
  <2>1. TypeOK'
    BY <1>3 DEF vars, docs, TInv, TypeOK
  <2>2. Numbered' /\ IdsKept
    BY <1>3, QuietRows DEF vars, docs, TInv
  <2>3. ASSUME NEW w \in Workers PROVE Loaded(w)'
    <3>1. Loaded(w)
      BY DEF TInv
    <3>2. Ids(req[w].order)' = Ids(req[w].order)
      BY <1>3 DEF Ids, vars, docs
    <3>3. QED
      BY <1>3, <3>1, <3>2 DEF Loaded, vars
  <2>4. QED
    BY <2>1, <2>2, <2>3 DEF TInv
<1>4. QED
  BY <1>1, <1>2, <1>3, ArrivalTypes DEF Next

\* Every variable keeps its type, whatever is interleaved and wherever the server
\* dies: in particular each request that saves a reservation finds it among those of
\* its order, so that the row it rewrites is one.
THEOREM StockTypes == Spec => []TypeOK
<1>1. TInv => TypeOK
  BY DEF TInv
<1>2. QED
  BY <1>1, TypesInit, TypesStep, PTL DEF Spec

-----------------------------------------------------------------------------
(* Consumption of reservations.                                            *)

\* A step is one worker's.
LEMMA OneWorker ==
  ASSUME TInv, NEW w \in Workers, Arrival(w) \/ Serve(w) \/ Crash(w)
  PROVE  Others(w)
<1>0. pc \in [Workers -> Step] /\ req \in [Workers -> Request] /\ seen \in [Workers -> Snapshot]
  BY DEF TInv, TypeOK
<1>1. ASSUME NEW step, NEW r, NEW s, pc' = [pc EXCEPT ![w] = step],
             UNCHANGED req \/ req' = [req EXCEPT ![w] = r],
             UNCHANGED seen \/ seen' = [seen EXCEPT ![w] = s]
      PROVE  Others(w)
  BY <1>0, <1>1 DEF Others
<1>2. CASE Arrival(w)
  BY <1>0, <1>2 DEF Arrival, Rebuild, ReceiveConfirm, ReceiveCancel, ReceivePosting,
     ReceiveReversal, Receive, Goto, Others
<1>3. CASE Crash(w)
  BY <1>0, <1>3 DEF Crash, Goto, Others
<1>4. ASSUME Answer(w) PROVE Others(w)
  BY <1>0, <1>4 DEF Answer, Goto, Others
<1>5. ASSUME NEW step, Continue(w, step), \A v \in Workers \ {w} : seen'[v] = seen[v]
      PROVE  Others(w)
  BY <1>0, <1>5 DEF Continue, Goto, Others
<1>6. ASSUME NEW then, Refresh(w, then) PROVE Others(w)
  BY <1>0, <1>6 DEF Refresh, Goto, Others
<1>7. ASSUME SaveConfirmed(w) \/ ReserveOpen(w) \/ ReserveFind(w) \/ ReserveBalance(w)
             \/ ReserveSum(w) \/ ReserveCreate(w) \/ BackorderLine(w) \/ UndoConfirm(w)
      PROVE  Others(w)
  BY <1>0, <1>4, <1>5, <1>6, <1>7 DEF SaveConfirmed, ReserveOpen, ReserveFind, ReserveBalance,
     ReserveSum, ReserveCreate, BackorderLine, UndoConfirm
<1>8. ASSUME SaveCancelled(w) \/ ReleaseFind(w) \/ ReleaseSave(w)
             \/ ReadEvent(w) \/ ReadLine(w) \/ StockCheck(w) \/ Post(w)
      PROVE  Others(w)
  BY <1>0, <1>4, <1>5, <1>6, <1>8 DEF SaveCancelled, ReleaseFind, ReleaseSave, ReadEvent,
     ReadLine, StockCheck, Post
<1>9. ASSUME ConsumeFind(w) \/ ConsumeSave(w) \/ RestoreFind(w) \/ RestoreSave(w)
             \/ SaveLine(w) \/ ReadLines(w) \/ SaveOrder(w) \/ CreateEvent(w) \/ MarkEvent(w)
      PROVE  Others(w)
  BY <1>0, <1>4, <1>5, <1>6, <1>9 DEF ConsumeFind, ConsumeSave, RestoreFind, RestoreSave,
     SaveLine, ReadLines, SaveOrder, CreateEvent, MarkEvent
<1>10. ASSUME DropFind(w) \/ DropSave(w)
             \/ SumReserved(w) \/ SumLedger(w) \/ ReadRollup(w) \/ SaveRollup(w)
      PROVE  Others(w)
  BY <1>0, <1>4, <1>5, <1>6, <1>10 DEF DropFind, DropSave, SumReserved, SumLedger, ReadRollup,
     SaveRollup
<1>11. QED
  BY <1>2, <1>3, <1>7, <1>8, <1>9, <1>10 DEF Serve

\* The row of a number in a sequence of rows.
RowOf(s, id) == s[CHOOSE i \in DOMAIN s : s[i].id = id]
Distinct(s) == \A i, j \in DOMAIN s : s[i].id = s[j].id => i = j

LEMMA RowOfIndex ==
  ASSUME NEW s, Distinct(s), NEW i \in DOMAIN s, NEW id, id = s[i].id
  PROVE  RowOf(s, id) = s[i]
  BY DEF RowOf, Distinct

\* A save changes the row it saves and no other.
LEMMA RowsAfterSave ==
  ASSUME TInv, NEW o \in Orders, NEW r \in Reservation, r.id \in Ids(o), resv' = Saved(o, r),
         NEW x \in Ids(o)
  PROVE  RowById(o, x)' = IF x = r.id THEN r ELSE RowById(o, x)
<1>1. PICK p \in DOMAIN resv[o] : /\ resv[o][p].id = r.id
                                  /\ Moved(resv'[o], resv[o], p, r)
  BY SavedRows DEF TInv
<1>2. resv' \in [Orders -> Seq(Reservation)] /\ Numbered' /\ TypeOK
  BY SaveTypes DEF TInv
<1>3. PICK s : s = resv[o]
  OBVIOUS
<1>4. PICK t : t = resv'[o]
  OBVIOUS
<1>5. PICK n \in Nat : n = Len(s) /\ DOMAIN s = 1 .. n /\ DOMAIN t = 1 .. n /\ n = Len(t)
  BY <1>1, <1>2, <1>3, <1>4, LenProperties DEF Moved, TypeOK
<1>6. RowById(o, x)' = RowOf(t, x) /\ RowById(o, x) = RowOf(s, x)
  BY <1>3, <1>4 DEF RowById, Place, RowOf
<1>7. Distinct(s) /\ Distinct(t)
  BY <1>2, <1>3, <1>4 DEF Distinct, Numbered, TInv
<1>8. PICK j \in 1 .. n : s[j].id = x
  BY <1>3, <1>5 DEF Ids
<1>9. Moved(t, s, p, r) /\ p \in 1 .. n /\ s[p].id = r.id
  BY <1>1, <1>3, <1>4, <1>5
<1>10. CASE x = r.id
  <2>1. n \in DOMAIN t /\ t[n] = r
    BY <1>5, <1>9 DEF Moved
  <2>2. RowOf(t, x) = t[n]
    BY <1>7, <1>10, <2>1, RowOfIndex
  <2>3. QED
    BY <1>6, <1>10, <2>1, <2>2
<1>11. CASE x # r.id
  <2>1. j # p
    BY <1>8, <1>9, <1>11
  <2>2. PICK i \in 1 .. n : i = IF j < p THEN j ELSE j - 1
    BY <1>5, <1>9, <2>1
  <2>3. t[i] = s[j]
    <3>1. CASE j < p
      BY <1>5, <1>9, <2>2, <3>1 DEF Moved
    <3>2. CASE j > p
      <4>1. i + 1 = j /\ p <= i /\ i < n
        BY <1>9, <2>2, <3>2
      <4>2. QED
        BY <1>5, <1>9, <4>1 DEF Moved
    <3>3. QED
      BY <1>9, <2>1, <3>1, <3>2
  <2>4. i \in DOMAIN t /\ j \in DOMAIN s /\ t[i].id = x
    BY <1>5, <1>8, <2>3
  <2>5. PICK a \in DOMAIN t : a = i
    BY <2>4
  <2>6. PICK b \in DOMAIN s : b = j
    BY <2>4
  <2>7. RowOf(t, x) = t[a] /\ RowOf(s, x) = s[b]
    <3>1. x = t[a].id /\ x = s[b].id
      BY <1>8, <2>4, <2>5, <2>6
    <3>2. QED
      BY <1>7, <3>1, RowOfIndex
  <2>8. QED
    BY <1>6, <1>11, <2>3, <2>5, <2>6, <2>7
<1>12. QED
  BY <1>10, <1>11

\* A row that is added leaves the others.
LEMMA RowsAfterAdd ==
  ASSUME TInv, NEW o \in Orders, NEW r \in Reservation, r.id = Len(resv[o]) + 1,
         resv' = [resv EXCEPT ![o] = Append(resv[o], r)], NEW x \in Ids(o)
  PROVE  RowById(o, x)' = RowById(o, x)
<1>1. PICK s \in Seq(Reservation) : s = resv[o]
  BY DEF TInv, TypeOK
<1>2. PICK t : t = Append(s, r)
  OBVIOUS
<1>3. /\ Len(s) \in Nat /\ DOMAIN s = 1 .. Len(s)
      /\ DOMAIN t = 1 .. Len(s) + 1 /\ \A i \in 1 .. Len(s) : t[i] = s[i]
  BY <1>2, AppendProperties, LenProperties
<1>4. resv'[o] = t /\ Numbered'
  BY <1>1, <1>2, AddTypes DEF TInv, TypeOK
<1>5. Distinct(s) /\ Distinct(t)
  <2>1. Numbered
    BY DEF TInv
  <2>2. \A i, j \in DOMAIN resv[o] : resv[o][i].id = resv[o][j].id => i = j
    BY <2>1 DEF Numbered
  <2>3. \A i, j \in DOMAIN resv'[o] : resv'[o][i].id = resv'[o][j].id => i = j
    BY <1>4 DEF Numbered
  <2>4. Distinct(s)
    BY <1>1, <2>2 DEF Distinct
  <2>5. Distinct(t)
    <3>1. \A u : u = resv'[o] => \A i, j \in DOMAIN u : u[i].id = u[j].id => i = j
      BY <2>3
    <3>2. \A i, j \in DOMAIN t : t[i].id = t[j].id => i = j
      BY <1>4, <3>1
    <3>3. QED
      BY <3>2 DEF Distinct
  <2>6. QED
    BY <2>4, <2>5
<1>6. RowById(o, x)' = RowOf(t, x) /\ RowById(o, x) = RowOf(s, x)
  BY <1>1, <1>4 DEF RowById, Place, RowOf
<1>7. PICK i \in DOMAIN s : s[i].id = x
  BY <1>1 DEF Ids
<1>8. i \in DOMAIN t /\ t[i] = s[i]
  BY <1>3
<1>9. RowOf(t, x) = t[i]
  BY <1>5, <1>7, <1>8, RowOfIndex
<1>10. RowOf(s, x) = s[i]
  BY <1>5, <1>7, RowOfIndex
<1>11. QED
  BY <1>6, <1>8, <1>9, <1>10

-----------------------------------------------------------------------------
(* Shipped and issued.                                                     *)

Refreshing == {"sum_reserved", "sum_ledger", "read_rollup", "save_rollup"}

\* The steps of a posting, apart from the refreshes of the balance.
Posting == {"read_line", "stock_check", "post", "consume_find", "consume_save", "save_line",
            "read_lines", "save_order", "create_event", "drop_find", "drop_save"}
Reversing == {"read_event", "restore_find", "restore_save", "mark_event"}

\* The types the argument needs; what sums and reservations hold does not matter.
HasFulfilled(l) == "fulfilled" \in DOMAIN l /\ l.fulfilled \in Int

SeenLine(s) ==
    /\ {"line", "then"} \subseteq DOMAIN s
    /\ HasFulfilled(s.line)
    /\ s.then \in Step

Lines == DOMAIN line = Orders /\ \A o \in Orders : HasFulfilled(line[o])

Types ==
    /\ Lines
    /\ ledger \in [Orders -> Int]
    /\ pc \in [Workers -> Step]
    /\ req \in [Workers -> Request]
    /\ DOMAIN seen = Workers
    /\ \A w \in Workers : SeenLine(seen[w])

\* Which requests reach which steps, and where a refresh returns to.
Flow(w) ==
    /\ req[w].op # "reverse" /\ pc[w] \notin Reversing
    /\ pc[w] \in Posting => req[w].op = "post"
    /\ req[w].op = "post" => pc[w] \in Posting \cup Refreshing
    /\ pc[w] \in {"drop_find", "drop_save"} => req[w].kind = "drop"
    /\ pc[w] = "idle" => seen[w].then = "idle"
    /\ pc[w] \in Refreshing =>
         IF req[w].op = "post"
           THEN seen[w].then \in {"consume_find", "save_line", "idle"}
           ELSE seen[w].then \in {"idle", "release_save", "undo_save", "backorder_line"}

\* A posting that ships: what it will write to the line is covered by the ledger,
\* from its ledger entry on with its own quantity included.
Covered(w) ==
    LET booked == seen[w].line.fulfilled
        issued == -ledger[req[w].order]
    IN req[w].op = "post" /\ req[w].kind = "ship" =>
         /\ pc[w] \in {"stock_check", "post"} => booked <= issued
         /\ pc[w] \in {"consume_find", "consume_save", "save_line"} \cup Refreshing
              => booked + req[w].qty <= issued

\* The inductive invariant.
IInv == Types /\ (\A w \in Workers : Flow(w) /\ Covered(w)) /\ FulfilledIsIssued

\* No request reverses a fulfilment.
NoReversal == "reverse" \notin Kinds

\* Nothing is booked or issued at the beginning.
LEMMA IssuedInit == Init => IInv
<1> SUFFICES ASSUME Init PROVE IInv
  OBVIOUS
<1>1. NoOrder \in Orders
  BY OrdersAssumption DEF NoOrder
<1>2. SeenLine(Nothing)
  BY DEF SeenLine, Nothing, HasFulfilled, NoLine, Step
<1>3. Types
  BY <1>1, <1>2 DEF Init, Types, Lines, HasFulfilled, NoLine, Step, Request, NoRequest, PostingKinds
<1>4. QED
  BY <1>3 DEF Init, IInv, Flow, Covered, NoRequest, Nothing, Posting, Refreshing, Reversing,
              FulfilledIsIssued, NoLine

\* A step of one worker that is not a write of its line or of the ledger: what the
\* others read and rely on stays.
Local(w) ==
    /\ pc' \in [Workers -> Step] /\ req' \in [Workers -> Request]
    /\ DOMAIN seen' = Workers /\ SeenLine(seen'[w])
    /\ \A v \in Workers \ {w} : pc'[v] = pc[v] /\ req'[v] = req[v] /\ seen'[v] = seen[v]

LEMMA LocalStep ==
  ASSUME IInv, NEW w \in Workers, Local(w), Lines',
         ledger' \in [Orders -> Int], \A o \in Orders : ledger'[o] <= ledger[o],
         Flow(w)', Covered(w)', FulfilledIsIssued'
  PROVE  IInv'
<1>1. Types'
  BY DEF IInv, Types, Local
<1>2. ASSUME NEW v \in Workers, v # w PROVE Flow(v)' /\ Covered(v)'
  <2>1. pc'[v] = pc[v] /\ req'[v] = req[v] /\ seen'[v] = seen[v]
    BY <1>2 DEF Local
  <2>2. Flow(v)'
    BY <2>1 DEF IInv, Flow
  <2>3. req[v].order \in Orders /\ req[v].qty \in Nat /\ seen[v].line.fulfilled \in Int
    BY DEF IInv, Types, Request, SeenLine, HasFulfilled
  <2>4. ledger[req[v].order] \in Int /\ ledger'[req[v].order] \in Int
        /\ ledger'[req[v].order] <= ledger[req[v].order]
    BY <2>3 DEF IInv, Types
  <2>5. Covered(v)
    BY DEF IInv
  <2>6. Covered(v)'
    BY <2>1, <2>3, <2>4, <2>5 DEF Covered
  <2>7. QED
    BY <2>2, <2>6
<1>3. QED
  BY <1>1, <1>2 DEF IInv

\* The same when line and ledger stay as they are.
LEMMA QuietStep ==
  ASSUME IInv, NEW w \in Workers, Local(w), UNCHANGED <<line, ledger>>,
         Flow(w)', Covered(w)'
  PROVE  IInv'
<1>1. FulfilledIsIssued'
  BY DEF IInv, FulfilledIsIssued
<1>2. Lines' /\ ledger' \in [Orders -> Int]
  BY DEF IInv, Types, Lines
<1>3. \A o \in Orders : ledger'[o] <= ledger[o]
  BY DEF IInv, Types
<1>4. QED
  BY <1>1, <1>2, <1>3, LocalStep

\* A request that is answered has nothing to keep, whatever it wrote last.
LEMMA AnsweredStep ==
  ASSUME IInv, NEW w \in Workers, Lines', UNCHANGED ledger, FulfilledIsIssued', Goto(w, "idle"),
         req' = [req EXCEPT ![w] = NoRequest], seen' = [seen EXCEPT ![w] = Nothing]
  PROVE  IInv'
<1>1. NoRequest \in Request /\ NoRequest.op = "rebuild"
  BY OrdersAssumption DEF NoRequest, Request, NoOrder, PostingKinds
<1>2. SeenLine(Nothing)
  BY DEF SeenLine, Nothing, HasFulfilled, NoLine, Step
<1>3. pc'[w] = "idle" /\ req'[w] = NoRequest /\ seen'[w] = Nothing
  BY DEF IInv, Types, Goto
<1>4. Local(w)
  BY <1>1, <1>2, <1>3 DEF Local, IInv, Types, Goto, Step
<1>5. Flow(w)' /\ Covered(w)'
  BY <1>1, <1>3 DEF Flow, Covered, Nothing, Posting, Reversing, Refreshing
<1>6. ledger' \in [Orders -> Int] /\ \A o \in Orders : ledger'[o] <= ledger[o]
  BY DEF IInv, Types
<1>7. QED
  BY <1>4, <1>5, <1>6, LocalStep

\* The same when it wrote to neither line nor ledger.
LEMMA AnswerStep ==
  ASSUME IInv, NEW w \in Workers, UNCHANGED <<line, ledger>>, Goto(w, "idle"),
         req' = [req EXCEPT ![w] = NoRequest], seen' = [seen EXCEPT ![w] = Nothing]
  PROVE  IInv'
<1>1. Lines' /\ FulfilledIsIssued'
  BY DEF IInv, Types, Lines, FulfilledIsIssued
<1>2. QED
  BY <1>1, AnsweredStep

\* What the request has read of the line, and where it returns to, stays.
SeenKept(w) ==
    /\ DOMAIN seen' = Workers
    /\ \A v \in Workers \ {w} : seen'[v] = seen[v]
    /\ SeenLine(seen'[w]) /\ seen'[w].line = seen[w].line /\ seen'[w].then = seen[w].then

\* Steps that may follow without a new obligation.
Allowed(w, step) ==
    /\ step \in Step \ (Reversing \cup {"idle"})
    /\ step \in Posting => req[w].op = "post"
    /\ req[w].op = "post" => step \in Posting \cup Refreshing
    /\ step \in {"drop_find", "drop_save"} => req[w].kind = "drop"
    /\ step \in Refreshing => pc[w] \in Refreshing
    /\ req[w].op = "post" /\ req[w].kind = "ship" =>
         /\ step \in {"stock_check", "post"} => pc[w] \in {"stock_check", "post"}
         /\ step \in {"consume_find", "consume_save", "save_line"} \cup Refreshing
              => pc[w] \in {"consume_find", "consume_save", "save_line"} \cup Refreshing

LEMMA ContinueStep ==
  ASSUME IInv, NEW w \in Workers, NEW step, Goto(w, step), UNCHANGED <<line, ledger, req>>,
         SeenKept(w), Allowed(w, step)
  PROVE  IInv'
<1>1. pc'[w] = step /\ req'[w] = req[w]
  BY DEF IInv, Types, Goto
<1>2. Local(w)
  BY DEF Local, IInv, Types, Goto, SeenKept, Allowed
<1>3. Flow(w)'
  BY <1>1 DEF IInv, Flow, SeenKept, Allowed
<1>4. Covered(w)'
  BY <1>1 DEF IInv, Covered, SeenKept, Allowed
<1>5. QED
  BY <1>2, <1>3, <1>4, QuietStep

\* What a request reads into other fields leaves the line it has read.
LEMMA Untouched ==
  ASSUME IInv, NEW w \in Workers
  PROVE  /\ UNCHANGED seen => SeenKept(w)
         /\ \A r : seen' = [seen EXCEPT ![w].row = r] => SeenKept(w)
         /\ \A r : seen' = [seen EXCEPT ![w].rows = r] => SeenKept(w)
         /\ \A n : seen' = [seen EXCEPT ![w].next = n] => SeenKept(w)
         /\ \A n : seen' = [seen EXCEPT ![w].onHand = n] => SeenKept(w)
         /\ \A n : seen' = [seen EXCEPT ![w].reserved = n] => SeenKept(w)
         /\ \A n : seen' = [seen EXCEPT ![w].rollup = n] => SeenKept(w)
         /\ \A n, r : seen' = [seen EXCEPT ![w].onHand = n, ![w].row = r] => SeenKept(w)
  BY DEF IInv, Types, SeenKept, SeenLine

\* A refresh returns to a step that its request allows.
LEMMA RefreshStep ==
  ASSUME IInv, NEW w \in Workers, NEW then, UNCHANGED <<line, ledger>>, Refresh(w, then),
         then \in IF req[w].op = "post" THEN {"consume_find", "save_line", "idle"}
                   ELSE {"idle", "release_save", "undo_save", "backorder_line"},
         req[w].op = "post" /\ req[w].kind = "ship" =>
            pc[w] \in {"consume_find", "consume_save", "save_line"}
  PROVE  IInv'
<1>1. pc'[w] = "sum_reserved" /\ req'[w] = req[w]
  BY DEF IInv, Types, Refresh, Goto
<1>2. SeenLine(seen'[w]) /\ seen'[w].line = seen[w].line /\ seen'[w].then = then
  BY DEF IInv, Types, Refresh, SeenLine, Step
<1>3. Local(w)
  BY <1>2 DEF Local, IInv, Types, Refresh, Goto, Step
<1>4. Flow(w)'
  BY <1>1, <1>2 DEF IInv, Flow, Refreshing, Posting, Reversing
<1>5. Covered(w)'
  BY <1>1, <1>2 DEF IInv, Covered, Refreshing
<1>6. QED
  BY <1>3, <1>4, <1>5, QuietStep

\* Every step but those of a reversal keeps the invariant.
LEMMA IssuedStep == NoReversal /\ IInv /\ [Next]_vars => IInv'
<1> SUFFICES ASSUME NoReversal, IInv, [Next]_vars PROVE IInv'
  OBVIOUS
<1>f. \A w \in Workers : Flow(w)
  BY DEF IInv
<1> USE DEF At, docs, Flow, Allowed, Step, PostingKinds, Posting, Refreshing, Reversing
<1>1. ASSUME NEW w \in Workers, SaveConfirmed(w) PROVE IInv'
  BY <1>1, <1>f, Untouched, AnswerStep, ContinueStep DEF SaveConfirmed, Continue, Answer
<1>2. ASSUME NEW w \in Workers, ReserveFind(w) PROVE IInv'
  BY <1>2, <1>f, Untouched, AnswerStep, ContinueStep DEF ReserveFind, Continue, Answer
<1>3. ASSUME NEW w \in Workers, ReserveBalance(w) PROVE IInv'
  BY <1>3, <1>f, Untouched, AnswerStep, ContinueStep DEF ReserveBalance, Continue, Answer
<1>4. ASSUME NEW w \in Workers, ReserveSum(w) PROVE IInv'
  BY <1>4, <1>f, Untouched, AnswerStep, ContinueStep DEF ReserveSum, Continue, Answer
<1>5. ASSUME NEW w \in Workers, UndoConfirm(w) PROVE IInv'
  BY <1>5, <1>f, Untouched, AnswerStep, ContinueStep DEF UndoConfirm, Continue, Answer
<1>6. ASSUME NEW w \in Workers, SaveCancelled(w) PROVE IInv'
  BY <1>6, <1>f, Untouched, AnswerStep, ContinueStep DEF SaveCancelled, Continue, Answer
<1>7. ASSUME NEW w \in Workers, ReleaseFind(w) PROVE IInv'
  BY <1>7, <1>f, Untouched, AnswerStep, ContinueStep DEF ReleaseFind, Continue, Answer, AfterRelease
<1>8. ASSUME NEW w \in Workers, StockCheck(w) PROVE IInv'
  BY <1>8, <1>f, Untouched, AnswerStep, ContinueStep DEF StockCheck, Continue, Answer
<1>9. ASSUME NEW w \in Workers, ConsumeFind(w) PROVE IInv'
  BY <1>9, <1>f, Untouched, AnswerStep, ContinueStep DEF ConsumeFind, Continue, Answer
<1>10. ASSUME NEW w \in Workers, ReadLines(w) PROVE IInv'
  BY <1>10, <1>f, Untouched, AnswerStep, ContinueStep DEF ReadLines, Continue, Answer
<1>11. ASSUME NEW w \in Workers, SaveOrder(w) PROVE IInv'
  BY <1>11, <1>f, Untouched, AnswerStep, ContinueStep DEF SaveOrder, Continue, Answer
<1>12. ASSUME NEW w \in Workers, CreateEvent(w) PROVE IInv'
  BY <1>12, <1>f, Untouched, AnswerStep, ContinueStep DEF CreateEvent, Continue, Answer
<1>13. ASSUME NEW w \in Workers, DropFind(w) PROVE IInv'
  BY <1>13, <1>f, Untouched, AnswerStep, ContinueStep DEF DropFind, Continue, Answer
<1>14. ASSUME NEW w \in Workers, SumReserved(w) PROVE IInv'
  BY <1>14, <1>f, Untouched, AnswerStep, ContinueStep DEF SumReserved, Continue, Answer
<1>15. ASSUME NEW w \in Workers, SumLedger(w) PROVE IInv'
  BY <1>15, <1>f, Untouched, AnswerStep, ContinueStep DEF SumLedger, Continue, Answer
<1>16. ASSUME NEW w \in Workers, ReadRollup(w) PROVE IInv'
  BY <1>16, <1>f, Untouched, AnswerStep, ContinueStep DEF ReadRollup, Continue, Answer
<1>17. ASSUME NEW w \in Workers, Rebuild(w) PROVE IInv'
  <2>1. NoRequest \in Request
    BY OrdersAssumption DEF NoRequest, Ask, Request, NoOrder, PostingKinds
  <2>2. Local(w)
    BY <1>17, <2>1 DEF Rebuild, Receive, Goto, Local, IInv, Types, SeenLine
  <2>3. pc'[w] = "sum_reserved" /\ req'[w] = NoRequest /\ UNCHANGED <<line, ledger>>
    BY <1>17 DEF Rebuild, Receive, Goto, IInv, Types
  <2>4. seen'[w].then \in {"idle", "release_save", "undo_save"}
    BY <1>17, <1>f DEF Rebuild, Receive
  <2>9. Flow(w)' /\ Covered(w)'
    BY <2>3, <2>4 DEF NoRequest, Ask, Covered
  <2>10. QED
    BY <2>2, <2>3, <2>9, QuietStep
<1>18. ASSUME NEW w \in Workers,
              NEW o \in Orders, ReceiveConfirm(w, o) PROVE IInv'
  <2>1. Ask("confirm", o, "ship", 0, 0) \in Request
    BY OrdersAssumption DEF NoRequest, Ask, Request, NoOrder, PostingKinds
  <2>2. Local(w)
    BY <1>18, <2>1 DEF ReceiveConfirm, Receive, Goto, Local, IInv, Types, SeenLine
  <2>3. pc'[w] = "confirm_save" /\ req'[w] = Ask("confirm", o, "ship", 0, 0) /\ UNCHANGED <<line, ledger>>
    BY <1>18 DEF ReceiveConfirm, Receive, Goto, IInv, Types
  <2>9. Flow(w)' /\ Covered(w)'
    BY <2>3 DEF NoRequest, Ask, Covered
  <2>10. QED
    BY <2>2, <2>3, <2>9, QuietStep
<1>19. ASSUME NEW w \in Workers,
              NEW o \in Orders, ReceiveCancel(w, o) PROVE IInv'
  <2>1. Ask("cancel", o, "ship", 0, 0) \in Request
    BY OrdersAssumption DEF NoRequest, Ask, Request, NoOrder, PostingKinds
  <2>2. Local(w)
    BY <1>19, <2>1 DEF ReceiveCancel, Receive, Goto, Local, IInv, Types, SeenLine
  <2>3. pc'[w] = "cancel_save" /\ req'[w] = Ask("cancel", o, "ship", 0, 0) /\ UNCHANGED <<line, ledger>>
    BY <1>19 DEF ReceiveCancel, Receive, Goto, IInv, Types
  <2>9. Flow(w)' /\ Covered(w)'
    BY <2>3 DEF NoRequest, Ask, Covered
  <2>10. QED
    BY <2>2, <2>3, <2>9, QuietStep
<1>20. ASSUME NEW w \in Workers, NEW o \in Orders, NEW kind \in PostingKinds,
              NEW q \in 1 .. Quantity[o], ReceivePosting(w, o, kind, q) PROVE IInv'
  <2>1. Ask("post", o, kind, q, 0) \in Request
    BY OrdersAssumption DEF NoRequest, Ask, Request, NoOrder, PostingKinds
  <2>2. Local(w)
    BY <1>20, <2>1 DEF ReceivePosting, Receive, Goto, Local, IInv, Types, SeenLine
  <2>3. pc'[w] = "read_line" /\ req'[w] = Ask("post", o, kind, q, 0) /\ UNCHANGED <<line, ledger>>
    BY <1>20 DEF ReceivePosting, Receive, Goto, IInv, Types
  <2>9. Flow(w)' /\ Covered(w)'
    BY <2>3 DEF NoRequest, Ask, Covered
  <2>10. QED
    BY <2>2, <2>3, <2>9, QuietStep
<1>21. ASSUME NEW w \in Workers, ReserveOpen(w) PROVE IInv'
  <2>1. CASE Answer(w)
    BY <1>21, <2>1, AnswerStep DEF ReserveOpen, Answer
  <2>2. CASE ~Answer(w)
    <3> DEFINE l == line[req[w].order]
    <3>1. HasFulfilled(l)
      BY DEF IInv, Types, Lines, Request
    <3>2. /\ pc' = [pc EXCEPT ![w] = "reserve_find"] /\ UNCHANGED <<line, ledger, req>>
          /\ seen' = [seen EXCEPT ![w].line = l] /\ pc[w] = "reserve_open"
      BY <1>21, <2>2 DEF ReserveOpen, Continue, Goto
    <3>3. Local(w)
      BY <3>1, <3>2 DEF Local, IInv, Types, SeenLine
    <3>4. pc'[w] = "reserve_find" /\ req'[w] = req[w] /\ req[w].op # "post"
      BY <3>2, <1>f DEF IInv, Types
    <3>5. Flow(w)' /\ Covered(w)'
      BY <1>f, <3>4 DEF Covered
    <3>6. QED
      BY <3>2, <3>3, <3>5, QuietStep
  <2>3. QED
    BY <2>1, <2>2
<1>22. ASSUME NEW w \in Workers, ReserveCreate(w) PROVE IInv'
  BY <1>22, <1>f, Untouched, ContinueStep, RefreshStep DEF ReserveCreate, Continue
<1>23. ASSUME NEW w \in Workers, ReleaseSave(w) PROVE IInv'
  <2>0. PICK then \in {"idle", "release_save", "undo_save"} :
          \E rows : seen' = [seen EXCEPT ![w].rows = rows, ![w].then = then]
    BY <1>23 DEF ReleaseSave, AfterRelease
  <2>1. PICK rows : seen' = [seen EXCEPT ![w].rows = rows, ![w].then = then]
    BY <2>0
  <2>2. /\ pc' = [pc EXCEPT ![w] = "sum_reserved"] /\ UNCHANGED <<line, ledger, req>>
        /\ pc[w] = "release_save"
    BY <1>23 DEF ReleaseSave, Continue, Goto
  <2>3. SeenLine(seen'[w]) /\ seen'[w].then = then
    BY <2>1 DEF IInv, Types, SeenLine
  <2>4. Local(w)
    BY <2>1, <2>2, <2>3 DEF Local, IInv, Types
  <2>5. pc'[w] = "sum_reserved" /\ req'[w] = req[w] /\ req[w].op # "post"
    BY <2>2, <1>f DEF IInv, Types
  <2>6. Flow(w)' /\ Covered(w)'
    BY <1>f, <2>3, <2>5 DEF Covered
  <2>7. QED
    BY <2>2, <2>4, <2>6, QuietStep
<1>24. ASSUME NEW w \in Workers, ReadLine(w) PROVE IInv'
  <2>1. CASE Answer(w)
    BY <1>24, <2>1, AnswerStep DEF ReadLine, Answer
  <2>2. CASE ~Answer(w)
    <3> DEFINE o == req[w].order
               l == line[o]
               step == IF req[w].kind = "ship" THEN "stock_check" ELSE "save_line"
    <3>0. pc[w] = "read_line" /\ req[w].op = "post" /\ req[w].kind \in PostingKinds
      BY <1>24, <1>f DEF ReadLine, IInv, Types, Request
    <3>1. o \in Orders /\ HasFulfilled(l) /\ l.fulfilled <= -ledger[o]
      BY DEF IInv, Types, Lines, Request, FulfilledIsIssued
    <3>2. /\ pc' = [pc EXCEPT ![w] = step] /\ UNCHANGED <<line, ledger, req>>
          /\ seen' = [seen EXCEPT ![w].line = l]
      BY <1>24, <2>2, <3>0 DEF ReadLine, Continue, Goto
    <3>3. SeenLine(seen'[w]) /\ seen'[w].line = l
      BY <3>1, <3>2 DEF IInv, Types, SeenLine
    <3>4. Local(w)
      BY <3>2, <3>3 DEF Local, IInv, Types
    <3>5. pc'[w] = step /\ req'[w] = req[w]
      BY <3>2 DEF IInv, Types
    <3>6. Flow(w)' /\ Covered(w)'
      BY <1>f, <3>0, <3>1, <3>2, <3>3, <3>5 DEF Covered
    <3>7. QED
      BY <3>2, <3>4, <3>6, QuietStep
  <2>3. QED
    BY <2>1, <2>2
<1>25. ASSUME NEW w \in Workers, Post(w) PROVE IInv'
  <2> DEFINE o == req[w].order
             q == req[w].qty
  <2>0. pc[w] = "post" /\ req[w].op = "post" /\ o \in Orders /\ q \in Nat
    BY <1>25, <1>f DEF Post, IInv, Types, Request
  <2>1. /\ ledger' = [ledger EXCEPT ![o] = @ - q] /\ UNCHANGED <<line, req>>
        /\ pc' = [pc EXCEPT ![w] = "sum_ledger"]
        /\ seen' = [seen EXCEPT ![w].then = "consume_find"]
    BY <1>25, <2>0 DEF Post, Delta, Continue, Goto, IInv, Types
  <2>2. ledger' \in [Orders -> Int] /\ (\A x \in Orders : ledger'[x] <= ledger[x])
    BY <2>0, <2>1 DEF IInv, Types
  <2>3. FulfilledIsIssued'
    BY <2>1, <2>2 DEF FulfilledIsIssued, IInv, Types, Lines, HasFulfilled
  <2>4. /\ SeenLine(seen'[w]) /\ seen'[w].line = seen[w].line
        /\ seen'[w].then = "consume_find"
    BY <2>1 DEF IInv, Types, SeenLine
  <2>5. Local(w)
    BY <2>1, <2>4 DEF Local, IInv, Types
  <2>6. pc'[w] = "sum_ledger" /\ req'[w] = req[w] /\ ledger'[o] = ledger[o] - q
    BY <2>0, <2>1 DEF IInv, Types
  <2>7. Flow(w)'
    BY <1>f, <2>0, <2>4, <2>6
  <2>8. Covered(w)
    BY DEF IInv
  <2>9. seen[w].line.fulfilled \in Int /\ ledger[o] \in Int
    BY <2>0 DEF IInv, Types, SeenLine, HasFulfilled
  <2>10. Covered(w)'
    BY <2>0, <2>4, <2>6, <2>8, <2>9 DEF Covered
  <2>11. QED
    BY <2>1, <2>2, <2>3, <2>5, <2>7, <2>10, LocalStep DEF IInv, Types, Lines
<1>26. ASSUME NEW w \in Workers, ConsumeSave(w) PROVE IInv'
  BY <1>26, <1>f, AnswerStep, RefreshStep DEF ConsumeSave, Answer
<1>27. ASSUME NEW w \in Workers, DropSave(w) PROVE IInv'
  BY <1>27, <1>f, RefreshStep DEF DropSave
<1>28. ASSUME NEW w \in Workers, SaveLine(w) PROVE IInv'
  <2> DEFINE o == req[w].order
             q == req[w].qty
             l == seen[w].line
  <2>0. /\ pc[w] = "save_line" /\ req[w].op = "post" /\ o \in Orders /\ q \in Nat
        /\ HasFulfilled(l) /\ req[w].kind \in PostingKinds
    BY <1>28, <1>f DEF SaveLine, IInv, Types, Request, SeenLine
  <2>1. UNCHANGED <<ledger, req, seen>> /\ pc' = [pc EXCEPT ![w] = "read_lines"]
    BY <1>28, <2>0 DEF SaveLine, Continue, Goto
  <2>a. PICK written :
          /\ line' = [line EXCEPT ![o] = written]
          /\ HasFulfilled(written)
          /\ \/ written.fulfilled = line[o].fulfilled
             \/ req[w].kind = "ship" /\ written.fulfilled = l.fulfilled + q
    <3>1. CASE req[w].kind = "ship"
      <4> DEFINE new == [line[o] EXCEPT !.fulfilled = l.fulfilled + q]
      <4>1. line' = [line EXCEPT ![o] = new]
        BY <1>28, <2>0, <3>1 DEF SaveLine
      <4>2. HasFulfilled(new) /\ new.fulfilled = l.fulfilled + q
        BY <2>0 DEF IInv, Types, Lines, HasFulfilled
      <4> HIDE DEF new
      <4>3. QED
        BY <3>1, <4>1, <4>2
    <3>2. CASE req[w].kind = "drop"
      <4>1. PICK n : line' = [line EXCEPT ![o] = [line[o] EXCEPT !.cancelled = n]]
        BY <1>28, <2>0, <3>2 DEF SaveLine
      <4> DEFINE new == [line[o] EXCEPT !.cancelled = n]
      <4>2. /\ line' = [line EXCEPT ![o] = new]
            /\ HasFulfilled(new) /\ new.fulfilled = line[o].fulfilled
        BY <2>0, <4>1 DEF IInv, Types, Lines, HasFulfilled
      <4> HIDE DEF new
      <4>3. QED
        BY <4>2
    <3>3. CASE req[w].kind = "backorder"
      <4>1. PICK n : line' = [line EXCEPT ![o] = [line[o] EXCEPT !.backordered = n]]
        BY <1>28, <2>0, <3>3 DEF SaveLine
      <4> DEFINE new == [line[o] EXCEPT !.backordered = n]
      <4>2. /\ line' = [line EXCEPT ![o] = new]
            /\ HasFulfilled(new) /\ new.fulfilled = line[o].fulfilled
        BY <2>0, <4>1 DEF IInv, Types, Lines, HasFulfilled
      <4> HIDE DEF new
      <4>3. QED
        BY <4>2
    <3>4. QED
      BY <2>0, <3>1, <3>2, <3>3
  <2>2. Lines'
    BY <2>0, <2>a DEF IInv, Types, Lines, HasFulfilled
  <2>3. Covered(w) /\ FulfilledIsIssued
    BY DEF IInv
  <2>4. FulfilledIsIssued'
    BY <2>0, <2>1, <2>a, <2>3 DEF IInv, Types, Lines, HasFulfilled, FulfilledIsIssued, Covered
  <2>5. pc'[w] = "read_lines" /\ req'[w] = req[w]
    BY <2>1 DEF IInv, Types
  <2>6. Local(w)
    BY <2>1 DEF Local, IInv, Types
  <2>7. Flow(w)' /\ Covered(w)'
    BY <1>f, <2>0, <2>5 DEF Covered
  <2>8. \A x \in Orders : ledger'[x] <= ledger[x]
    BY <2>1 DEF IInv, Types
  <2>9. QED
    BY <2>1, <2>2, <2>4, <2>6, <2>7, <2>8, LocalStep DEF IInv, Types
<1>29. ASSUME NEW w \in Workers, SaveRollup(w) PROVE IInv'
  <2>1. CASE seen[w].then = "idle"
    BY <1>29, <2>1, AnswerStep DEF SaveRollup, Answer
  <2>2. CASE seen[w].then # "idle"
    <3>0. /\ pc[w] = "save_rollup"
          /\ IF req[w].op = "post" THEN seen[w].then \in {"consume_find", "save_line"}
                ELSE seen[w].then \in {"release_save", "undo_save", "backorder_line"}
      BY <1>29, <1>f, <2>2 DEF SaveRollup
    <3>1. /\ pc' = [pc EXCEPT ![w] = seen[w].then] /\ UNCHANGED <<line, ledger, req>>
          /\ seen' = [seen EXCEPT ![w].onHand = 0, ![w].reserved = {},
                                  ![w].rollup = Nothing.rollup, ![w].then = "idle"]
      BY <1>29, <2>2 DEF SaveRollup, Continue, Goto
    <3>2. SeenLine(seen'[w]) /\ seen'[w].line = seen[w].line
      BY <3>1 DEF IInv, Types, SeenLine
    <3>3. Local(w)
      BY <3>0, <3>1, <3>2 DEF Local, IInv, Types
    <3>4. pc'[w] = seen[w].then /\ req'[w] = req[w]
      BY <3>1 DEF IInv, Types
    <3>5. Flow(w)'
      BY <1>f, <3>0, <3>4
    <3>6. Covered(w)
      BY DEF IInv
    <3>7. Covered(w)'
      BY <3>0, <3>1, <3>2, <3>4, <3>6 DEF Covered
    <3>8. QED
      BY <3>1, <3>3, <3>5, <3>7, QuietStep
  <2>3. QED
    BY <2>1, <2>2
<1>30. ASSUME NEW w \in Workers, Crash(w) PROVE IInv'
  BY <1>30, AnswerStep DEF Crash
<1>31. ASSUME NEW w \in Workers, ReadEvent(w) \/ RestoreFind(w) \/ RestoreSave(w) \/ MarkEvent(w) PROVE IInv'
  BY <1>31, <1>f DEF ReadEvent, RestoreFind, RestoreSave, MarkEvent
<1>32. CASE UNCHANGED vars
  BY <1>32 DEF vars, IInv, Types, Lines, Covered, FulfilledIsIssued
<1>33. ASSUME NEW w \in Workers, BackorderLine(w) PROVE IInv'
  <2> DEFINE o == req[w].order
  <2>0. pc[w] = "backorder_line" /\ Answer(w) /\ UNCHANGED ledger
    BY <1>33 DEF BackorderLine
  <2>1. PICK n : line' = [line EXCEPT ![o].backordered = n]
    BY <1>33 DEF BackorderLine
  <2>2. Lines' /\ \A x \in Orders : line'[x].fulfilled = line[x].fulfilled
    BY <2>1 DEF IInv, Types, Lines, HasFulfilled
  <2>3. FulfilledIsIssued'
    BY <2>0, <2>2 DEF IInv, FulfilledIsIssued
  <2>4. QED
    BY <2>0, <2>2, <2>3, AnsweredStep DEF Answer
<1>34. QED
  BY <1>1, <1>2, <1>3, <1>4, <1>5, <1>6, <1>7, <1>8, <1>9, <1>10, <1>11, <1>12,
     <1>13, <1>14, <1>15, <1>16, <1>17, <1>18, <1>19, <1>20, <1>21, <1>22, <1>23,
     <1>24, <1>25, <1>26, <1>27, <1>28, <1>29, <1>30, <1>31, <1>32, <1>33
  DEF Next, Arrival, Serve, ReceiveReversal, NoReversal

\* As long as nothing is reversed, a line never claims to have shipped more than was
\* issued for it: postSalesOrderFulfillment issues before it saves the line, whatever
\* is interleaved or lost after it (INVENTORY_ARCHITECTURE.md has the opposite order).
THEOREM ShippedIsIssued ==
  ASSUME NoReversal PROVE Spec => []FulfilledIsIssued
<1>1. NoReversal
  OBVIOUS
<1>2. IInv /\ [Next]_vars => IInv'
  BY <1>1, IssuedStep
<1>3. IInv => FulfilledIsIssued
  BY DEF IInv
<1>4. QED
  BY IssuedInit, <1>2, <1>3, PTL DEF Spec

\* What the reservations of an order have consumed.
Used(o) == FoldFunction(+, 0, [i \in DOMAIN resv[o] |-> resv[o][i].consumed])
Consumed(s) == SumFunctionOnSet([i \in DOMAIN s |-> s[i].consumed], DOMAIN s)

LEMMA UsedIsSum ==
  ASSUME NEW o \in Orders
  PROVE  Used(o) = Consumed(resv[o]) /\ \A s : s = resv'[o] => Used(o)' = Consumed(s)
<1>1. Used(o) = Consumed(resv[o])
  <2>1. PICK f : f = [i \in DOMAIN resv[o] |-> resv[o][i].consumed]
    OBVIOUS
  <2>2. FoldFunction(+, 0, f) = SumFunctionOnSet(f, DOMAIN f) /\ DOMAIN f = DOMAIN resv[o]
    BY <2>1, FoldIsSum
  <2>3. QED
    BY <2>1, <2>2 DEF Used, Consumed
<1>2. ASSUME NEW s, s = resv'[o] PROVE Used(o)' = Consumed(s)
  <2>1. PICK f : f = [i \in DOMAIN s |-> s[i].consumed]
    OBVIOUS
  <2>2. Used(o)' = FoldFunction(+, 0, f)
    BY <1>2, <2>1 DEF Used, FoldFunction, FoldFunctionOnSet, MapThenFoldSet
  <2>3. FoldFunction(+, 0, f) = SumFunctionOnSet(f, DOMAIN f)
    BY FoldIsSum
  <2>4. Consumed(s) = SumFunctionOnSet(f, DOMAIN f)
    BY <2>1 DEF Consumed
  <2>5. QED
    BY <2>2, <2>3, <2>4
<1>3. QED
  BY <1>1, <1>2

\* A save adds to the sum what it adds to the row.
LEMMA SumAfterSave ==
  ASSUME NEW s \in Seq(Reservation), NEW t \in Seq(Reservation), NEW p \in 1 .. Len(s),
         NEW r \in Reservation, Moved(t, s, p, r)
  PROVE  Consumed(t) = Consumed(s) - s[p].consumed + r.consumed
<1>1. PICK n \in Nat : n = Len(s) /\ n = Len(t) /\ DOMAIN s = 1 .. n /\ DOMAIN t = 1 .. n
  BY LenProperties DEF Moved
<1>2. PICK f : f = [i \in 1 .. n |-> s[i].consumed]
  OBVIOUS
<1>3. PICK h : h = [i \in 1 .. n |-> t[i].consumed]
  OBVIOUS
<1>4. p \in 1 .. n /\ n \in 1 .. n
  BY <1>1
<1>5. t[n] = r /\ \A i \in 1 .. n : /\ i < p => t[i] = s[i]
                                    /\ i < n /\ p <= i => t[i] = s[i + 1]
  BY <1>1 DEF Moved
<1>6. \A i \in 1 .. n : s[i] \in Reservation /\ t[i] \in Reservation
  BY <1>1, ElementOfSeq
<1>7. /\ h[n] \in Int /\ h[n] = r.consumed
      /\ \A i \in 1 .. n : f[i] \in Int
      /\ \A i \in 1 .. n : i < p => h[i] = f[i]
      /\ \A i \in 1 .. n : i < n /\ p <= i => h[i] = f[i + 1]
  <2>1. \A i \in 1 .. n : s[i].consumed \in Int /\ t[i].consumed \in Int
    BY <1>6 DEF Reservation
  <2>2. \A i \in 1 .. n : f[i] = s[i].consumed /\ h[i] = t[i].consumed
    BY <1>2, <1>3
  <2>3. h[n] \in Int /\ h[n] = r.consumed
    BY <1>4, <1>5, <2>1, <2>2
  <2>4. \A i \in 1 .. n : i < p => h[i] = f[i]
    BY <1>5, <2>2
  <2>5. ASSUME NEW i \in 1 .. n, i < n, p <= i PROVE h[i] = f[i + 1]
    <3>1. t[i] = s[i + 1] /\ i + 1 \in 1 .. n
      BY <1>5, <2>5
    <3>2. QED
      BY <2>2, <3>1
  <2>6. QED
    BY <2>1, <2>2, <2>3, <2>4, <2>5
<1>8. SumFunctionOnSet(h, 1 .. n) = SumFunctionOnSet(f, 1 .. n) - f[p] + h[n]
  <2>1. MovedTo(h, f, p, n)
    BY <1>7 DEF MovedTo
  <2>2. QED
    BY <1>4, <2>1, SumMoved, Zenon
<1>9. Consumed(s) = SumFunctionOnSet(f, 1 .. n) /\ Consumed(t) = SumFunctionOnSet(h, 1 .. n)
  BY <1>1, <1>2, <1>3 DEF Consumed
<1>10. f[p] = s[p].consumed
  BY <1>2, <1>4
<1>11. QED
  BY <1>7, <1>8, <1>9, <1>10

LEMMA SumAfterAdd ==
  ASSUME NEW s \in Seq(Reservation), NEW r \in Reservation, r.consumed = 0
  PROVE  Consumed(Append(s, r)) = Consumed(s)
<1>0. PICK t : t = Append(s, r)
  OBVIOUS
<1>1. PICK n \in Nat : n = Len(s) /\ DOMAIN s = 1 .. n /\ DOMAIN t = 1 .. n + 1
                       /\ (\A i \in 1 .. n : t[i] = s[i]) /\ t[n + 1] = r
  BY <1>0, AppendProperties, LenProperties
<1>2. PICK f : f = [i \in 1 .. n |-> s[i].consumed]
  OBVIOUS
<1>3. PICK h : h = [i \in 1 .. n + 1 |-> t[i].consumed]
  OBVIOUS
<1>4. PICK D : D = 1 .. n
  OBVIOUS
<1>5. IsFiniteSet(D) /\ n + 1 \notin D /\ D \cup {n + 1} = 1 .. n + 1
  <2>1. IsFiniteSet(1 .. n)
    BY FS_Interval
  <2>2. n + 1 \notin 1 .. n /\ (1 .. n) \cup {n + 1} = 1 .. n + 1
    OBVIOUS
  <2>3. QED
    BY <1>4, <2>1, <2>2
<1>6. \A i \in 1 .. n : s[i] \in Reservation
  BY <1>1, ElementOfSeq
<1>7. h[n + 1] = 0 /\ \A i \in D : f[i] \in Int /\ h[i] = f[i]
  BY <1>1, <1>2, <1>3, <1>4, <1>6 DEF Reservation
<1>8. PICK x : x = n + 1
  OBVIOUS
<1>9. SumFunctionOnSet(h, D \cup {x}) = SumFunctionOnSet(f, D) + h[x]
  <2>1. x \notin D /\ h[x] \in Int /\ IsFiniteSet(D) /\ \A i \in D : f[i] \in Int /\ h[i] = f[i]
    BY <1>5, <1>7, <1>8
  <2>2. QED
    BY <2>1, SumAdd
<1>10. Consumed(s) = SumFunctionOnSet(f, D) /\ Consumed(t) = SumFunctionOnSet(h, D \cup {x})
  BY <1>1, <1>2, <1>3, <1>4, <1>5, <1>8 DEF Consumed
<1>11. SumFunctionOnSet(f, D) \in Int
  BY <1>5, <1>7, SumType
<1>12. QED
  BY <1>0, <1>7, <1>8, <1>9, <1>10, <1>11

LEMMA ConsumedIsInt == ASSUME NEW s \in Seq(Reservation) PROVE Consumed(s) \in Int
<1>1. PICK f : f = [i \in DOMAIN s |-> s[i].consumed]
  OBVIOUS
<1>2. IsFiniteSet(DOMAIN s) /\ \A i \in DOMAIN s : s[i] \in Reservation
  BY LenProperties, ElementOfSeq, FS_Interval
<1>3. \A i \in DOMAIN s : f[i] \in Int
  BY <1>1, <1>2 DEF Reservation
<1>4. SumFunctionOnSet(f, DOMAIN s) \in Int
  BY <1>2, <1>3, SumType
<1>5. QED
  BY <1>1, <1>4 DEF Consumed

\* A request that is about to save its consumption either still has the row as it is,
\* as far as it is consumed, or an older version of it; a row to be made is unused.
UpToDate(w) ==
    /\ pc[w] = "consume_save" =>
         LET loaded == seen[w].row
             current == RowById(req[w].order, loaded.id)
         IN /\ loaded.version <= current.version
            /\ loaded.version = current.version => loaded.consumed = current.consumed
    /\ pc[w] = "reserve_create" => seen[w].row.consumed = 0

Counted == \A o \in Orders : Used(o) = taken[o]

\* The inductive invariant, beside those of the types and of the shipped quantities.
CInv == Counted /\ \A w \in Workers : UpToDate(w)

LEMMA CountedInit == Init => CInv
<1> SUFFICES ASSUME Init PROVE CInv
  OBVIOUS
<1>1. ASSUME NEW o \in Orders PROVE Used(o) = 0
  <2>1. PICK f : f = [i \in DOMAIN resv[o] |-> resv[o][i].consumed]
    OBVIOUS
  <2>2. DOMAIN f = {}
    BY <2>1, EmptySeq DEF Init
  <2>3. Used(o) = SumFunctionOnSet(f, DOMAIN f)
    BY <2>1, FoldIsSum DEF Used
  <2>4. QED
    BY <2>2, <2>3, SumEmpty
<1>2. QED
  BY <1>1 DEF Init, CInv, Counted, UpToDate

\* A step of w that writes no row.
LEMMA CountedQuiet ==
  ASSUME CInv, NEW w \in Workers, Others(w), UNCHANGED <<resv, taken>>, UpToDate(w)'
  PROVE  CInv'
<1>1. \A o \in Orders : Used(o)' = Used(o)
  BY UsedIsSum
<1>2. Counted'
  BY <1>1 DEF CInv, Counted
<1>3. ASSUME NEW v \in Workers, v # w PROVE UpToDate(v)'
  <2>1. pc'[v] = pc[v] /\ req'[v] = req[v] /\ seen'[v] = seen[v] /\ UpToDate(v)
    BY <1>3 DEF Others, CInv
  <2>2. \A o, id : RowById(o, id)' = RowById(o, id)
    BY DEF RowById, Place
  <2>3. QED
    BY <2>1, <2>2 DEF UpToDate
<1>4. QED
  BY <1>2, <1>3 DEF CInv

\* A step of w that saves a row of o and counts what it consumes.
LEMMA CountedSave ==
  ASSUME TInv, CInv, NEW w \in Workers, Others(w), NEW o \in Orders, NEW r \in Reservation,
         r.id \in Ids(o), resv' = Saved(o, r), NEW q \in Int,
         r.consumed = RowById(o, r.id).consumed + q,
         taken' = [taken EXCEPT ![o] = taken[o] + q],
         \/ r.version > RowById(o, r.id).version
         \/ r.version = RowById(o, r.id).version /\ q = 0,
         pc'[w] \notin {"consume_save", "reserve_create"}
  PROVE  CInv'
<1>1. PICK p \in DOMAIN resv[o] : /\ RowById(o, r.id) = resv[o][p]
                                  /\ Moved(resv'[o], resv[o], p, r)
  BY SavedRows DEF TInv
<1>2. /\ resv' \in [Orders -> Seq(Reservation)]
      /\ \A x \in Orders : x # o => resv'[x] = resv[x]
  BY SavedRows DEF TInv
<1>3. Used(o)' = Used(o) + q
  <2>1. PICK s \in Seq(Reservation) : s = resv[o]
    BY DEF TInv, TypeOK
  <2>2. PICK t \in Seq(Reservation) : t = resv'[o]
    BY <1>2
  <2>3. p \in 1 .. Len(s) /\ Moved(t, s, p, r) /\ s[p] = RowById(o, r.id)
    BY <1>1, <2>1, <2>2, LenProperties
  <2>4. Consumed(t) = Consumed(s) - s[p].consumed + r.consumed
    BY <2>3, SumAfterSave
  <2>5. Consumed(s) \in Int /\ s[p] \in Reservation
    BY <2>3, ConsumedIsInt, ElementOfSeq
  <2>6. s[p].consumed \in Int
    BY <2>5 DEF Reservation
  <2>7. Used(o) = Consumed(s) /\ Used(o)' = Consumed(t)
    BY <2>1, <2>2, UsedIsSum
  <2>8. r.consumed = s[p].consumed + q
    BY <2>3
  <2>9. QED
    BY <2>4, <2>5, <2>6, <2>7, <2>8
<1>4. \A x \in Orders : x # o => Used(x)' = Used(x)
  BY <1>2, UsedIsSum
<1>5. Counted'
  BY <1>3, <1>4 DEF CInv, Counted, TInv, TypeOK
<1>6. ASSUME NEW v \in Workers, v # w PROVE UpToDate(v)'
  <2>1. pc'[v] = pc[v] /\ req'[v] = req[v] /\ seen'[v] = seen[v] /\ UpToDate(v) /\ Loaded(v)
    BY <1>6 DEF Others, CInv, TInv
  <2>2. SUFFICES ASSUME pc[v] = "consume_save" PROVE UpToDate(v)'
    BY <2>1 DEF UpToDate
  <2>3. PICK y \in Orders : y = req[v].order
    BY RequestOrder DEF TInv
  <2>4. PICK loaded \in Reservation : loaded = seen[v].row
    BY RequestOrder DEF TInv
  <2>5. PICK id \in Ids(y) : id = loaded.id
    BY <2>1, <2>2, <2>3, <2>4 DEF Loaded, Saving
  <2>6. PICK a \in Reservation : a = RowById(y, id)
    BY <2>5, RowOfId DEF TInv
  <2>7. PICK b : b = RowById(y, id)'
    OBVIOUS
  <2>8. loaded.version <= a.version /\ (loaded.version = a.version => loaded.consumed = a.consumed)
    BY <2>1, <2>2, <2>3, <2>4, <2>5, <2>6 DEF UpToDate
  <2>9. loaded.version <= b.version /\ (loaded.version = b.version => loaded.consumed = b.consumed)
    <3>0. loaded.version \in Int /\ a.version \in Int /\ r.version \in Int /\ a.consumed \in Int
      BY DEF Reservation
    <3>1. CASE y = o /\ id = r.id
      <4>1. b = r
        BY <2>5, <2>7, <3>1, RowsAfterSave
      <4>2. a = RowById(o, r.id)
        BY <2>6, <3>1
      <4>3. QED
        BY <2>8, <3>0, <4>1, <4>2
    <3>2. CASE y = o /\ id # r.id
      <4>1. b = a
        BY <2>5, <2>6, <2>7, <3>2, RowsAfterSave
      <4>2. QED
        BY <2>8, <4>1
    <3>3. CASE y # o
      <4>1. b = a
        BY <1>2, <2>3, <2>6, <2>7, <3>3 DEF RowById, Place
      <4>2. QED
        BY <2>8, <4>1
    <3>4. QED
      BY <3>1, <3>2, <3>3
  <2>10. RowById(req[v].order, seen[v].row.id)' = b
    BY <2>1, <2>3, <2>4, <2>5, <2>7 DEF RowById, Place
  <2>11. QED
    BY <2>1, <2>2, <2>4, <2>9, <2>10 DEF UpToDate
<1>7. UpToDate(w)'
  BY DEF UpToDate
<1>8. QED
  BY <1>5, <1>6, <1>7 DEF CInv

LEMMA CountedElsewhere ==
  ASSUME CInv, NEW w \in Workers, Others(w), UNCHANGED <<resv, taken>>,
         pc'[w] \notin {"consume_save", "reserve_create"}
  PROVE  CInv'
<1>1. UpToDate(w)'
  BY DEF UpToDate
<1>2. QED
  BY <1>1, CountedQuiet

LEMMA CountedStep == NoReversal /\ TInv /\ IInv /\ CInv /\ [Next]_vars => CInv'
<1> SUFFICES ASSUME NoReversal, TInv, IInv, CInv, [Next]_vars PROVE CInv'
  OBVIOUS
<1>0. TypeOK /\ pc \in [Workers -> Step] /\ seen \in [Workers -> Snapshot]
  BY DEF TInv, TypeOK
<1>a. \A w \in Workers : Arrival(w) \/ Serve(w) \/ Crash(w) => Others(w)
  BY OneWorker
\* The steps that write no row and load none to save.
<1>1. ASSUME NEW w \in Workers, Arrival(w) PROVE CInv'
  <2>1. UNCHANGED <<resv, taken>> /\ pc'[w] \notin {"consume_save", "reserve_create"}
    BY <1>0, <1>1 DEF Arrival, Rebuild, ReceiveConfirm, ReceiveCancel, ReceivePosting,
       ReceiveReversal, Receive, Goto, docs
  <2>2. QED
    BY <1>1, <1>a, <2>1, CountedElsewhere
<1>2. ASSUME NEW w \in Workers, Crash(w) PROVE CInv'
  <2>1. UNCHANGED <<resv, taken>> /\ pc'[w] \notin {"consume_save", "reserve_create"}
    BY <1>0, <1>2 DEF Crash, Goto, docs
  <2>2. QED
    BY <1>2, <1>a, <2>1, CountedElsewhere
<1>3. ASSUME NEW w \in Workers,
             \/ SaveConfirmed(w) \/ ReserveOpen(w) \/ ReserveFind(w) \/ ReserveBalance(w)
             \/ BackorderLine(w) \/ UndoConfirm(w)
             \/ SaveCancelled(w) \/ ReleaseFind(w)
             \/ ReadEvent(w) \/ ReadLine(w) \/ StockCheck(w) \/ Post(w)
      PROVE  CInv'
  <2>1. UNCHANGED <<resv, taken>> /\ pc'[w] \notin {"consume_save", "reserve_create"}
    BY <1>0, <1>3 DEF SaveConfirmed, ReserveOpen, ReserveFind, ReserveBalance, BackorderLine,
       UndoConfirm, SaveCancelled, ReleaseFind, AfterRelease, ReadEvent, ReadLine, StockCheck,
       Post, Continue, Answer, KeepHistory, Goto, docs
  <2>2. QED
    BY <1>3, <1>a, <2>1, CountedElsewhere DEF Serve
<1>4. ASSUME NEW w \in Workers,
             \/ SaveLine(w) \/ ReadLines(w) \/ SaveOrder(w) \/ CreateEvent(w) \/ MarkEvent(w)
             \/ SumReserved(w) \/ SumLedger(w) \/ ReadRollup(w)
      PROVE  CInv'
  <2>1. UNCHANGED <<resv, taken>> /\ pc'[w] \notin {"consume_save", "reserve_create"}
    BY <1>0, <1>4 DEF SaveLine, ReadLines, SaveOrder, CreateEvent, MarkEvent, SumReserved,
       SumLedger, ReadRollup, Continue, Answer, KeepHistory, Goto, docs
  <2>2. QED
    BY <1>4, <1>a, <2>1, CountedElsewhere DEF Serve
<1>5. ASSUME NEW w \in Workers, DropFind(w) PROVE CInv'
  <2>1. UNCHANGED <<resv, taken>> /\ pc'[w] \notin {"consume_save", "reserve_create"}
    BY <1>0, <1>5 DEF DropFind, Continue, Answer, KeepHistory, Goto, docs
  <2>2. QED
    BY <1>5, <1>a, <2>1, CountedElsewhere DEF Serve
<1>6. ASSUME NEW w \in Workers, SaveRollup(w) PROVE CInv'
  <2>1. UNCHANGED <<resv, taken>> /\ pc'[w] = seen[w].then
    BY <1>0, <1>6 DEF SaveRollup, Continue, Answer, KeepHistory, Goto
  <2>2. seen[w].then \notin {"consume_save", "reserve_create"}
    <3>1. pc[w] \in Refreshing /\ Flow(w)
      BY <1>6 DEF SaveRollup, At, Refreshing, IInv
    <3>2. QED
      BY <3>1 DEF Flow
  <2>3. QED
    BY <1>6, <1>a, <2>1, <2>2, CountedElsewhere DEF Serve
\* The steps that load a row.
<1>7. ASSUME NEW w \in Workers, ReserveSum(w) PROVE CInv'
  <2>1. UNCHANGED <<resv, taken>> /\ pc'[w] # "consume_save"
    BY <1>0, <1>7 DEF ReserveSum, Continue, KeepHistory, Goto, docs
  <2>2. pc'[w] = "reserve_create" => seen'[w].row.consumed = 0
    <3>1. SUFFICES ASSUME pc'[w] = "reserve_create" PROVE seen'[w].row.consumed = 0
      OBVIOUS
    <3>2. \E q : seen' = [seen EXCEPT ![w].onHand = 0, ![w].row = [NoRow EXCEPT !.quantity = q]]
      BY <1>0, <1>7, <3>1 DEF ReserveSum, Continue, Goto
    <3>3. PICK q : seen' = [seen EXCEPT ![w].onHand = 0, ![w].row = [NoRow EXCEPT !.quantity = q]]
      BY <3>2
    <3>4. seen'[w].row = [NoRow EXCEPT !.quantity = q]
      BY <1>0, <3>3 DEF Snapshot
    <3>5. QED
      BY <3>4 DEF NoRow
  <2>3. UpToDate(w)'
    BY <2>1, <2>2 DEF UpToDate
  <2>4. QED
    BY <1>7, <1>a, <2>1, <2>3, CountedQuiet DEF Serve
<1>8. ASSUME NEW w \in Workers, ConsumeFind(w) PROVE CInv'
  <2>1. UNCHANGED <<resv, taken>> /\ pc'[w] # "reserve_create" /\ UNCHANGED req
    BY <1>0, <1>8 DEF ConsumeFind, Continue, KeepHistory, Goto, docs
  <2>2. UpToDate(w)'
    <3>1. SUFFICES ASSUME pc'[w] = "consume_save" PROVE UpToDate(w)'
      BY <2>1 DEF UpToDate
    <3>2. PICK o \in Orders : o = req[w].order
      BY <1>0, RequestOrder
    <3>3. PICK r \in ActiveRows(o) : seen' = [seen EXCEPT ![w].row = r]
      BY <1>0, <1>8, <3>1, <3>2 DEF ConsumeFind, Continue, Goto
    <3>4. PICK i \in DOMAIN resv[o] : r = resv[o][i]
      BY DEF ActiveRows, Range
    <3>5. PICK s : s = resv[o] /\ Distinct(s)
      BY DEF Distinct, TInv, Numbered
    <3>6. PICK id : id = r.id
      OBVIOUS
    <3>7. RowOf(s, id) = s[i]
      BY <3>4, <3>5, <3>6, RowOfIndex
    <3>8. RowById(o, id)' = r
      BY <2>1, <3>4, <3>5, <3>7 DEF RowById, Place, RowOf
    <3>9. seen'[w].row = r /\ req'[w].order = o
      BY <1>0, <2>1, <3>2, <3>3 DEF Snapshot
    <3>10. RowById(req[w].order, seen[w].row.id)' = r
      BY <3>6, <3>8, <3>9 DEF RowById, Place
    <3>11. r.version \in Int
      BY <1>0, ActiveRow DEF Reservation
    <3>12. QED
      BY <3>1, <3>9, <3>10, <3>11 DEF UpToDate
  <2>3. QED
    BY <1>8, <1>a, <2>1, <2>2, CountedQuiet DEF Serve
\* The steps that write a row.
<1>9. ASSUME NEW w \in Workers, ReserveCreate(w) PROVE CInv'
  <2>1. PICK o \in Orders : o = req[w].order
    BY <1>0, RequestOrder
  <2>2. PICK n \in Nat : n = Len(resv[o]) + 1
    BY <1>0, LenProperties DEF TypeOK
  <2>3. PICK r \in Reservation : r = [seen[w].row EXCEPT !.id = n] /\ r.id = n /\ r.consumed = 0
    <3>1. seen[w].row \in Reservation /\ seen[w].row.consumed = 0
      BY <1>0, <1>9, RequestOrder DEF ReserveCreate, At, CInv, UpToDate
    <3>2. PICK b \in Reservation : b = seen[w].row /\ b.consumed = 0
      BY <3>1
    <3>3. /\ [b EXCEPT !.id = n] \in Reservation
          /\ [b EXCEPT !.id = n].id = n /\ [b EXCEPT !.id = n].consumed = b.consumed
      BY DEF Reservation
    <3>4. QED
      BY <3>2, <3>3
  <2>4. CASE UNCHANGED resv
    <3>1. UNCHANGED taken /\ pc'[w] \notin {"consume_save", "reserve_create"}
      BY <1>0, <1>9 DEF ReserveCreate, Refresh, Continue, KeepHistory, Goto
    <3>2. QED
      BY <1>9, <1>a, <2>4, <3>1, CountedElsewhere DEF Serve
  <2>5. CASE ~UNCHANGED resv
    <3>1. /\ resv' = [resv EXCEPT ![o] = Append(resv[o], r)] /\ UNCHANGED taken
          /\ pc'[w] = "sum_reserved"
      BY <1>0, <1>9, <2>1, <2>2, <2>3, <2>5 DEF ReserveCreate, Refresh, KeepHistory, Goto
    <3>2. Used(o)' = Used(o)
      <4>1. PICK s \in Seq(Reservation) : s = resv[o]
        BY <1>0 DEF TypeOK
      <4>2. PICK t : t = Append(s, r)
        OBVIOUS
      <4>3. t = resv'[o]
        BY <1>0, <3>1, <4>1, <4>2 DEF TypeOK
      <4>4. Consumed(t) = Consumed(s)
        BY <2>3, <4>2, SumAfterAdd
      <4>5. QED
        BY <4>1, <4>3, <4>4, UsedIsSum
    <3>3. \A x \in Orders : x # o => resv'[x] = resv[x]
      BY <1>0, <3>1 DEF TypeOK
    <3>4. \A x \in Orders : x # o => Used(x)' = Used(x)
      BY <3>3, UsedIsSum
    <3>5. Counted'
      BY <3>1, <3>2, <3>4 DEF CInv, Counted
    <3>6. ASSUME NEW v \in Workers, v # w PROVE UpToDate(v)'
      <4>1. /\ pc'[v] = pc[v] /\ req'[v] = req[v] /\ seen'[v] = seen[v]
            /\ UpToDate(v) /\ Loaded(v)
        BY <1>9, <1>a, <3>6 DEF Others, CInv, TInv, Serve
      <4>2. SUFFICES ASSUME pc[v] = "consume_save" PROVE UpToDate(v)'
        BY <4>1 DEF UpToDate
      <4>3. PICK y \in Orders : y = req[v].order
        BY <1>0, RequestOrder
      <4>4. PICK id \in Ids(y) : id = seen[v].row.id
        BY <4>1, <4>2, <4>3 DEF Loaded, Saving
      <4>5. RowById(y, id)' = RowById(y, id)
        <5>1. CASE y = o
          BY <2>2, <2>3, <3>1, <4>4, <5>1, RowsAfterAdd
        <5>2. CASE y # o
          BY <3>3, <5>2 DEF RowById, Place
        <5>3. QED
          BY <5>1, <5>2
      <4>6. /\ RowById(req[v].order, seen[v].row.id)' = RowById(y, id)'
            /\ RowById(req[v].order, seen[v].row.id) = RowById(y, id)
        BY <4>1, <4>3, <4>4 DEF RowById, Place
      <4>7. QED
        BY <4>1, <4>2, <4>5, <4>6 DEF UpToDate
    <3>7. UpToDate(w)'
      BY <3>1 DEF UpToDate
    <3>8. QED
      BY <3>5, <3>6, <3>7 DEF CInv
  <2>6. QED
    BY <2>4, <2>5
<1>10. ASSUME NEW w \in Workers, ReleaseSave(w) PROVE CInv'
  <2>1. PICK o \in Orders : o = req[w].order
    BY <1>0, RequestOrder
  <2>2. PICK id \in seen[w].rows :
          resv' = Saved(o, [RowById(o, id) EXCEPT !.status = "cancelled"])
    BY <1>10, <2>1 DEF ReleaseSave
  <2>3. PICK a \in Reservation : a = RowById(o, id) /\ a.id = id /\ id \in Ids(o)
    <3>1. PICK x \in Ids(o) : x = id
      BY <2>1 DEF TInv, Loaded
    <3>2. QED
      BY <1>0, <3>1, RowOfId
  <2>4. PICK r \in Reservation : /\ r = [a EXCEPT !.status = "cancelled"]
            /\ r.id = id /\ r.version = a.version /\ r.consumed = a.consumed
    <3>1. [a EXCEPT !.status = "cancelled"] \in Reservation
      BY DEF Reservation, ReservationStatus
    <3>2. QED
      BY <2>3, <3>1 DEF Reservation
  <2>5. UNCHANGED taken /\ pc'[w] = "sum_reserved"
    BY <1>0, <1>10 DEF ReleaseSave, Continue, KeepHistory, Goto
  <2>6. PICK q \in Int : /\ q = 0 /\ taken' = [taken EXCEPT ![o] = taken[o] + q]
                         /\ r.consumed = a.consumed + q
    BY <1>0, <2>4, <2>5 DEF TypeOK, Reservation
  <2>7. r.id \in Ids(o) /\ RowById(o, r.id) = a /\ resv' = Saved(o, r)
    BY <2>2, <2>3, <2>4
  <2>8. r.version = RowById(o, r.id).version /\ pc'[w] \notin {"consume_save", "reserve_create"}
    BY <2>4, <2>5, <2>7
  <2>9. QED
    BY <1>10, <1>a, <2>6, <2>7, <2>8, CountedSave DEF Serve
<1>11. ASSUME NEW w \in Workers, ConsumeSave(w) PROVE CInv'
  <2>1. PICK o \in Orders : o = req[w].order
    BY <1>0, RequestOrder
  <2>2. PICK loaded \in Reservation : loaded = seen[w].row
    BY <1>0, RequestOrder
  <2>3. PICK a \in Reservation : a = RowById(o, loaded.id) /\ a.id = loaded.id /\ a.id \in Ids(o)
    <3>1. PICK x \in Ids(o) : x = loaded.id
      BY <1>11, <2>1, <2>2 DEF TInv, Loaded, Saving, ConsumeSave, At
    <3>2. QED
      BY <1>0, <3>1, RowOfId
  <2>4. CASE a.version # loaded.version
    <3>1. UNCHANGED <<resv, taken>> /\ pc'[w] = "idle"
      BY <1>0, <1>11, <2>1, <2>2, <2>3, <2>4 DEF ConsumeSave, Answer, Goto, KeepHistory
    <3>2. QED
      BY <1>11, <1>a, <3>1, CountedElsewhere DEF Serve
  <2>5. CASE a.version = loaded.version
    <3>1. loaded.consumed = a.consumed
      BY <1>11, <2>1, <2>2, <2>3, <2>5 DEF ConsumeSave, At, CInv, UpToDate
    <3>2. PICK q \in Int : q = Consumption(w)
      BY <1>0, <2>2, RequestOrder DEF Consumption, Remaining, Lesser, AtLeast0, Reservation
    <3>3. PICK st \in ReservationStatus :
            st = IF loaded.consumed + q >= loaded.quantity
                   THEN "consumed" ELSE "partially_consumed"
      BY DEF ReservationStatus, ActiveStatus
    <3>4. PICK b \in Reservation :
            /\ b = Rewritten(a, loaded, loaded.consumed + q, st)
            /\ b.id = a.id /\ b.version = a.version /\ b.consumed = a.consumed + q
      <4>1. loaded.consumed + q \in Int
        BY DEF Reservation
      <4>2. /\ Rewritten(a, loaded, loaded.consumed + q, st) \in Reservation
            /\ Rewritten(a, loaded, loaded.consumed + q, st).id = a.id
            /\ Rewritten(a, loaded, loaded.consumed + q, st).version = a.version
        BY <4>1, RewrittenType
      <4>3. Rewritten(a, loaded, loaded.consumed + q, st).consumed = a.consumed + q
        BY <3>1, <4>1 DEF Rewritten, Reservation
      <4>4. QED
        BY <4>2, <4>3
    <3>5. PICK r \in Reservation :
            /\ r = [b EXCEPT !.version = b.version + 1]
            /\ r.id = a.id /\ r.version > a.version /\ r.consumed = a.consumed + q
      <4>1. [b EXCEPT !.version = b.version + 1] \in Reservation
        BY DEF Reservation
      <4>2. /\ [b EXCEPT !.version = b.version + 1].id = b.id
            /\ [b EXCEPT !.version = b.version + 1].version = b.version + 1
            /\ [b EXCEPT !.version = b.version + 1].consumed = b.consumed
        BY DEF Reservation
      <4>3. b.version + 1 > a.version
        BY <3>4 DEF Reservation
      <4>4. QED
        BY <3>4, <4>1, <4>2, <4>3
    <3>6. /\ resv' = Saved(o, r) /\ taken' = [taken EXCEPT ![o] = taken[o] + q]
          /\ pc'[w] = "sum_reserved"
      BY <1>0, <1>11, <2>1, <2>2, <2>3, <2>5, <3>2, <3>3, <3>4, <3>5
         DEF ConsumeSave, Refresh, Goto
    <3>7. r.id \in Ids(o) /\ RowById(o, r.id) = a
      BY <2>3, <3>5
    <3>8. QED
      BY <1>11, <1>a, <3>5, <3>6, <3>7, CountedSave DEF Serve
  <2>6. QED
    BY <2>4, <2>5
<1>12. ASSUME NEW w \in Workers, DropSave(w) PROVE CInv'
  <2>1. PICK o \in Orders : o = req[w].order
    BY <1>0, RequestOrder
  <2>2. PICK loaded \in Reservation : loaded = seen[w].row
    BY <1>0, RequestOrder
  <2>3. PICK a \in Reservation : a = RowById(o, loaded.id) /\ a.id = loaded.id /\ a.id \in Ids(o)
    <3>1. PICK x \in Ids(o) : x = loaded.id
      BY <1>12, <2>1, <2>2 DEF TInv, Loaded, Saving, DropSave, At
    <3>2. QED
      BY <1>0, <3>1, RowOfId
  <2>4. PICK r \in Reservation :
          /\ resv' = Saved(o, r)
          /\ r.id = a.id /\ r.version = a.version /\ r.consumed = a.consumed
    <3>1. CASE req[w].qty >= Remaining(loaded)
      <4>1. resv' = Saved(o, [a EXCEPT !.status = "released"])
        BY <1>12, <2>1, <2>2, <2>3, <3>1 DEF DropSave
      <4>2. [a EXCEPT !.status = "released"] \in Reservation
        BY DEF Reservation, ReservationStatus
      <4>3. QED
        BY <4>1, <4>2 DEF Reservation
    <3>2. CASE ~(req[w].qty >= Remaining(loaded))
      <4>0. PICK n \in Int : n = loaded.quantity - req[w].qty
        BY <1>0, RequestOrder DEF Reservation
      <4>1. resv' = Saved(o, [a EXCEPT !.quantity = n])
        BY <1>12, <2>1, <2>2, <2>3, <3>2, <4>0 DEF DropSave
      <4>2. [a EXCEPT !.quantity = n] \in Reservation
        BY DEF Reservation
      <4>3. QED
        BY <4>1, <4>2 DEF Reservation
    <3>3. QED
      BY <3>1, <3>2
  <2>5. UNCHANGED taken /\ pc'[w] = "sum_reserved"
    BY <1>0, <1>12 DEF DropSave, Refresh, KeepHistory, Goto
  <2>6. PICK q \in Int : /\ q = 0 /\ taken' = [taken EXCEPT ![o] = taken[o] + q]
                         /\ r.consumed = a.consumed + q
    BY <1>0, <2>4, <2>5 DEF TypeOK, Reservation
  <2>7. r.id \in Ids(o) /\ RowById(o, r.id) = a
    BY <2>3, <2>4
  <2>8. r.version = RowById(o, r.id).version /\ pc'[w] \notin {"consume_save", "reserve_create"}
    BY <2>4, <2>5, <2>7
  <2>9. QED
    BY <1>12, <1>a, <2>4, <2>6, <2>7, <2>8, CountedSave DEF Serve
<1>13. ASSUME NEW w \in Workers, RestoreFind(w) \/ RestoreSave(w) PROVE CInv'
  <2>1. pc[w] \in Reversing /\ Flow(w)
    BY <1>13 DEF RestoreFind, RestoreSave, At, Reversing, IInv
  <2>2. QED
    BY <2>1 DEF Flow
<1>14. CASE UNCHANGED vars
  <2>1. UNCHANGED <<resv, taken, pc, req, seen>>
    BY <1>14 DEF vars, docs
  <2>2. \A o \in Orders : Used(o)' = Used(o)
    BY <2>1, UsedIsSum
  <2>3. \A o, id : RowById(o, id)' = RowById(o, id)
    BY <2>1 DEF RowById, Place
  <2>4. QED
    BY <2>1, <2>2, <2>3 DEF CInv, Counted, UpToDate
<1>15. QED
  BY <1>1, <1>2, <1>3, <1>4, <1>5, <1>6, <1>7, <1>8, <1>9, <1>10, <1>11, <1>12, <1>13, <1>14
     DEF Next, Serve

\* As long as nothing is reversed, no consumption a request was told of is lost to
\* another one that had loaded the same reservation: the version a consumption checks
\* stands for the consumed quantity (consumeReservation).
THEOREM ConsumptionKept ==
  ASSUME NoReversal PROVE Spec => []NoConsumptionLost
<1>1. NoReversal
  OBVIOUS
<1>2. TInv /\ IInv /\ CInv /\ [Next]_vars => CInv'
  BY <1>1, CountedStep
<1>3. IInv /\ [Next]_vars => IInv'
  BY <1>1, IssuedStep
<1>4. CInv => NoConsumptionLost
  BY DEF CInv, Counted, Used, NoConsumptionLost
<1>5. QED
  BY TypesInit, TypesStep, IssuedInit, CountedInit, <1>2, <1>3, <1>4, PTL DEF Spec

-----------------------------------------------------------------------------
(* Rebuilding the balance.                                                 *)

LEMMA SumsKept ==
  /\ UNCHANGED resv => Reserved' = Reserved /\ \A o \in Orders : Held(o)' = Held(o)
  /\ UNCHANGED ledger => OnHand' = OnHand
<1>1. ASSUME UNCHANGED resv PROVE \A o \in Orders : Held(o)' = Held(o)
  BY <1>1 DEF Held, FoldFunction, FoldFunctionOnSet, MapThenFoldSet
<1>2. ASSUME UNCHANGED resv PROVE Reserved' = Reserved
  <2>1. PICK f : f = [o \in Orders |-> Held(o)]
    OBVIOUS
  <2>2. f = [o \in Orders |-> Held(o)']
    BY <1>1, <1>2, <2>1
  <2>3. Reserved' = FoldFunction(+, 0, f)
    BY <2>2 DEF Reserved, FoldFunction, FoldFunctionOnSet, MapThenFoldSet
  <2>4. QED
    BY <2>1, <2>3 DEF Reserved
<1>3. ASSUME UNCHANGED ledger PROVE OnHand' = OnHand
  BY <1>3 DEF OnHand, FoldFunction, FoldFunctionOnSet, MapThenFoldSet
<1>4. QED
  BY <1>1, <1>2, <1>3

\* What a refresh has read is what there is.
Fresh(w) ==
    /\ pc[w] \in Refreshing \ {"sum_reserved"} => seen[w].reserved = {Reserved}
    /\ pc[w] \in {"read_rollup", "save_rollup"} => seen[w].onHand = OnHand
    /\ pc[w] = "save_rollup" => seen[w].rollup = rollup

\* A rebuild is a refresh and no more; while no other request overlaps one, what it
\* has read stays true.
Undisturbed(w) ==
    /\ req[w].op = "rebuild" => pc[w] \in Refreshing \cup {"idle"} /\ seen[w].then = "idle"
    /\ w \in alone =>
         /\ \A v \in Workers \ {w} : At(v, "idle")
         /\ req[w].op = "rebuild" => Fresh(w)

AInv == \A w \in Workers : Undisturbed(w)

LEMMA UndisturbedInit == Init => AInv
  BY Blank DEF Init, AInv, Undisturbed

\* The steps of a refresh.
RefreshSteps(w) == SumReserved(w) \/ SumLedger(w) \/ ReadRollup(w) \/ SaveRollup(w)

\* Every other step keeps the history and goes somewhere else, or starts to refresh.
LEMMA ServeSteps ==
  ASSUME TInv, NEW w \in Workers, Serve(w)
  PROVE  /\ alone' = alone /\ pc[w] # "idle"
         /\ req' = req \/ Answer(w)
         /\ RefreshSteps(w) \/ pc[w] \notin Refreshing
<1> USE DEF At, Continue, KeepHistory, Refresh, Refreshing, RefreshSteps
<1>1. CASE \/ SaveConfirmed(w) \/ ReserveOpen(w) \/ ReserveFind(w) \/ ReserveBalance(w)
           \/ ReserveSum(w) \/ ReserveCreate(w) \/ BackorderLine(w) \/ UndoConfirm(w)
  BY <1>1 DEF SaveConfirmed, ReserveOpen, ReserveFind, ReserveBalance, ReserveSum, ReserveCreate,
     BackorderLine, UndoConfirm, Answer
<1>2. CASE \/ SaveCancelled(w) \/ ReleaseFind(w) \/ ReleaseSave(w)
           \/ ReadEvent(w) \/ ReadLine(w) \/ StockCheck(w) \/ Post(w)
  BY <1>2 DEF SaveCancelled, ReleaseFind, ReleaseSave, ReadEvent, ReadLine, StockCheck, Post, Answer
<1>3. CASE \/ ConsumeFind(w) \/ ConsumeSave(w) \/ RestoreFind(w) \/ RestoreSave(w)
           \/ SaveLine(w) \/ ReadLines(w) \/ SaveOrder(w) \/ CreateEvent(w) \/ MarkEvent(w)
  BY <1>3 DEF ConsumeFind, ConsumeSave, RestoreFind, RestoreSave, SaveLine, ReadLines, SaveOrder,
     CreateEvent, MarkEvent, Answer
<1>4. CASE DropFind(w) \/ DropSave(w) \/ RefreshSteps(w)
  BY <1>4 DEF DropFind, DropSave, SumReserved, SumLedger, ReadRollup, SaveRollup, Answer
<1>5. QED
  BY <1>1, <1>2, <1>3, <1>4 DEF Serve

LEMMA UndisturbedStep == TInv /\ AInv /\ [Next]_vars => AInv'
<1> SUFFICES ASSUME TInv, AInv, [Next]_vars PROVE AInv'
  OBVIOUS
<1>0. pc \in [Workers -> Step] /\ seen \in [Workers -> Snapshot] /\ req \in [Workers -> Request]
  BY DEF TInv, TypeOK
\* A worker that has just been answered.
<1>a. ASSUME NEW w \in Workers, pc' = [pc EXCEPT ![w] = "idle"], seen' = [seen EXCEPT ![w] = Nothing],
             alone' = alone, \A v \in Workers \ {w} : w \in alone => At(v, "idle"), Others(w)
      PROVE  Undisturbed(w)'
  <2>1. pc'[w] = "idle" /\ seen'[w].then = "idle"
    BY <1>0, <1>a, Blank
  <2>2. \A v \in Workers \ {w} : pc'[v] = pc[v]
    BY <1>a DEF Others
  <2>3. Fresh(w)'
    BY <2>1 DEF Fresh, Refreshing
  <2>4. QED
    BY <1>a, <2>1, <2>2, <2>3 DEF Undisturbed, At
\* The other workers, when a request is served or dies.
<1>b. ASSUME NEW w \in Workers, Others(w), alone' = alone, pc[w] # "idle",
             NEW v \in Workers, v # w
      PROVE  Undisturbed(v)'
  <2>1. pc'[v] = pc[v] /\ req'[v] = req[v] /\ seen'[v] = seen[v] /\ Undisturbed(v)
    BY <1>b DEF Others, AInv
  <2>2. v \notin alone
    BY <1>b, <2>1 DEF Undisturbed, At
  <2>3. QED
    BY <1>b, <2>1, <2>2 DEF Undisturbed
<1>1. ASSUME NEW w \in Workers, Arrival(w) PROVE AInv'
  <2>1. Others(w)
    BY <1>1, OneWorker
  <2>a. \E r, step :
          /\ Receive(w, r, step) /\ (r.op = "rebuild" => step \in Refreshing /\ UNCHANGED seen)
          /\ step # "idle" /\ (step \in Refreshing => step = "sum_reserved")
    <3>1. CASE Rebuild(w)
      BY <1>1, <3>1 DEF Rebuild, Refreshing
    <3>2. ASSUME NEW o \in Orders, ReceiveConfirm(w, o) 
          PROVE  \E r, step :
            /\ Receive(w, r, step) /\ (r.op = "rebuild" => step \in Refreshing /\ UNCHANGED seen)
            /\ step # "idle" /\ (step \in Refreshing => step = "sum_reserved")
      BY <3>2 DEF ReceiveConfirm, Ask, Refreshing
    <3>3. ASSUME NEW o \in Orders, ReceiveCancel(w, o) 
          PROVE  \E r, step :
            /\ Receive(w, r, step) /\ (r.op = "rebuild" => step \in Refreshing /\ UNCHANGED seen)
            /\ step # "idle" /\ (step \in Refreshing => step = "sum_reserved")
      BY <3>3 DEF ReceiveCancel, Ask, Refreshing
    <3>4. ASSUME NEW o \in Orders, NEW kind \in PostingKinds, NEW q \in 1 .. Quantity[o],
                 ReceivePosting(w, o, kind, q) 
          PROVE  \E r, step :
            /\ Receive(w, r, step) /\ (r.op = "rebuild" => step \in Refreshing /\ UNCHANGED seen)
            /\ step # "idle" /\ (step \in Refreshing => step = "sum_reserved")
      BY <3>4 DEF ReceivePosting, Ask, Refreshing
    <3>5. ASSUME NEW e \in DOMAIN events, ReceiveReversal(w, e) 
          PROVE  \E r, step :
            /\ Receive(w, r, step) /\ (r.op = "rebuild" => step \in Refreshing /\ UNCHANGED seen)
            /\ step # "idle" /\ (step \in Refreshing => step = "sum_reserved")
      BY <3>5 DEF ReceiveReversal, Ask, Refreshing
    <3>6. QED
      BY <1>1, <3>1, <3>2, <3>3, <3>4, <3>5 DEF Arrival
  <2>2. PICK r, step :
          /\ Receive(w, r, step) /\ (r.op = "rebuild" => step \in Refreshing /\ UNCHANGED seen)
          /\ step # "idle" /\ (step \in Refreshing => step = "sum_reserved")
    BY <2>a
  <2>3. /\ pc[w] = "idle" /\ pc'[w] = step /\ req'[w] = r
        /\ alone' = IF \A v \in Workers \ {w} : At(v, "idle") THEN {w} ELSE {}
    BY <1>0, <2>2 DEF Receive, At, Goto
  <2>4. seen[w].then = "idle"
    BY <2>3, Blank DEF TInv, Loaded
  <2>5. Undisturbed(w)'
    <3>1. req'[w].op = "rebuild" => pc'[w] \in Refreshing /\ seen'[w].then = "idle"
      BY <2>2, <2>3, <2>4
    <3>2. w \in alone' => \A v \in Workers \ {w} : pc'[v] = "idle"
      BY <2>1, <2>3 DEF Others, At
    <3>3. req'[w].op = "rebuild" => Fresh(w)'
      BY <2>2, <2>3 DEF Fresh, Refreshing
    <3>4. QED
      BY <3>1, <3>2, <3>3 DEF Undisturbed, At
  <2>6. ASSUME NEW v \in Workers, v # w PROVE Undisturbed(v)'
    <3>1. pc'[v] = pc[v] /\ req'[v] = req[v] /\ seen'[v] = seen[v] /\ Undisturbed(v)
      BY <2>1, <2>6 DEF Others, AInv
    <3>2. v \notin alone'
      BY <2>3, <2>6
    <3>3. QED
      BY <3>1, <3>2 DEF Undisturbed
  <2>7. QED
    BY <2>5, <2>6 DEF AInv
<1>2. ASSUME NEW w \in Workers, Crash(w) PROVE AInv'
  <2>1. Others(w) /\ alone' = alone /\ pc[w] # "idle"
    BY <1>2, OneWorker DEF Crash, At
  <2>2. Undisturbed(w)'
    BY <1>2, <1>a, <2>1 DEF Crash, Goto, AInv, Undisturbed
  <2>3. QED
    BY <1>b, <2>1, <2>2 DEF AInv
<1>3. ASSUME NEW w \in Workers, Serve(w) PROVE AInv'
  <2>1. /\ Others(w) /\ alone' = alone /\ pc[w] # "idle"
        /\ req' = req \/ (Answer(w) /\ RefreshSteps(w)) \/ pc[w] \notin Refreshing
    BY <1>3, OneWorker, ServeSteps
  <2>2. Undisturbed(w)'
    <3>1. CASE Answer(w)
      BY <1>a, <2>1, <3>1 DEF Answer, Goto, AInv, Undisturbed
    <3>2. CASE ~Answer(w) /\ req[w].op # "rebuild"
      <4>1. w \in alone => \A v \in Workers \ {w} : pc[v] = "idle" /\ pc'[v] = pc[v]
        BY <2>1 DEF AInv, Undisturbed, Others, At
      <4>2. QED
        BY <1>3, <2>1, <3>2, <4>1, ServeSteps DEF Undisturbed, At
    <3>3. CASE ~Answer(w) /\ req[w].op = "rebuild"
      <4>1. /\ pc[w] \in Refreshing /\ seen[w].then = "idle" /\ req' = req
            /\ w \in alone => \A v \in Workers \ {w} : pc[v] = "idle"
            /\ w \in alone => Fresh(w)
        BY <1>3, <2>1, <3>3, ServeSteps DEF AInv, Undisturbed, At
      <4>2. RefreshSteps(w)
        BY <1>3, <4>1, ServeSteps
      <4>3. UNCHANGED docs /\ Reserved' = Reserved /\ OnHand' = OnHand
        <5>1. UNCHANGED docs
          BY <3>3, <4>1, <4>2 DEF RefreshSteps, SumReserved, SumLedger, ReadRollup, SaveRollup
        <5>2. QED
          BY <5>1, SumsKept DEF docs
      <4>4. \/ /\ pc[w] = "sum_reserved" /\ pc'[w] = "sum_ledger"
               /\ seen'[w].reserved = {Reserved} /\ seen'[w].then = seen[w].then
            \/ /\ pc[w] = "sum_ledger" /\ pc'[w] = "read_rollup"
               /\ seen'[w].onHand = OnHand /\ seen'[w].then = seen[w].then
               /\ seen'[w].reserved = seen[w].reserved
            \/ /\ pc[w] = "read_rollup" /\ pc'[w] = "save_rollup"
               /\ seen'[w].rollup = rollup /\ seen'[w].then = seen[w].then
               /\ seen'[w].reserved = seen[w].reserved /\ seen'[w].onHand = seen[w].onHand
        BY <1>0, <3>3, <4>1, <4>2 DEF RefreshSteps, SumReserved, SumLedger, ReadRollup, SaveRollup,
           Continue, Goto, At, Snapshot
      <4>5. w \in alone => Fresh(w)'
        BY <4>1, <4>3, <4>4 DEF Fresh, Refreshing, docs
      <4>6. \A v \in Workers \ {w} : pc'[v] = pc[v]
        BY <2>1 DEF Others
      <4>7. pc'[w] \in Refreshing /\ seen'[w].then = "idle"
        BY <4>1, <4>4 DEF Refreshing
      <4>8. QED
        BY <2>1, <4>1, <4>5, <4>6, <4>7 DEF Undisturbed, At
    <3>4. QED
      BY <3>1, <3>2, <3>3
  <2>3. QED
    BY <1>b, <2>1, <2>2 DEF AInv
<1>4. CASE UNCHANGED vars
  <2>1. Reserved' = Reserved /\ OnHand' = OnHand
    BY <1>4, SumsKept DEF vars, docs
  <2>2. QED
    BY <1>4, <2>1 DEF vars, docs, AInv, Undisturbed, Fresh, At
<1>5. QED
  BY <1>1, <1>2, <1>3, <1>4 DEF Next

\* What the save of a refresh leaves when everything it read is still so.
LEMMA FreshSave ==
  ASSUME NEW w \in Workers, seen[w].reserved = {Reserved}, seen[w].onHand = OnHand,
         seen[w].rollup = rollup
  PROVE  RollupSaved(seen[w]) = [onHand |-> OnHand, reserved |-> Reserved]
<1>1. (CHOOSE n \in {Reserved} : TRUE) = Reserved
  OBVIOUS
<1>2. {Reserved} \subseteq {rollup.reserved} <=> Reserved = rollup.reserved
  OBVIOUS
<1>3. QED
  BY <1>1, <1>2 DEF RollupSaved

\* A rebuild that no other request overlapped repairs the balance, whatever crashes and
\* races left behind (rebuildAllBalances).
THEOREM RebuildLeavesAccurate == Spec => RebuildRepairs
<1> DEFINE Repairs(w) == (At(w, "save_rollup") /\ req[w].op = "rebuild" /\ w \in alone
                            /\ ~Crash(w) /\ pc'[w] = "idle") => Accurate'
<1>1. ASSUME TInv, AInv, Next, NEW w \in Workers PROVE Repairs(w)
  <2>1. SUFFICES ASSUME pc[w] = "save_rollup", req[w].op = "rebuild", w \in alone, ~Crash(w),
                        pc'[w] = "idle"
                 PROVE  Accurate'
    BY DEF At
  <2>2. PICK v \in Workers : Arrival(v) \/ Serve(v) \/ Crash(v)
    BY <1>1 DEF Next
  <2>3. v = w
    BY <1>1, <2>1, <2>2, OneWorker DEF Others
  <2>4. SaveRollup(w)
    <3>1. ~Arrival(w)
      BY <2>1 DEF Arrival, Rebuild, ReceiveConfirm, ReceiveCancel, ReceivePosting, ReceiveReversal,
         Receive, At
    <3>2. Serve(w)
      BY <2>1, <2>2, <2>3, <3>1
    <3>3. QED
      BY <1>1, <2>1, <3>2, ServeSteps DEF Refreshing, RefreshSteps, SumReserved, SumLedger, ReadRollup, At
  <2>5. Fresh(w)
    BY <1>1, <2>1 DEF AInv, Undisturbed
  <2>6. seen[w].reserved = {Reserved} /\ seen[w].onHand = OnHand /\ seen[w].rollup = rollup
    BY <2>1, <2>5 DEF Fresh, Refreshing
  <2>7. rollup' = [onHand |-> OnHand, reserved |-> Reserved]
    BY <2>4, <2>6, FreshSave DEF SaveRollup
  <2>8. Reserved' = Reserved /\ OnHand' = OnHand
    BY <2>4, SumsKept DEF SaveRollup
  <2>9. QED
    BY <2>7, <2>8 DEF Accurate
<1>2. TInv /\ AInv /\ [Next]_vars => [\A w \in Workers : Repairs(w)]_vars
  BY <1>1
<1> HIDE DEF Repairs
<1>3. Spec => [][\A w \in Workers : Repairs(w)]_vars
  BY <1>2, TypesInit, TypesStep, UndisturbedInit, UndisturbedStep, PTL DEF Spec
<1>4. QED
  BY <1>3 DEF RebuildRepairs, Repairs
=============================================================================
