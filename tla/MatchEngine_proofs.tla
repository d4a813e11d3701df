-------------------------- MODULE MatchEngine_proofs --------------------------
(***************************************************************************)
(* Safety of the matching engine for any number of companies, callers,     *)
(* orders and requests: its type invariant, the agreement of the maps of   *)
(* every book, the order of its queues, mutual exclusion; books that never *)
(* cross when orders come through limit_order_placement alone; quantities, *)
(* fills, notionals and limits; and that it refines the abstract market.   *)
(***************************************************************************)
EXTENDS MatchEngine, OrderBook_proofs, Sums_proofs

SoundBooks == \A c \in Companies : Sound(books[c])

\* Every ticket on a book has been given out.
TicketsGiven ==
  \A c \in Companies : \A id \in DOMAIN books[c].orders :
    books[c].orders[id].ticket \in 1..arrivals

\* The order being matched came later than everything that rests on its book.
TakerIsLatest ==
  \A t \in Callers : pc[t] = "matching" =>
    LET b == books[incoming[t].company_id] IN
    /\ incoming[t].ticket \in 1..arrivals
    /\ \A id \in DOMAIN b.orders : b.orders[id].ticket < incoming[t].ticket

\* Inductive: the order of the queues rests on TakerIsLatest, which rests on
\* mutual exclusion, since another caller's insertion would break it.
IInv ==
  /\ TypeOK
  /\ SoundBooks
  /\ MutualExclusion
  /\ TicketsGiven
  /\ TakerIsLatest

-----------------------------------------------------------------------------
LEMMA EmptyBookSound == Sound(EmptyBook)
<1>1. /\ DOMAIN EmptyMap = {}
      /\ EmptyMap = [k \in DOMAIN EmptyMap |-> EmptyMap[k]]
  BY DEF EmptyMap
<1>2. /\ EmptyBook.orders = EmptyMap
      /\ EmptyBook.queues = [side \in Sides |-> EmptyMap]
      /\ \A side \in Sides : EmptyBook.queues[side] = EmptyMap
      /\ EmptyBook = [queues |-> EmptyBook.queues, orders |-> EmptyBook.orders]
  BY DEF EmptyBook
<1>3. IsBook(EmptyBook)
  BY <1>1, <1>2 DEF IsBook, LevelsTyped, OrdersTyped
<1>4. Consistent(EmptyBook) /\ InTimeOrder(EmptyBook)
  BY <1>1, <1>2 DEF Consistent, LevelsLive, OrdersQueued, InTimeOrder
<1>5. QED
  BY <1>3, <1>4 DEF Sound

\* A notional is a natural number: the product wraps below UintModulus.
LEMMA MulDivRayType ==
  ASSUME NEW qty \in Nat, NEW price \in Nat
  PROVE  MulDivRay(qty, price) \in Nat
<1> DEFINE x == qty * price
           y == x % UintModulus
<1>1. x \in Nat
  OBVIOUS
<1> HIDE DEF x
<1>2. y \in Nat
  BY <1>1, ArithmeticAssumption
<1> HIDE DEF y
<1>3. y \div Ray \in Nat
  BY <1>2, ArithmeticAssumption
<1>4. QED
  BY <1>3 DEF MulDivRay, x, y

LEMMA FillType ==
  ASSUME NEW b, Sound(b), NEW in \in OrderRecord, in.remaining > 0,
         NEW best \in DOMAIN b.queues[Opposite(in.side)]
  PROVE  FillOf(b, in, best) \in Fill
<1> DEFINE mo == FrontOrder(b, in, best)
           qty == TradeQty(b, in, best)
<1>1. mo \in OrderRecord /\ mo.price_ray = best /\ qty \in Nat
  BY FrontFacts
<1>2. /\ mo.order_id \in OrderIds /\ mo.maker \in Makers /\ best \in Nat
      /\ in.order_id \in OrderIds /\ in.maker \in Makers
      /\ in.company_id \in Companies
  BY <1>1 DEF OrderRecord, Positive
<1>3. MulDivRay(qty, best) \in Nat
  BY <1>1, <1>2, MulDivRayType
<1> HIDE DEF mo, qty
<1>4. QED
  BY <1>1, <1>2, <1>3 DEF FillOf, Fill, mo, qty

LEMMA WithTicketType ==
  ASSUME NEW r \in Requests, NEW k \in Nat
  PROVE  /\ WithTicket(r, k) \in OrderRecord
         /\ WithTicket(r, k).ticket = k
         /\ WithTicket(r, k).remaining = r.remaining
         /\ WithTicket(r, k).company_id = r.company_id
         /\ r.company_id \in Companies
         /\ r.remaining \in Nat
         /\ r.remaining > 0
BY RequestsAssumption DEF WithTicket, OrderRecord, Positive

LEMMA InitIInv == Init => IInv
<1> SUFFICES ASSUME Init
             PROVE  IInv
  OBVIOUS
<1> USE DEF Init
<1>1. \A c \in Companies : books[c] = EmptyBook /\ Sound(books[c])
  BY EmptyBookSound
<1>2. TypeOK
  <2>1. BooksTyped
    BY <1>1 DEF BooksTyped, Sound
  <2>2. CallsTyped
    <3>1. /\ matching_paused \in BOOLEAN
          /\ lock \in [Companies -> Callers \cup {NoCaller}]
          /\ pc \in [Callers -> {"idle", "admitted", "matching"}]
          /\ \A t \in Callers : pc[t] # "idle" => incoming[t] \in OrderRecord
      OBVIOUS
    <3>2. <<>> \in Seq(Fill)
      OBVIOUS
    <3>3. fills \in [Callers -> Seq(Fill)] /\ outcome \in [Callers -> Outcomes]
      BY <3>2 DEF Outcomes
    <3>4. incoming = [t \in Callers |-> incoming[t]]
      OBVIOUS
    <3>5. QED
      BY <3>1, <3>3, <3>4 DEF CallsTyped
  <2>3. HistoryTyped
    BY BoundAssumption DEF HistoryTyped, Tickets
  <2>4. QED
    BY <2>1, <2>2, <2>3 DEF TypeOK
<1>3. MutualExclusion
  BY CallersAssumption DEF MutualExclusion
<1>4. \A c \in Companies : DOMAIN books[c].orders = {}
  BY <1>1 DEF EmptyBook, EmptyMap
<1>5. TicketsGiven /\ TakerIsLatest
  BY <1>4 DEF TicketsGiven, TakerIsLatest
<1>6. QED
  BY <1>1, <1>2, <1>3, <1>5 DEF IInv, SoundBooks

-----------------------------------------------------------------------------
\* Replacing the book of one company by a sound book whose tickets were given
\* out keeps the books and the tickets in order.
LEMMA ReplaceBook ==
  ASSUME BooksTyped, SoundBooks, NEW c \in Companies, NEW n, Sound(n),
         books' = [books EXCEPT ![c] = n]
  PROVE  /\ BooksTyped' /\ SoundBooks'
         /\ books'[c] = n
         /\ \A d \in Companies : d # c => books'[d] = books[d]
<1>1. /\ books'[c] = n
      /\ \A d \in Companies : d # c => books'[d] = books[d]
      /\ books' = [d \in Companies |-> books'[d]]
  BY DEF BooksTyped
<1>2. SoundBooks'
  BY <1>1 DEF SoundBooks
<1>3. BooksTyped'
  BY <1>1, <1>2 DEF BooksTyped, SoundBooks, Sound
<1>4. QED
  BY <1>1, <1>2, <1>3

LEMMA RefuseStep == ASSUME IInv, NEW t \in Callers, Refuse(t) PROVE IInv'
<1> USE DEF IInv, TypeOK
<1>1. BooksTyped' /\ SoundBooks' /\ HistoryTyped'
  BY DEF Refuse, historyVars, BooksTyped, SoundBooks, HistoryTyped
<1>2. CallsTyped'
  BY DEF Refuse, CallsTyped, Outcomes
<1>3. MutualExclusion' /\ TicketsGiven' /\ TakerIsLatest'
  BY DEF Refuse, historyVars, MutualExclusion, TicketsGiven, TakerIsLatest
<1>4. QED
  BY <1>1, <1>2, <1>3

LEMMA AdmitStep == ASSUME IInv, NEW t \in Callers, Admit(t) PROVE IInv'
<1> USE DEF IInv, TypeOK
<1>1. PICK r \in Requests : incoming' = [incoming EXCEPT ![t] = WithTicket(r, 0)]
  BY DEF Admit, Submit
<1>2. WithTicket(r, 0) \in OrderRecord
  BY WithTicketType
<1>3. /\ pc[t] = "idle" /\ pc' = [pc EXCEPT ![t] = "admitted"]
      /\ fills' = [fills EXCEPT ![t] = <<>>]
      /\ outcome' = [outcome EXCEPT ![t] = "None"]
      /\ UNCHANGED <<books, matching_paused, lock, arrivals, size, traded, gone>>
  BY DEF Admit, Submit, historyVars
<1>4. BooksTyped' /\ SoundBooks' /\ HistoryTyped'
  BY <1>3 DEF BooksTyped, SoundBooks, HistoryTyped
<1>5. CallsTyped'
  <2>1. incoming' = [u \in Callers |-> incoming'[u]]
    BY <1>1 DEF CallsTyped
  <2>2. \A u \in Callers : pc'[u] # "idle" => incoming'[u] \in OrderRecord
    BY <1>1, <1>2, <1>3 DEF CallsTyped
  <2>3. fills' \in [Callers -> Seq(Fill)]
    BY <1>3 DEF CallsTyped
  <2>4. outcome' \in [Callers -> Outcomes]
    BY <1>3 DEF CallsTyped, Outcomes
  <2>5. pc' \in [Callers -> {"idle", "admitted", "matching"}]
    BY <1>3 DEF CallsTyped
  <2>6. QED
    BY <1>3, <2>1, <2>2, <2>3, <2>4, <2>5 DEF CallsTyped
<1>6. MutualExclusion'
  BY <1>1, <1>3 DEF MutualExclusion, CallsTyped
<1>7. TicketsGiven' /\ TakerIsLatest'
  BY <1>1, <1>3 DEF TicketsGiven, TakerIsLatest, CallsTyped
<1>8. QED
  BY <1>4, <1>5, <1>6, <1>7

LEMMA AcquireStep == ASSUME IInv, NEW t \in Callers, Acquire(t) PROVE IInv'
<1> USE DEF IInv, TypeOK
<1> DEFINE c == incoming[t].company_id
<1>1. /\ pc[t] = "admitted" /\ lock[c] = NoCaller /\ arrivals < MaxArrivals
      /\ lock' = [lock EXCEPT ![c] = t]
      /\ pc' = [pc EXCEPT ![t] = "matching"]
      /\ arrivals' = arrivals + 1
      /\ incoming' = [incoming EXCEPT ![t].ticket = arrivals + 1]
      /\ size' = [size EXCEPT ![arrivals + 1] = incoming[t].remaining]
      /\ UNCHANGED <<books, matching_paused, fills, outcome, traded, gone>>
  BY DEF Acquire
<1>2. incoming[t] \in OrderRecord /\ c \in Companies /\ arrivals \in Nat
      /\ arrivals' \in Tickets /\ incoming[t].remaining \in Nat
  BY <1>1, BoundAssumption DEF CallsTyped, HistoryTyped, OrderRecord, Tickets
<1>3. /\ incoming'[t] = [incoming[t] EXCEPT !.ticket = arrivals + 1]
      /\ \A u \in Callers : u # t => incoming'[u] = incoming[u]
      /\ incoming' = [u \in Callers |-> incoming'[u]]
  BY <1>1 DEF CallsTyped
<1>4. /\ incoming'[t] \in OrderRecord
      /\ incoming'[t].ticket = arrivals + 1
      /\ incoming'[t].company_id = c
  BY <1>2, <1>3 DEF OrderRecord
<1> HIDE DEF c
<1>5. BooksTyped' /\ SoundBooks'
  BY <1>1 DEF BooksTyped, SoundBooks
<1>6. HistoryTyped'
  BY <1>1, <1>2, BoundAssumption DEF HistoryTyped, Tickets
<1>7. CallsTyped'
  BY <1>1, <1>2, <1>3, <1>4 DEF CallsTyped
<1>8. MutualExclusion'
  BY <1>1, <1>2, <1>3, <1>4, CallersAssumption DEF MutualExclusion, CallsTyped, c
<1>9. TicketsGiven'
  BY <1>1, <1>2 DEF TicketsGiven
<1>10. TakerIsLatest'
  <2>1. ASSUME NEW u \in Callers, pc'[u] = "matching"
        PROVE  /\ incoming'[u].ticket \in 1..arrivals'
               /\ \A id \in DOMAIN books'[incoming'[u].company_id].orders :
                    books'[incoming'[u].company_id].orders[id].ticket
                      < incoming'[u].ticket
    <3>1. CASE u = t
      <4>1. \A id \in DOMAIN books[c].orders : books[c].orders[id].ticket \in 1..arrivals
        BY <1>2 DEF TicketsGiven
      <4>2. QED
        BY <1>1, <1>2, <1>4, <3>1, <4>1
    <3>2. CASE u # t
      <4>1. pc[u] = "matching" /\ incoming'[u] = incoming[u]
        BY <1>1, <1>3, <2>1, <3>2 DEF CallsTyped
      <4>2. /\ incoming[u].ticket \in 1..arrivals
            /\ \A id \in DOMAIN books[incoming[u].company_id].orders :
                 books[incoming[u].company_id].orders[id].ticket < incoming[u].ticket
        BY <4>1 DEF TakerIsLatest
      <4>3. incoming[u].ticket \in 1..arrivals'
        BY <1>1, <1>2, <4>2
      <4>4. QED
        BY <1>1, <4>1, <4>2, <4>3
    <3>3. QED
      BY <3>1, <3>2
  <2>2. QED
    BY <2>1 DEF TakerIsLatest
<1>11. QED
  BY <1>5, <1>6, <1>7, <1>8, <1>9, <1>10

\* The caller that matches holds the mutex of its book.
LEMMA MatchingHolds ==
  ASSUME IInv, NEW t \in Callers, pc[t] = "matching"
  PROVE  /\ incoming[t] \in OrderRecord
         /\ incoming[t].company_id \in Companies
         /\ incoming[t].remaining \in Nat
         /\ incoming[t].ticket \in 1..arrivals
         /\ incoming[t].ticket \in Tickets
         /\ lock[incoming[t].company_id] = t
         /\ \A u \in Callers :
              u # t /\ pc[u] = "matching"
                => incoming[u].company_id # incoming[t].company_id
<1>1. incoming[t] \in OrderRecord
  BY DEF IInv, TypeOK, CallsTyped
<1>2. /\ incoming[t].company_id \in Companies
      /\ incoming[t].remaining \in Nat
  BY <1>1 DEF OrderRecord
<1>3. incoming[t].ticket \in 1..arrivals /\ arrivals \in 0..MaxArrivals
  BY DEF IInv, TakerIsLatest, TypeOK, HistoryTyped
<1>4. lock[incoming[t].company_id] = t
  BY <1>2 DEF IInv, MutualExclusion
<1>5. \A u \in Callers :
        u # t /\ pc[u] = "matching" => incoming[u].company_id # incoming[t].company_id
  BY <1>2, <1>4 DEF IInv, MutualExclusion
<1>6. incoming[t].ticket \in Tickets
  BY <1>3, BoundAssumption DEF Tickets
<1>7. QED
  BY <1>1, <1>2, <1>3, <1>4, <1>5, <1>6

LEMMA MatchStepStep == ASSUME IInv, NEW t \in Callers, MatchStep(t) PROVE IInv'
<1> DEFINE in == incoming[t]
           c == in.company_id
           b == books[c]
<1>1. /\ pc[t] = "matching" /\ in.remaining > 0
      /\ UNCHANGED <<matching_paused, lock, pc, outcome, arrivals, size, gone>>
  BY DEF MatchStep
<1>2. PICK best \in DOMAIN b.queues[Opposite(in.side)] :
        /\ books' = [books EXCEPT ![c] = MatchFront(b, in, best)]
        /\ incoming' = [incoming EXCEPT ![t].remaining = @ - TradeQty(b, in, best)]
        /\ fills' = [fills EXCEPT ![t] = Append(@, FillOf(b, in, best))]
        /\ traded' = [traded EXCEPT
                        ![FrontOrder(b, in, best).ticket] = @ + TradeQty(b, in, best),
                        ![in.ticket] = @ + TradeQty(b, in, best)]
  BY DEF MatchStep
<1>3. /\ in \in OrderRecord /\ c \in Companies /\ in.remaining \in Nat
      /\ in.ticket \in 1..arrivals /\ in.ticket \in Tickets
      /\ \A u \in Callers : u # t /\ pc[u] = "matching" => incoming[u].company_id # c
  BY <1>1, MatchingHolds
<1>4. BooksTyped /\ SoundBooks /\ CallsTyped /\ HistoryTyped
      /\ MutualExclusion /\ TicketsGiven /\ TakerIsLatest
  BY DEF IInv, TypeOK
<1>5. Sound(b)
  BY <1>3, <1>4 DEF SoundBooks
<1> DEFINE n == MatchFront(b, in, best)
           qty == TradeQty(b, in, best)
           mo == FrontOrder(b, in, best)
           f == FillOf(b, in, best)
<1>6. Sound(n) /\ Shrinks(n, b)
  BY <1>1, <1>3, <1>5, MatchSound
<1>7. /\ mo.order_id \in DOMAIN b.orders /\ mo = b.orders[mo.order_id]
      /\ qty \in Nat \ {0} /\ qty <= in.remaining
  BY <1>1, <1>3, <1>5, FrontFacts
<1>8. f \in Fill
  BY <1>1, <1>3, <1>5, FillType
<1>9. BooksTyped' /\ SoundBooks' /\ books'[c] = n
      /\ \A d \in Companies : d # c => books'[d] = books[d]
  BY <1>2, <1>3, <1>4, <1>6, ReplaceBook
<1>10. mo.ticket \in 1..arrivals /\ mo.ticket \in Tickets
  BY <1>3, <1>4, <1>7, BoundAssumption DEF TicketsGiven, HistoryTyped, Tickets
<1>11. /\ incoming'[t] = [in EXCEPT !.remaining = in.remaining - qty]
       /\ \A u \in Callers : u # t => incoming'[u] = incoming[u]
       /\ incoming' = [u \in Callers |-> incoming'[u]]
  BY <1>2, <1>4 DEF CallsTyped
<1> HIDE DEF n, qty, mo, f
<1>12. in.remaining - qty \in Nat
  BY <1>3, <1>7
<1>13. /\ incoming'[t] \in OrderRecord
       /\ incoming'[t].company_id = c
       /\ incoming'[t].ticket = in.ticket
  BY <1>3, <1>11, <1>12 DEF OrderRecord
<1>14. fills' = [fills EXCEPT ![t] = Append(@, f)]
  BY <1>2 DEF f
<1>15. traded' = [traded EXCEPT ![mo.ticket] = @ + qty, ![in.ticket] = @ + qty]
  BY <1>2 DEF mo, qty
<1> HIDE DEF in, b
<1>16. CallsTyped'
  <2>1. fills' \in [Callers -> Seq(Fill)]
    BY <1>4, <1>8, <1>14 DEF CallsTyped
  <2>2. \A u \in Callers : pc'[u] # "idle" => incoming'[u] \in OrderRecord
    BY <1>1, <1>4, <1>11, <1>13 DEF CallsTyped
  <2>3. QED
    BY <1>1, <1>4, <1>11, <2>1, <2>2 DEF CallsTyped
<1>17. HistoryTyped'
  <2>1. traded' \in [Tickets -> Nat]
    BY <1>3, <1>4, <1>7, <1>10, <1>15 DEF HistoryTyped
  <2>2. QED
    BY <1>1, <1>4, <2>1 DEF HistoryTyped
<1>18. \A u \in Callers : incoming'[u].company_id = incoming[u].company_id
                         /\ incoming'[u].ticket = incoming[u].ticket
  BY <1>11, <1>13 DEF in, c
<1>19. MutualExclusion'
  BY <1>1, <1>4, <1>18 DEF MutualExclusion
<1>20. \A d \in Companies :
         /\ DOMAIN books'[d].orders \subseteq DOMAIN books[d].orders
         /\ \A id \in DOMAIN books'[d].orders :
              books'[d].orders[id].ticket = books[d].orders[id].ticket
  BY <1>6, <1>9 DEF Shrinks, b
<1>21. TicketsGiven'
  BY <1>1, <1>4, <1>20 DEF TicketsGiven
<1>22. TakerIsLatest'
  <2>1. ASSUME NEW u \in Callers, pc'[u] = "matching"
        PROVE  LET d == incoming'[u].company_id IN
               /\ incoming'[u].ticket \in 1..arrivals'
               /\ \A id \in DOMAIN books'[d].orders :
                    books'[d].orders[id].ticket < incoming'[u].ticket
    <3>1. pc[u] = "matching" /\ incoming[u].company_id \in Companies
      BY <1>1, <2>1, MatchingHolds
    <3> DEFINE d == incoming[u].company_id
    <3>2. /\ incoming[u].ticket \in 1..arrivals
          /\ \A id \in DOMAIN books[d].orders :
               books[d].orders[id].ticket < incoming[u].ticket
      BY <1>4, <3>1 DEF TakerIsLatest
    <3>3. incoming'[u].company_id = d /\ incoming'[u].ticket = incoming[u].ticket
      BY <1>18
    <3>4. arrivals' = arrivals
      BY <1>1
    <3> HIDE DEF d
    <3>5. ASSUME NEW id \in DOMAIN books'[d].orders
          PROVE  books'[d].orders[id].ticket < incoming[u].ticket
      <4>1. /\ id \in DOMAIN books[d].orders
            /\ books'[d].orders[id].ticket = books[d].orders[id].ticket
        BY <1>20, <3>1 DEF d
      <4>2. QED
        BY <3>2, <4>1 DEF d
    <3>6. QED
      BY <3>2, <3>3, <3>4, <3>5
  <2>2. QED
    BY <2>1 DEF TakerIsLatest
<1>23. QED
  BY <1>9, <1>16, <1>17, <1>19, <1>21, <1>22 DEF IInv, TypeOK

\* An inserted order is the only new one.
LEMMA InsertTickets ==
  ASSUME NEW b, NEW r, CanInsert(b, r)
  PROVE  /\ DOMAIN InsertLimitOrder(b, r).orders = DOMAIN b.orders \cup {r.order_id}
         /\ InsertLimitOrder(b, r).orders[r.order_id] = r
         /\ \A id \in DOMAIN b.orders :
              InsertLimitOrder(b, r).orders[id] = b.orders[id]
BY DEF InsertLimitOrder, Put, CanInsert

LEMMA ReturnStep == ASSUME IInv, NEW t \in Callers, Return(t) PROVE IInv'
<1> DEFINE in == incoming[t]
           c == in.company_id
           b == books[c]
<1>1. /\ pc[t] = "matching"
      /\ lock' = [lock EXCEPT ![c] = NoCaller]
      /\ pc' = [pc EXCEPT ![t] = "idle"]
      /\ incoming' = [incoming EXCEPT ![t] = EmptyMap]
      /\ UNCHANGED <<matching_paused, arrivals, size, traded>>
  BY DEF Return, Release
<1>2. \/ /\ UNCHANGED <<books, fills, gone>>
         /\ outcome' = [outcome EXCEPT ![t] = "Ok"]
      \/ /\ in.remaining > 0
         /\ CanInsert(b, in)
         /\ books' = [books EXCEPT ![c] = InsertLimitOrder(b, in)]
         /\ outcome' = [outcome EXCEPT ![t] = "Ok"]
         /\ UNCHANGED <<fills, gone>>
      \/ /\ outcome' = [outcome EXCEPT ![t] = "DuplicateOrderId"]
         /\ fills' = [fills EXCEPT ![t] = <<>>]
         /\ gone' = gone \cup {in.ticket}
         /\ UNCHANGED books
  BY DEF Return, Release
<1>3. /\ in \in OrderRecord /\ c \in Companies
      /\ in.ticket \in 1..arrivals /\ in.ticket \in Tickets
      /\ lock[c] = t
      /\ \A u \in Callers : u # t /\ pc[u] = "matching" => incoming[u].company_id # c
  BY <1>1, MatchingHolds
<1>4. BooksTyped /\ SoundBooks /\ CallsTyped /\ HistoryTyped
      /\ MutualExclusion /\ TicketsGiven /\ TakerIsLatest
  BY DEF IInv, TypeOK
<1>5. /\ Sound(b)
      /\ \A id \in DOMAIN b.orders : b.orders[id].ticket < in.ticket
  BY <1>1, <1>3, <1>4 DEF SoundBooks, TakerIsLatest
<1> HIDE DEF in, c, b
<1>6. /\ BooksTyped' /\ SoundBooks'
      /\ \A d \in Companies : d # c => books'[d] = books[d]
      /\ \A id \in DOMAIN books'[c].orders :
           \/ id \in DOMAIN b.orders /\ books'[c].orders[id] = b.orders[id]
           \/ books'[c].orders[id] = in
  <2>1. CASE UNCHANGED books
    BY <1>4, <2>1 DEF BooksTyped, SoundBooks, b
  <2>2. CASE /\ in.remaining > 0
             /\ CanInsert(b, in)
             /\ books' = [books EXCEPT ![c] = InsertLimitOrder(b, in)]
    <3> DEFINE n == InsertLimitOrder(b, in)
    <3>1. Sound(n)
      BY <1>3, <1>5, <2>2, InsertSound
    <3>2. /\ DOMAIN n.orders = DOMAIN b.orders \cup {in.order_id}
          /\ n.orders[in.order_id] = in
          /\ \A id \in DOMAIN b.orders : n.orders[id] = b.orders[id]
      BY <2>2, InsertTickets
    <3> HIDE DEF n
    <3>3. /\ BooksTyped' /\ SoundBooks' /\ books'[c] = n
          /\ \A d \in Companies : d # c => books'[d] = books[d]
      BY <1>3, <1>4, <2>2, <3>1, ReplaceBook DEF n
    <3>4. QED
      BY <3>2, <3>3
  <2>3. QED
    BY <1>2, <2>1, <2>2
<1>7. HistoryTyped'
  <2>1. gone' \subseteq Tickets
    BY <1>2, <1>3, <1>4 DEF HistoryTyped
  <2>2. QED
    BY <1>1, <1>4, <2>1 DEF HistoryTyped
<1>8. CallsTyped'
  <2>1. fills' \in [Callers -> Seq(Fill)]
    <3>1. fills' = fills \/ fills' = [fills EXCEPT ![t] = <<>>]
      BY <1>2
    <3>2. <<>> \in Seq(Fill) /\ fills \in [Callers -> Seq(Fill)]
      BY <1>4 DEF CallsTyped
    <3>3. QED
      BY <3>1, <3>2
  <2>2. outcome' \in [Callers -> Outcomes]
    BY <1>2, <1>4 DEF CallsTyped, Outcomes
  <2>3. QED
    BY <1>1, <1>4, <2>1, <2>2 DEF CallsTyped
<1>9. MutualExclusion'
  <2>1. ASSUME NEW d \in Companies, NEW u \in Callers
        PROVE  lock'[d] = u <=> pc'[u] = "matching" /\ incoming'[u].company_id = d
    <3>1. CASE u = t
      BY <1>1, <1>3, <1>4, <3>1, CallersAssumption DEF MutualExclusion, CallsTyped, in, c
    <3>2. CASE u # t
      BY <1>1, <1>3, <1>4, <3>2, CallersAssumption DEF MutualExclusion, CallsTyped, in, c
    <3>3. QED
      BY <3>1, <3>2
  <2>2. QED
    BY <2>1 DEF MutualExclusion
<1>10. TicketsGiven'
  BY <1>1, <1>3, <1>4, <1>6 DEF TicketsGiven, b
<1>11. TakerIsLatest'
  <2>1. ASSUME NEW u \in Callers, pc'[u] = "matching"
        PROVE  LET d == incoming'[u].company_id IN
               /\ incoming'[u].ticket \in 1..arrivals'
               /\ \A id \in DOMAIN books'[d].orders :
                    books'[d].orders[id].ticket < incoming'[u].ticket
    <3>1. u # t /\ pc[u] = "matching" /\ incoming'[u] = incoming[u]
      BY <1>1, <1>4, <2>1 DEF CallsTyped
    <3>2. incoming[u].company_id \in Companies /\ incoming[u].company_id # c
      BY <1>3, <3>1, MatchingHolds
    <3>3. QED
      BY <1>1, <1>4, <1>6, <3>1, <3>2 DEF TakerIsLatest
  <2>2. QED
    BY <2>1 DEF TakerIsLatest
<1>12. QED
  BY <1>6, <1>7, <1>8, <1>9, <1>10, <1>11 DEF IInv, TypeOK

\* A book that no caller holds may be replaced by any sound book that adds at
\* most an order with a ticket already given out.
LEMMA FreeBookStep ==
  ASSUME IInv, NEW c \in Companies, lock[c] = NoCaller,
         BooksTyped', SoundBooks', CallsTyped', HistoryTyped',
         UNCHANGED <<lock, pc, incoming>>,
         arrivals' >= arrivals,
         \A d \in Companies : d # c => books'[d] = books[d],
         \A id \in DOMAIN books'[c].orders :
           \/ /\ id \in DOMAIN books[c].orders
              /\ books'[c].orders[id].ticket = books[c].orders[id].ticket
           \/ books'[c].orders[id].ticket \in 1..arrivals'
  PROVE  IInv'
<1>1. CallsTyped /\ MutualExclusion /\ TicketsGiven /\ TakerIsLatest
      /\ arrivals \in Nat /\ arrivals' \in Nat
  BY BoundAssumption DEF IInv, TypeOK, HistoryTyped
<1>2. MutualExclusion'
  BY <1>1 DEF MutualExclusion
<1>3. TicketsGiven'
  BY <1>1 DEF TicketsGiven
<1>4. TakerIsLatest'
  <2>1. ASSUME NEW u \in Callers, pc'[u] = "matching"
        PROVE  LET d == incoming'[u].company_id IN
               /\ incoming'[u].ticket \in 1..arrivals'
               /\ \A id \in DOMAIN books'[d].orders :
                    books'[d].orders[id].ticket < incoming'[u].ticket
    <3>1. pc[u] = "matching" /\ incoming'[u] = incoming[u]
      BY <2>1
    <3>2. /\ incoming[u].company_id \in Companies
          /\ lock[incoming[u].company_id] = u
      BY <3>1, MatchingHolds
    <3>3. incoming[u].company_id # c
      BY <3>2, CallersAssumption
    <3>4. /\ incoming[u].ticket \in 1..arrivals
          /\ \A id \in DOMAIN books[incoming[u].company_id].orders :
               books[incoming[u].company_id].orders[id].ticket < incoming[u].ticket
      BY <1>1, <3>1 DEF TakerIsLatest
    <3>5. incoming[u].ticket \in 1..arrivals'
      BY <1>1, <3>4
    <3>6. QED
      BY <3>1, <3>2, <3>3, <3>4, <3>5
  <2>2. QED
    BY <2>1 DEF TakerIsLatest
<1>5. QED
  BY <1>2, <1>3, <1>4 DEF IInv, TypeOK

LEMMA IngestChainOrderStep ==
  ASSUME IInv, NEW t \in Callers, IngestChainOrder(t) PROVE IInv'
<1>1. PICK r \in Requests :
        /\ lock[r.company_id] = NoCaller
        /\ arrivals < MaxArrivals
        /\ arrivals' = arrivals + 1
        /\ size' = [size EXCEPT ![arrivals'] = r.remaining]
        /\ fills' = [fills EXCEPT ![t] = <<>>]
        /\ \/ /\ CanInsert(books[r.company_id], WithTicket(r, arrivals + 1))
              /\ books' = [books EXCEPT ![r.company_id] =
                             InsertLimitOrder(@, WithTicket(r, arrivals + 1))]
              /\ outcome' = [outcome EXCEPT ![t] = "Ok"]
              /\ UNCHANGED gone
           \/ /\ outcome' = [outcome EXCEPT ![t] = "DuplicateOrderId"]
              /\ gone' = gone \cup {arrivals'}
              /\ UNCHANGED books
        /\ UNCHANGED <<matching_paused, lock, pc, incoming, traded>>
  BY DEF IngestChainOrder
<1> DEFINE c == r.company_id
           k == arrivals + 1
           o == WithTicket(r, k)
<1>2. BooksTyped /\ SoundBooks /\ CallsTyped /\ HistoryTyped /\ TicketsGiven
  BY DEF IInv, TypeOK
<1>3. arrivals \in Nat /\ k \in Tickets /\ k \in Nat /\ k \in 1..arrivals'
  BY <1>1, <1>2, BoundAssumption DEF HistoryTyped, Tickets
<1>4. /\ o \in OrderRecord /\ o.ticket = k /\ o.remaining > 0
      /\ c \in Companies /\ r.remaining \in Nat
  BY <1>3, WithTicketType
<1> HIDE DEF o, c
<1>5. HistoryTyped'
  <2>1. size' \in [Tickets -> Nat]
    BY <1>1, <1>2, <1>4 DEF HistoryTyped
  <2>2. gone' \subseteq Tickets
    BY <1>1, <1>2, <1>3 DEF HistoryTyped
  <2>3. arrivals' \in 0..MaxArrivals
    BY <1>1, <1>3, BoundAssumption
  <2>4. QED
    BY <1>1, <1>2, <2>1, <2>2, <2>3 DEF HistoryTyped
<1>6. CallsTyped'
  <2>1. fills' \in [Callers -> Seq(Fill)]
    BY <1>1, <1>2 DEF CallsTyped
  <2>2. outcome' \in [Callers -> Outcomes]
    BY <1>1, <1>2 DEF CallsTyped, Outcomes
  <2>3. QED
    BY <1>1, <1>2, <2>1, <2>2 DEF CallsTyped
<1>7. CASE UNCHANGED books
  <2>1. BooksTyped' /\ SoundBooks'
    BY <1>2, <1>7 DEF BooksTyped, SoundBooks
  <2>2. lock[c] = NoCaller
    BY <1>1 DEF c
  <2>3. arrivals' >= arrivals
    BY <1>1, <1>3
  <2>4. QED
    BY <1>1, <1>4, <1>5, <1>6, <1>7, <2>1, <2>2, <2>3, FreeBookStep
<1>8. CASE /\ CanInsert(books[c], o)
           /\ books' = [books EXCEPT ![c] = InsertLimitOrder(@, o)]
  <2> DEFINE n == InsertLimitOrder(books[c], o)
  <2>1. \A id \in DOMAIN books[c].orders : books[c].orders[id].ticket < o.ticket
    BY <1>2, <1>3, <1>4 DEF TicketsGiven
  <2>2. Sound(books[c])
    BY <1>2, <1>4 DEF SoundBooks
  <2>3. Sound(n)
    BY <1>4, <1>8, <2>1, <2>2, InsertSound
  <2>4. /\ DOMAIN n.orders = DOMAIN books[c].orders \cup {o.order_id}
        /\ n.orders[o.order_id] = o
        /\ \A id \in DOMAIN books[c].orders : n.orders[id] = books[c].orders[id]
    BY <1>8, InsertTickets
  <2> HIDE DEF n
  <2>5. /\ BooksTyped' /\ SoundBooks' /\ books'[c] = n
        /\ \A d \in Companies : d # c => books'[d] = books[d]
    BY <1>2, <1>4, <1>8, <2>3, ReplaceBook DEF n
  <2>6. \A id \in DOMAIN books'[c].orders :
          \/ /\ id \in DOMAIN books[c].orders
             /\ books'[c].orders[id].ticket = books[c].orders[id].ticket
          \/ books'[c].orders[id].ticket \in 1..arrivals'
    BY <1>3, <1>4, <2>4, <2>5
  <2>7. lock[c] = NoCaller /\ UNCHANGED <<lock, pc, incoming>>
    BY <1>1 DEF c
  <2>8. arrivals' >= arrivals
    BY <1>1, <1>3
  <2>9. QED
    BY <1>4, <1>5, <1>6, <2>5, <2>6, <2>7, <2>8, FreeBookStep
<1>9. QED
  BY <1>1, <1>7, <1>8 DEF o, c

LEMMA IngestCancelStep ==
  ASSUME IInv, NEW t \in Callers, IngestCancel(t) PROVE IInv'
<1>1. PICK c \in Companies, id \in OrderIds :
        /\ lock[c] = NoCaller
        /\ fills' = [fills EXCEPT ![t] = <<>>]
        /\ \/ /\ id \in DOMAIN books[c].orders
              /\ books' = [books EXCEPT ![c] = CancelOrder(@, id)]
              /\ gone' = gone \cup {books[c].orders[id].ticket}
              /\ outcome' = [outcome EXCEPT ![t] = "Ok"]
           \/ /\ outcome' = [outcome EXCEPT ![t] = "UnknownOrder"]
              /\ UNCHANGED <<books, gone>>
        /\ UNCHANGED <<matching_paused, lock, pc, incoming, arrivals, size, traded>>
  BY DEF IngestCancel, CancelResting
<1>2. BooksTyped /\ SoundBooks /\ CallsTyped /\ HistoryTyped /\ TicketsGiven
  BY DEF IInv, TypeOK
<1>3. arrivals \in Nat /\ arrivals' >= arrivals
  BY <1>1, <1>2, BoundAssumption DEF HistoryTyped
<1>4. HistoryTyped'
  <2>1. gone' \subseteq Tickets
    <3>1. gone \subseteq Tickets
      BY <1>2 DEF HistoryTyped
    <3>2. CASE UNCHANGED gone
      BY <3>1, <3>2
    <3>3. CASE /\ id \in DOMAIN books[c].orders
               /\ gone' = gone \cup {books[c].orders[id].ticket}
      <4>1. books[c].orders[id].ticket \in 1..arrivals
        BY <1>2, <3>3 DEF TicketsGiven
      <4>2. books[c].orders[id].ticket \in Tickets
        BY <1>2, <4>1, BoundAssumption DEF HistoryTyped, Tickets
      <4>3. QED
        BY <3>1, <3>3, <4>2
    <3>4. QED
      BY <1>1, <3>2, <3>3
  <2>2. QED
    BY <1>1, <1>2, <2>1 DEF HistoryTyped
<1>5. CallsTyped'
  <2>1. fills' \in [Callers -> Seq(Fill)]
    BY <1>1, <1>2 DEF CallsTyped
  <2>2. outcome' \in [Callers -> Outcomes]
    BY <1>1, <1>2 DEF CallsTyped, Outcomes
  <2>3. QED
    BY <1>1, <1>2, <2>1, <2>2 DEF CallsTyped
<1>6. CASE UNCHANGED books
  <2>1. BooksTyped' /\ SoundBooks'
    BY <1>2, <1>6 DEF BooksTyped, SoundBooks
  <2>2. QED
    BY <1>1, <1>3, <1>4, <1>5, <1>6, <2>1, FreeBookStep
<1>7. CASE /\ id \in DOMAIN books[c].orders
           /\ books' = [books EXCEPT ![c] = CancelOrder(@, id)]
  <2> DEFINE n == CancelOrder(books[c], id)
  <2>1. Sound(n) /\ Shrinks(n, books[c])
    BY <1>2, <1>7, CancelSound, CancelShrinks DEF SoundBooks
  <2> HIDE DEF n
  <2>2. /\ BooksTyped' /\ SoundBooks' /\ books'[c] = n
        /\ \A d \in Companies : d # c => books'[d] = books[d]
    BY <1>2, <1>7, <2>1, ReplaceBook DEF n
  <2>3. \A x \in DOMAIN books'[c].orders :
          /\ x \in DOMAIN books[c].orders
          /\ books'[c].orders[x].ticket = books[c].orders[x].ticket
    BY <2>1, <2>2 DEF Shrinks
  <2>4. QED
    BY <1>1, <1>3, <1>4, <1>5, <2>2, <2>3, FreeBookStep
<1>8. QED
  BY <1>1, <1>6, <1>7

LEMMA PauseStep ==
  ASSUME IInv, PauseMatching \/ ResumeMatching PROVE IInv'
<1>1. /\ UNCHANGED <<books, lock, pc, incoming, fills, outcome,
                     arrivals, size, traded, gone>>
      /\ matching_paused' \in BOOLEAN
  BY DEF PauseMatching, ResumeMatching, historyVars
<1>2. BooksTyped' /\ CallsTyped' /\ HistoryTyped' /\ SoundBooks'
  BY <1>1 DEF IInv, TypeOK, BooksTyped, CallsTyped, HistoryTyped, SoundBooks
<1>3. MutualExclusion' /\ TicketsGiven' /\ TakerIsLatest'
  BY <1>1 DEF IInv, MutualExclusion, TicketsGiven, TakerIsLatest
<1>4. QED
  BY <1>2, <1>3 DEF IInv, TypeOK

LEMMA StutterStep == ASSUME IInv, UNCHANGED vars PROVE IInv'
BY DEF IInv, TypeOK, BooksTyped, CallsTyped, HistoryTyped, SoundBooks,
       MutualExclusion, TicketsGiven, TakerIsLatest, vars

LEMMA NextIInv == IInv /\ [Next]_vars => IInv'
<1> SUFFICES ASSUME IInv, [Next]_vars
             PROVE  IInv'
  OBVIOUS
<1>1. ASSUME NEW t \in Callers, Refuse(t) PROVE IInv'
  BY <1>1, RefuseStep
<1>2. ASSUME NEW t \in Callers, Admit(t) PROVE IInv'
  BY <1>2, AdmitStep
<1>3. ASSUME NEW t \in Callers, Acquire(t) PROVE IInv'
  BY <1>3, AcquireStep
<1>4. ASSUME NEW t \in Callers, MatchStep(t) PROVE IInv'
  BY <1>4, MatchStepStep
<1>5. ASSUME NEW t \in Callers, Return(t) PROVE IInv'
  BY <1>5, ReturnStep
<1>6. ASSUME NEW t \in Callers, IngestChainOrder(t) PROVE IInv'
  BY <1>6, IngestChainOrderStep
<1>7. ASSUME NEW t \in Callers, IngestCancel(t) PROVE IInv'
  BY <1>7, IngestCancelStep
<1>8. CASE PauseMatching \/ ResumeMatching
  BY <1>8, PauseStep
<1>9. CASE UNCHANGED vars
  BY <1>9, StutterStep
<1>10. QED
  BY <1>1, <1>2, <1>3, <1>4, <1>5, <1>6, <1>7, <1>8, <1>9
     DEF Next, PlacementNext, Placement

\* Books, queues, mutexes and tickets are kept together by every step (matching.rs:104).
THEOREM Inductive == Spec => []IInv
<1>1. Init => IInv
  BY InitIInv
<1>2. IInv /\ [Next]_vars => IInv'
  BY NextIInv
<1>3. QED
  BY <1>1, <1>2, PTL DEF Spec

\* The variables of the engine, of its callers and of the history keep their
\* types: matching never drives a remaining quantity below zero.
THEOREM TypeCorrect == Spec => []TypeOK
<1>1. IInv => TypeOK
  BY DEF IInv
<1>2. QED
  BY <1>1, Inductive, PTL

\* In every reachable state of every book, also in the middle of a placement,
\* the price maps and the orders map agree (orderbook.rs:39-44), so that the
\* `expect`s of the matching loop never fail.
THEOREM BooksStayConsistent == Spec => []BooksConsistent
<1>1. IInv => BooksConsistent
  BY DEF IInv, SoundBooks, Sound, BooksConsistent
<1>2. QED
  BY <1>1, Inductive, PTL

\* Every queue lists its orders in the order in which they took the mutex.
THEOREM QueuesStayInTimeOrder == Spec => []QueuesInTimeOrder
<1>1. IInv => QueuesInTimeOrder
  BY DEF IInv, SoundBooks, Sound, QueuesInTimeOrder
<1>2. QED
  BY <1>1, Inductive, PTL

\* A book has one holder at a time, the caller that matches on it.
THEOREM Exclusive == Spec => []MutualExclusion
<1>1. IInv => MutualExclusion
  BY DEF IInv
<1>2. QED
  BY <1>1, Inductive, PTL

-----------------------------------------------------------------------------
\* The head of the best level has priority over every other resting order.
LEMMA FrontHasPriority ==
  ASSUME NEW b, Sound(b), NEW in \in OrderRecord, in.remaining > 0,
         NEW best, IsBest(b, Opposite(in.side), best),
         NEW id \in DOMAIN b.orders, b.orders[id].side = Opposite(in.side)
  PROVE  LET mo == FrontOrder(b, in, best)
             o == b.orders[id]
         IN /\ NoWorse(o.side, mo.price_ray, o.price_ray)
            /\ o.price_ray = mo.price_ray => mo.ticket <= o.ticket
<1> DEFINE s == Opposite(in.side)
           old == b.queues[s][best]
           mo == FrontOrder(b, in, best)
           o == b.orders[id]
<1>1. best \in DOMAIN b.queues[s]
  BY DEF IsBest
<1>2. /\ mo = b.orders[mo.order_id] /\ mo.order_id = old[1]
      /\ mo.price_ray = best /\ mo \in OrderRecord
      /\ Len(old) \in Nat \ {0} /\ old \in Seq(OrderIds)
  BY <1>1, FrontFacts
<1>3. /\ o.price_ray \in DOMAIN b.queues[s]
      /\ \E i \in 1..Len(b.queues[s][o.price_ray]) : b.queues[s][o.price_ray][i] = id
  BY DEF Sound, Consistent, LevelsLive, OrdersQueued
<1>4. NoWorse(s, best, o.price_ray)
  BY <1>3 DEF IsBest
<1>5. ASSUME o.price_ray = best
      PROVE  mo.ticket <= o.ticket
  <2>1. PICK i \in 1..Len(old) : old[i] = id
    BY <1>3, <1>5
  <2>2. CASE i = 1
    <3>1. mo = o /\ mo.ticket \in Nat
      BY <1>2, <2>1, <2>2 DEF OrderRecord
    <3>2. QED
      BY <3>1
  <2>3. CASE i # 1
    <3>1. 1 \in 1..Len(old) /\ 1 < i
      BY <1>2, <2>1, <2>3
    <3>2. s \in Sides
      BY DEF Opposite, Sides
    <3>3. b.orders[old[1]].ticket < b.orders[old[i]].ticket
      BY <1>1, <2>1, <3>1, <3>2 DEF Sound, InTimeOrder
    <3>4. mo.ticket \in Nat /\ o.ticket \in Nat
      BY <1>2 DEF OrderRecord, Sound, IsBook, LevelsTyped, OrdersTyped
    <3>5. QED
      BY <1>2, <2>1, <3>3, <3>4
  <2>4. QED
    BY <2>2, <2>3
<1>6. QED
  BY <1>2, <1>4, <1>5

\* A fill is made at the front of the best level that the taker's limit admits.
LEMMA FillFacts ==
  ASSUME IInv, Next, NEW t \in Callers, Matches(t)
  PROVE  LET in == incoming[t]
             b == books[in.company_id]
         IN /\ pc[t] = "matching"
            /\ in.company_id \in Companies
            /\ \E best \in DOMAIN b.queues[Opposite(in.side)] :
                 /\ in \in OrderRecord /\ in.remaining > 0 /\ Sound(b)
                 /\ IsBest(b, Opposite(in.side), best)
                 /\ Crosses(in.side, in.price_ray, best)
                 /\ Last(fills'[t]) = FillOf(b, in, best)
                 /\ FrontOrder(b, in, best).order_id \in DOMAIN b.orders
                 /\ FrontOrder(b, in, best) = b.orders[FrontOrder(b, in, best).order_id]
                 /\ Maker(t) = FrontOrder(b, in, best)
<1> DEFINE in == incoming[t]
           b == books[in.company_id]
<1>1. fills \in [Callers -> Seq(Fill)] /\ Len(fills[t]) \in Nat
  BY DEF IInv, TypeOK, CallsTyped
<1>2. pc[t] = "matching" /\ Len(fills'[t]) = Len(fills[t]) + 1
  BY DEF Matches
<1>3. /\ fills'[t] # fills[t]
      /\ fills'[t] # <<>>
  BY <1>1, <1>2
<1>4. MatchStep(t)
  <2>1. \A u \in Callers : fills' = [fills EXCEPT ![u] = <<>>] => FALSE
    BY <1>1, <1>3
  <2>2. ~UNCHANGED fills
    BY <1>3
  <2>3. \A u \in Callers : MatchStep(u) => u = t
    <3>1. ASSUME NEW u \in Callers, MatchStep(u), u # t
          PROVE  fills'[t] = fills[t]
      BY <1>1, <3>1 DEF MatchStep
    <3>2. QED
      BY <1>3, <3>1
  <2>4. \A u \in Callers : ~Refuse(u) /\ ~Admit(u) /\ ~Acquire(u) /\ ~Return(u)
    BY <2>1, <2>2 DEF Refuse, Admit, Submit, Acquire, Return
  <2>5. \A u \in Callers : ~IngestChainOrder(u) /\ ~IngestCancel(u)
    BY <2>1 DEF IngestChainOrder, IngestCancel, CancelResting
  <2>6. ~PauseMatching /\ ~ResumeMatching
    BY <2>2 DEF PauseMatching, ResumeMatching
  <2>7. QED
    BY <2>3, <2>4, <2>5, <2>6 DEF Next, PlacementNext, Placement
<1>5. PICK best \in DOMAIN b.queues[Opposite(in.side)] :
        /\ IsBest(b, Opposite(in.side), best)
        /\ Crosses(in.side, in.price_ray, best)
        /\ fills' = [fills EXCEPT ![t] = Append(@, FillOf(b, in, best))]
  BY <1>4 DEF MatchStep
<1>6. in \in OrderRecord /\ in.company_id \in Companies /\ in.remaining > 0
  BY <1>2, <1>4, MatchingHolds DEF MatchStep
<1>7. Sound(b)
  BY <1>6 DEF IInv, SoundBooks
<1> DEFINE f == FillOf(b, in, best)
           mo == FrontOrder(b, in, best)
<1>8. f.maker_order_id = mo.order_id
  BY DEF FillOf
<1>9. mo.order_id \in DOMAIN b.orders /\ mo = b.orders[mo.order_id]
  BY <1>6, <1>7, FrontFacts
<1>10. f \in Fill
  BY <1>6, <1>7, FillType
<1> HIDE DEF f
<1>11. fills'[t] = Append(fills[t], f)
  BY <1>1, <1>5 DEF f
<1>12. Last(fills'[t]) = f
  BY <1>1, <1>10, <1>11 DEF Last
<1>13. Maker(t) = mo
  BY <1>8, <1>9, <1>12 DEF Maker
<1>14. QED
  BY <1>2, <1>5, <1>6, <1>7, <1>9, <1>12, <1>13 DEF f

\* Every fill goes to the best-priced, earliest resting order (matching.rs:1).
THEOREM PriceTimePriorityHolds == Spec => PriceTimePriority
<1> DEFINE Priority ==
      \A t \in Callers : Matches(t) =>
        LET b == books[incoming[t].company_id] IN
        \A id \in DOMAIN b.orders :
          LET o == b.orders[id] IN
          o.side = Opposite(incoming[t].side) =>
            /\ NoWorse(o.side, Maker(t).price_ray, o.price_ray)
            /\ o.price_ray = Maker(t).price_ray => Maker(t).ticket <= o.ticket
<1>1. IInv /\ [Next]_vars => [Priority]_vars
  <2> SUFFICES ASSUME IInv, Next, NEW t \in Callers, Matches(t),
                      NEW id \in DOMAIN books[incoming[t].company_id].orders,
                      books[incoming[t].company_id].orders[id].side
                        = Opposite(incoming[t].side)
               PROVE  LET o == books[incoming[t].company_id].orders[id] IN
                      /\ NoWorse(o.side, Maker(t).price_ray, o.price_ray)
                      /\ o.price_ray = Maker(t).price_ray
                           => Maker(t).ticket <= o.ticket
    OBVIOUS
  <2> DEFINE in == incoming[t]
             b == books[in.company_id]
  <2>1. PICK best \in DOMAIN b.queues[Opposite(in.side)] :
          /\ in \in OrderRecord /\ in.remaining > 0 /\ Sound(b)
          /\ IsBest(b, Opposite(in.side), best)
          /\ Maker(t) = FrontOrder(b, in, best)
    BY FillFacts
  <2>2. QED
    BY <2>1, FrontHasPriority
<1>2. QED
  BY <1>1, Inductive, PTL DEF Spec, PriceTimePriority, Priority

-----------------------------------------------------------------------------
LEMMA PlacementUncrossed == IInv /\ Uncrossed /\ [PlacementNext]_vars => Uncrossed'
<1> SUFFICES ASSUME IInv, Uncrossed, [PlacementNext]_vars
             PROVE  Uncrossed'
  OBVIOUS
<1>1. BooksTyped /\ SoundBooks /\ \A c \in Companies : UncrossedBook(books[c])
  BY DEF IInv, TypeOK, Uncrossed, UncrossedBook
<1>2. CASE UNCHANGED books
  BY <1>2 DEF Uncrossed
<1>3. ASSUME NEW c \in Companies, NEW n, UncrossedBook(n),
             books' = [books EXCEPT ![c] = n]
      PROVE  Uncrossed'
  <2>1. books'[c] = n /\ \A d \in Companies : d # c => books'[d] = books[d]
    BY <1>1, <1>3 DEF BooksTyped
  <2>2. QED
    BY <1>1, <1>3, <2>1 DEF Uncrossed, UncrossedBook
<1>4. ASSUME NEW t \in Callers, MatchStep(t)
      PROVE  Uncrossed'
  <2> DEFINE in == incoming[t]
             c == in.company_id
             b == books[c]
  <2>1. in \in OrderRecord /\ c \in Companies /\ in.remaining > 0
    BY <1>4, MatchingHolds DEF MatchStep
  <2>2. PICK best \in DOMAIN b.queues[Opposite(in.side)] :
          books' = [books EXCEPT ![c] = MatchFront(b, in, best)]
    BY <1>4 DEF MatchStep
  <2>3. UncrossedBook(MatchFront(b, in, best))
    BY <1>1, <2>1, MatchSound, ShrinkUncrossed DEF SoundBooks
  <2>4. QED
    BY <1>3, <2>1, <2>2, <2>3
<1>5. ASSUME NEW t \in Callers, Return(t)
      PROVE  Uncrossed'
  <2> DEFINE in == incoming[t]
             c == in.company_id
             b == books[c]
  <2>1. in \in OrderRecord /\ c \in Companies /\ ~CanTrade(b, in)
    BY <1>5, MatchingHolds DEF Return
  <2>2. CASE /\ in.remaining > 0
             /\ books' = [books EXCEPT ![c] = InsertLimitOrder(b, in)]
    <3>1. UncrossedBook(InsertLimitOrder(b, in))
      BY <1>1, <2>1, <2>2, InsertUncrossed DEF SoundBooks
    <3>2. QED
      BY <1>3, <2>1, <2>2, <3>1
  <2>3. QED
    BY <1>2, <1>5, <2>2 DEF Return
<1>6. ASSUME NEW t \in Callers, IngestCancel(t)
      PROVE  Uncrossed'
  <2>1. PICK c \in Companies, id \in OrderIds :
          \/ /\ id \in DOMAIN books[c].orders
             /\ books' = [books EXCEPT ![c] = CancelOrder(@, id)]
          \/ UNCHANGED books
    BY <1>6 DEF IngestCancel, CancelResting
  <2>2. CASE /\ id \in DOMAIN books[c].orders
             /\ books' = [books EXCEPT ![c] = CancelOrder(@, id)]
    <3>1. UncrossedBook(CancelOrder(books[c], id))
      BY <1>1, <2>2, CancelShrinks, ShrinkUncrossed DEF SoundBooks
    <3>2. QED
      BY <1>3, <2>2, <3>1
  <2>3. QED
    BY <1>2, <2>1, <2>2
<1>7. ASSUME NEW t \in Callers, Refuse(t) \/ Admit(t) \/ Acquire(t)
      PROVE  UNCHANGED books
  BY <1>7 DEF Refuse, Admit, Submit, Acquire
<1>8. CASE PauseMatching \/ ResumeMatching \/ UNCHANGED vars
  BY <1>2, <1>8 DEF PauseMatching, ResumeMatching, vars
<1>9. QED
  BY <1>2, <1>4, <1>5, <1>6, <1>7, <1>8 DEF PlacementNext, Placement

\* As long as every order comes through limit_order_placement, no bid on a book
\* meets an ask (matching.rs:104): matching runs until nothing crosses before
\* the remainder rests, whoever else calls the engine.
THEOREM NeverCrossed == PlacementSpec => []Uncrossed
<1>1. Init => IInv /\ Uncrossed
  BY InitIInv DEF Init, Uncrossed, EmptyBook, EmptyMap, Sides
<1>2. IInv /\ Uncrossed /\ [PlacementNext]_vars => IInv' /\ Uncrossed'
  BY NextIInv, PlacementUncrossed DEF Next
<1>3. QED
  BY <1>1, <1>2, PTL DEF PlacementSpec

-----------------------------------------------------------------------------
(***************************************************************************)
(* No quantity is created or lost.  The open part of an order is in one    *)
(* place: the ticket of a resting order is on no other book entry and with *)
(* no caller, and every ticket that is neither withdrawn nor matched in    *)
(* full is somewhere.                                                      *)
(***************************************************************************)

\* The books hold what is left of each order.
RestingAccounted ==
  \A c \in Companies : \A id \in DOMAIN books[c].orders :
    LET o == books[c].orders[id] IN
    o.ticket \notin gone /\ traded[o.ticket] + o.remaining = size[o.ticket]

\* So does a caller that matches.
TakersAccounted ==
  \A t \in Callers : pc[t] = "matching" =>
    /\ incoming[t].ticket \notin gone
    /\ traded[incoming[t].ticket] + incoming[t].remaining
         = size[incoming[t].ticket]

\* A ticket is in one place.
RestingOnce ==
  \A c, d \in Companies :
    \A i \in DOMAIN books[c].orders, j \in DOMAIN books[d].orders :
      books[c].orders[i].ticket = books[d].orders[j].ticket => c = d /\ i = j
RestingOrTaken ==
  \A c \in Companies : \A id \in DOMAIN books[c].orders :
    \A t \in Callers : pc[t] = "matching" =>
      books[c].orders[id].ticket # incoming[t].ticket
TakenOnce ==
  \A t, u \in Callers :
    /\ pc[t] = "matching" /\ pc[u] = "matching"
    /\ incoming[t].ticket = incoming[u].ticket
    => t = u

OnABook(k) ==
  \E c \in Companies : \E id \in DOMAIN books[c].orders :
    books[c].orders[id].ticket = k
WithACaller(k) == \E t \in Callers : pc[t] = "matching" /\ incoming[t].ticket = k

\* Nothing open is lost, and nothing is known of a ticket not yet given out.
NothingMissing ==
  \A k \in 1..arrivals :
    k \notin gone /\ traded[k] # size[k] => OnABook(k) \/ WithACaller(k)
NothingAhead ==
  /\ gone \subseteq 1..arrivals
  /\ \A k \in Tickets : k > arrivals => traded[k] = 0

Bounded == \A k \in 1..arrivals : traded[k] <= size[k]

\* Inductive together with IInv.
Accounted ==
  /\ RestingAccounted /\ TakersAccounted
  /\ RestingOnce /\ RestingOrTaken /\ TakenOnce
  /\ NothingMissing /\ NothingAhead /\ Bounded

LEMMA InitAccounted == Init => Accounted
<1> SUFFICES ASSUME Init
             PROVE  Accounted
  OBVIOUS
<1>1. \A c \in Companies : DOMAIN books[c].orders = {}
  BY DEF Init, EmptyBook, EmptyMap
<1>2. \A t \in Callers : pc[t] # "matching"
  BY DEF Init
<1>3. arrivals = 0 /\ gone = {} /\ traded = [k \in Tickets |-> 0]
  BY DEF Init
<1>4. RestingAccounted /\ TakersAccounted
  BY <1>1, <1>2 DEF RestingAccounted, TakersAccounted
<1>5. RestingOnce /\ RestingOrTaken /\ TakenOnce
  BY <1>1, <1>2 DEF RestingOnce, RestingOrTaken, TakenOnce
<1>6. NothingMissing /\ NothingAhead /\ Bounded
  BY <1>3 DEF NothingMissing, NothingAhead, Bounded
<1>7. QED
  BY <1>4, <1>5, <1>6 DEF Accounted

\* Steps that move no order: the books, the history and the callers that match
\* are as before.
LEMMA NothingMoves ==
  ASSUME Accounted,
         UNCHANGED <<books, arrivals, size, traded, gone>>,
         \A u \in Callers :
           /\ pc'[u] = "matching" <=> pc[u] = "matching"
           /\ pc[u] = "matching" => incoming'[u] = incoming[u]
  PROVE  Accounted'
<1>1. RestingAccounted' /\ RestingOnce' /\ NothingAhead' /\ Bounded'
  BY DEF Accounted, RestingAccounted, RestingOnce, NothingAhead, Bounded
<1>2. TakersAccounted' /\ RestingOrTaken' /\ TakenOnce'
  BY DEF Accounted, TakersAccounted, RestingOrTaken, TakenOnce
<1>3. NothingMissing'
  BY DEF Accounted, NothingMissing, OnABook, WithACaller
<1>4. QED
  BY <1>1, <1>2, <1>3 DEF Accounted

\* A placement that takes the mutex opens one more order, with the caller.
LEMMA AcquireAccounted ==
  ASSUME IInv, Accounted, NEW t \in Callers, Acquire(t)
  PROVE  Accounted'
<1> DEFINE k == arrivals + 1
<1>1. /\ pc[t] = "admitted" /\ arrivals < MaxArrivals
      /\ pc' = [pc EXCEPT ![t] = "matching"]
      /\ arrivals' = k
      /\ incoming' = [incoming EXCEPT ![t].ticket = k]
      /\ size' = [size EXCEPT ![k] = incoming[t].remaining]
      /\ UNCHANGED <<books, traded, gone>>
  BY DEF Acquire
<1>2. /\ CallsTyped /\ HistoryTyped /\ TicketsGiven /\ TakerIsLatest
      /\ RestingAccounted /\ TakersAccounted /\ RestingOnce /\ RestingOrTaken
      /\ TakenOnce /\ NothingMissing /\ NothingAhead /\ Bounded
  BY DEF IInv, TypeOK, Accounted
<1>3. /\ arrivals \in Nat /\ k \in Tickets /\ k \in Nat /\ k > arrivals
      /\ incoming[t] \in OrderRecord /\ incoming[t].remaining \in Nat
  BY <1>1, <1>2, BoundAssumption DEF CallsTyped, HistoryTyped, Tickets, OrderRecord
<1>4. /\ incoming'[t].ticket = k
      /\ incoming'[t].remaining = incoming[t].remaining
      /\ \A u \in Callers : u # t => incoming'[u] = incoming[u]
  BY <1>1, <1>2, <1>3 DEF CallsTyped, OrderRecord
<1>5. /\ pc'[t] = "matching" /\ pc[t] # "matching"
      /\ \A u \in Callers : u # t => pc'[u] = pc[u]
  BY <1>1, <1>2 DEF CallsTyped
<1>6. /\ size'[k] = incoming[t].remaining
      /\ \A j \in 1..arrivals : size'[j] = size[j]
      /\ k \notin gone /\ traded[k] = 0 /\ k \notin 1..arrivals
      /\ \A j \in 1..arrivals' : j = k \/ j \in 1..arrivals
  BY <1>1, <1>2, <1>3, BoundAssumption DEF HistoryTyped, NothingAhead, Tickets
<1>7. /\ \A c \in Companies : \A id \in DOMAIN books[c].orders :
            books[c].orders[id].ticket \in 1..arrivals
      /\ \A u \in Callers : pc[u] = "matching" => incoming[u].ticket \in 1..arrivals
  BY <1>2 DEF TicketsGiven, TakerIsLatest
<1> HIDE DEF k
<1>8. RestingAccounted'
  BY <1>1, <1>2, <1>6, <1>7 DEF RestingAccounted
<1>9. TakersAccounted'
  <2>1. ASSUME NEW u \in Callers, pc'[u] = "matching"
        PROVE  /\ incoming'[u].ticket \notin gone'
               /\ traded'[incoming'[u].ticket] + incoming'[u].remaining
                    = size'[incoming'[u].ticket]
    <3>1. CASE u = t
      BY <1>1, <1>3, <1>4, <1>6, <3>1
    <3>2. CASE u # t
      BY <1>1, <1>2, <1>4, <1>5, <1>6, <1>7, <2>1, <3>2 DEF TakersAccounted
    <3>3. QED
      BY <3>1, <3>2
  <2>2. QED
    BY <2>1 DEF TakersAccounted
<1>10. RestingOnce'
  BY <1>1, <1>2 DEF RestingOnce
<1>11. RestingOrTaken'
  <2>1. ASSUME NEW c \in Companies, NEW id \in DOMAIN books[c].orders,
               NEW u \in Callers, pc'[u] = "matching"
        PROVE  books[c].orders[id].ticket # incoming'[u].ticket
    BY <1>2, <1>4, <1>5, <1>6, <1>7, <2>1 DEF RestingOrTaken
  <2>2. QED
    BY <1>1, <2>1 DEF RestingOrTaken
<1>12. TakenOnce'
  <2>1. ASSUME NEW u \in Callers, NEW v \in Callers,
               pc'[u] = "matching", pc'[v] = "matching",
               incoming'[u].ticket = incoming'[v].ticket
        PROVE  u = v
    BY <1>2, <1>4, <1>5, <1>6, <1>7, <2>1 DEF TakenOnce
  <2>2. QED
    BY <2>1 DEF TakenOnce
<1>13. NothingMissing'
  <2>1. ASSUME NEW j \in 1..arrivals', j \notin gone', traded'[j] # size'[j]
        PROVE  OnABook(j)' \/ WithACaller(j)'
    <3>1. CASE j = k
      BY <1>4, <1>5, <3>1 DEF WithACaller
    <3>2. CASE j \in 1..arrivals
      <4>1. OnABook(j) \/ WithACaller(j)
        BY <1>1, <1>2, <1>6, <2>1, <3>2 DEF NothingMissing
      <4>2. OnABook(j) => OnABook(j)'
        BY <1>1 DEF OnABook
      <4>3. WithACaller(j) => WithACaller(j)'
        BY <1>4, <1>5 DEF WithACaller
      <4>4. QED
        BY <4>1, <4>2, <4>3
    <3>3. QED
      BY <1>6, <2>1, <3>1, <3>2
  <2>2. QED
    BY <2>1 DEF NothingMissing
<1>14. NothingAhead'
  BY <1>1, <1>2, <1>3 DEF NothingAhead, k, Tickets
<1>15. Bounded'
  <2>1. ASSUME NEW j \in 1..arrivals'
        PROVE  traded'[j] <= size'[j]
    BY <1>1, <1>2, <1>3, <1>6, <2>1 DEF Bounded
  <2>2. QED
    BY <2>1 DEF Bounded
<1>16. QED
  BY <1>8, <1>9, <1>10, <1>11, <1>12, <1>13, <1>14, <1>15 DEF Accounted

\* What one turn of the loop does to the orders of the book.
LEMMA MatchOrders ==
  ASSUME NEW b, Sound(b), NEW in \in OrderRecord, in.remaining > 0,
         NEW best \in DOMAIN b.queues[Opposite(in.side)]
  PROVE  LET mo == FrontOrder(b, in, best)
             left == mo.remaining - TradeQty(b, in, best)
             n == MatchFront(b, in, best)
         IN /\ DOMAIN n.orders =
                 IF left = 0 THEN DOMAIN b.orders \ {mo.order_id} ELSE DOMAIN b.orders
            /\ \A id \in DOMAIN n.orders :
                 n.orders[id] = IF id = mo.order_id THEN [mo EXCEPT !.remaining = left]
                                                    ELSE b.orders[id]
<1> DEFINE mo == FrontOrder(b, in, best)
           left == mo.remaining - TradeQty(b, in, best)
           n == MatchFront(b, in, best)
<1>1. mo.order_id \in DOMAIN b.orders
  BY FrontFacts
<1>2. n.orders = IF left = 0 THEN Drop(b.orders, mo.order_id)
                 ELSE Put(b.orders, mo.order_id, [mo EXCEPT !.remaining = left])
  BY DEF MatchFront
<1> HIDE DEF n, left, mo
<1>3. CASE left = 0
  BY <1>2, <1>3 DEF Drop, n, left, mo
<1>4. CASE left # 0
  <2>1. DOMAIN n.orders = DOMAIN b.orders
    BY <1>1, <1>2, <1>4 DEF Put
  <2>2. \A id \in DOMAIN n.orders :
          n.orders[id] = IF id = mo.order_id THEN [mo EXCEPT !.remaining = left]
                                             ELSE b.orders[id]
    BY <1>2, <1>4, <2>1 DEF Put
  <2>3. QED
    BY <1>4, <2>1, <2>2 DEF n, left, mo
<1>5. QED
  BY <1>3, <1>4

\* A fill takes as much from the resting order as from the order being matched.
LEMMA MatchAccounted ==
  ASSUME IInv, Accounted, NEW t \in Callers, MatchStep(t)
  PROVE  Accounted'
<1> DEFINE in == incoming[t]
           c == in.company_id
           b == books[c]
<1>1. /\ pc[t] = "matching" /\ in.remaining > 0
      /\ UNCHANGED <<pc, arrivals, size, gone>>
  BY DEF MatchStep
<1>2. PICK best \in DOMAIN b.queues[Opposite(in.side)] :
        /\ books' = [books EXCEPT ![c] = MatchFront(b, in, best)]
        /\ incoming' = [incoming EXCEPT ![t].remaining = @ - TradeQty(b, in, best)]
        /\ traded' = [traded EXCEPT
                        ![FrontOrder(b, in, best).ticket] = @ + TradeQty(b, in, best),
                        ![in.ticket] = @ + TradeQty(b, in, best)]
  BY DEF MatchStep
<1>3. /\ in \in OrderRecord /\ c \in Companies /\ in.remaining \in Nat
      /\ in.ticket \in 1..arrivals /\ in.ticket \in Tickets
  BY <1>1, MatchingHolds
<1>4. /\ BooksTyped /\ SoundBooks /\ CallsTyped /\ HistoryTyped
      /\ TicketsGiven /\ TakerIsLatest
      /\ RestingAccounted /\ TakersAccounted /\ RestingOnce /\ RestingOrTaken
      /\ TakenOnce /\ NothingMissing /\ NothingAhead /\ Bounded
  BY DEF IInv, TypeOK, Accounted
<1>5. Sound(b)
  BY <1>3, <1>4 DEF SoundBooks
<1> DEFINE n == MatchFront(b, in, best)
           qty == TradeQty(b, in, best)
           mo == FrontOrder(b, in, best)
           front == mo.order_id
           left == mo.remaining - qty
<1>6. /\ front \in DOMAIN b.orders /\ mo = b.orders[front]
      /\ mo \in OrderRecord
      /\ qty \in Nat \ {0} /\ qty <= in.remaining /\ qty <= mo.remaining
  BY <1>1, <1>3, <1>5, FrontFacts
<1>7. /\ DOMAIN n.orders = IF left = 0 THEN DOMAIN b.orders \ {front} ELSE DOMAIN b.orders
      /\ \A id \in DOMAIN n.orders :
           n.orders[id] = IF id = front THEN [mo EXCEPT !.remaining = left]
                                        ELSE b.orders[id]
  BY <1>1, <1>3, <1>5, MatchOrders
<1>8. /\ books'[c] = n
      /\ \A d \in Companies : d # c => books'[d] = books[d]
  BY <1>2, <1>3, <1>4 DEF BooksTyped
<1>9. /\ incoming'[t] = [in EXCEPT !.remaining = in.remaining - qty]
      /\ \A u \in Callers : u # t => incoming'[u] = incoming[u]
  BY <1>2, <1>4 DEF CallsTyped
<1>10. traded' = [traded EXCEPT ![mo.ticket] = @ + qty, ![in.ticket] = @ + qty]
  BY <1>2
<1> HIDE DEF n, qty, mo
<1>11. /\ incoming'[t].ticket = in.ticket
       /\ incoming'[t].remaining = in.remaining - qty
  BY <1>3, <1>9 DEF OrderRecord
<1>12. /\ mo.ticket \in 1..arrivals /\ mo.ticket \in Tickets
       /\ mo.ticket # in.ticket /\ mo.remaining \in Nat
  <2>1. mo.ticket \in 1..arrivals
    BY <1>3, <1>4, <1>6 DEF TicketsGiven
  <2>2. mo.ticket # in.ticket
    BY <1>1, <1>3, <1>4, <1>6 DEF RestingOrTaken
  <2>3. QED
    BY <1>4, <1>6, <2>1, <2>2, BoundAssumption DEF HistoryTyped, Tickets, OrderRecord
<1>13. /\ traded'[mo.ticket] = traded[mo.ticket] + qty
       /\ traded'[in.ticket] = traded[in.ticket] + qty
       /\ \A k \in Tickets : k # mo.ticket /\ k # in.ticket => traded'[k] = traded[k]
       /\ \A k \in 1..arrivals : k \in Tickets
  <2>1. traded \in [Tickets -> Nat] /\ arrivals \in 0..MaxArrivals
    BY <1>4 DEF HistoryTyped
  <2>2. \A k \in 1..arrivals : k \in Tickets
    BY <2>1, BoundAssumption DEF Tickets
  <2>3. QED
    BY <1>3, <1>10, <1>12, <2>1, <2>2
<1>14. /\ in.ticket \notin gone /\ traded[in.ticket] + in.remaining = size[in.ticket]
       /\ mo.ticket \notin gone /\ traded[mo.ticket] + mo.remaining = size[mo.ticket]
  BY <1>1, <1>3, <1>4, <1>6 DEF TakersAccounted, RestingAccounted
<1> HIDE DEF front, left, in, c, b
\* The other resting orders are as before, the front one is smaller or gone.
<1>15. ASSUME NEW d \in Companies, NEW id \in DOMAIN books'[d].orders
       PROVE  /\ id \in DOMAIN books[d].orders
              /\ books'[d].orders[id].ticket = books[d].orders[id].ticket
              /\ \/ /\ d = c /\ id = front /\ left # 0
                    /\ books'[d].orders[id].ticket = mo.ticket
                    /\ books'[d].orders[id].remaining = left
                 \/ /\ books'[d].orders[id] = books[d].orders[id]
                    /\ books[d].orders[id].ticket \in 1..arrivals
                    /\ books[d].orders[id].ticket # mo.ticket
                    /\ books[d].orders[id].ticket # in.ticket
  <2>1. CASE d = c /\ id = front
    <3>1. books'[d].orders[id] = [mo EXCEPT !.remaining = left] /\ left # 0
      BY <1>7, <1>8, <2>1
    <3>2. /\ books'[d].orders[id].ticket = mo.ticket
          /\ books'[d].orders[id].remaining = left
      BY <1>6, <3>1 DEF OrderRecord
    <3>3. QED
      BY <1>6, <2>1, <3>1, <3>2 DEF b
  <2>2. CASE ~(d = c /\ id = front)
    <3>1. id \in DOMAIN books[d].orders /\ books'[d].orders[id] = books[d].orders[id]
      BY <1>7, <1>8, <2>2 DEF b
    <3>2. books[d].orders[id].ticket # mo.ticket
      BY <1>3, <1>4, <1>6, <2>2, <3>1 DEF RestingOnce, b
    <3>3. books[d].orders[id].ticket # in.ticket
      BY <1>1, <1>4, <3>1 DEF RestingOrTaken, in
    <3>4. books[d].orders[id].ticket \in 1..arrivals
      BY <1>4, <3>1 DEF TicketsGiven
    <3>5. QED
      BY <3>1, <3>2, <3>3, <3>4
  <2>3. QED
    BY <2>1, <2>2
<1>16. RestingAccounted'
  <2>1. ASSUME NEW d \in Companies, NEW id \in DOMAIN books'[d].orders
        PROVE  /\ books'[d].orders[id].ticket \notin gone
               /\ traded'[books'[d].orders[id].ticket] + books'[d].orders[id].remaining
                    = size[books'[d].orders[id].ticket]
    <3>1. CASE d = c /\ id = front /\ books'[d].orders[id].ticket = mo.ticket
               /\ books'[d].orders[id].remaining = left
      <4>1. traded[mo.ticket] \in Nat /\ qty \in Nat
        BY <1>4, <1>6, <1>12 DEF HistoryTyped
      <4>2. QED
        BY <1>12, <1>13, <1>14, <3>1, <4>1 DEF left
    <3>2. CASE /\ books'[d].orders[id] = books[d].orders[id]
               /\ books[d].orders[id].ticket \in 1..arrivals
               /\ books[d].orders[id].ticket # mo.ticket
               /\ books[d].orders[id].ticket # in.ticket
      BY <1>4, <1>13, <1>15, <3>2 DEF RestingAccounted
    <3>3. QED
      BY <1>15, <3>1, <3>2
  <2>2. QED
    BY <1>1, <2>1 DEF RestingAccounted
<1>17. TakersAccounted'
  <2>1. ASSUME NEW u \in Callers, pc[u] = "matching"
        PROVE  /\ incoming'[u].ticket \notin gone
               /\ traded'[incoming'[u].ticket] + incoming'[u].remaining
                    = size[incoming'[u].ticket]
    <3>1. CASE u = t
      <4>1. traded[in.ticket] \in Nat /\ qty \in Nat
        BY <1>3, <1>4, <1>6 DEF HistoryTyped
      <4>2. QED
        BY <1>3, <1>11, <1>13, <1>14, <3>1, <4>1
    <3>2. CASE u # t
      <4>1. incoming[u].ticket # in.ticket
        BY <1>1, <1>4, <2>1, <3>2 DEF TakenOnce, in
      <4>2. incoming[u].ticket # mo.ticket
        BY <1>3, <1>4, <1>6, <2>1 DEF RestingOrTaken, b
      <4>3. incoming[u].ticket \in Tickets
        BY <1>4, <1>13, <2>1 DEF TakerIsLatest
      <4>4. QED
        BY <1>4, <1>9, <1>13, <2>1, <3>2, <4>1, <4>2, <4>3 DEF TakersAccounted
    <3>3. QED
      BY <3>1, <3>2
  <2>2. QED
    BY <1>1, <2>1 DEF TakersAccounted
<1>18. RestingOnce'
  BY <1>4, <1>15 DEF RestingOnce
<1>19. \A u \in Callers : incoming'[u].ticket = incoming[u].ticket
  BY <1>9, <1>11 DEF in
<1>20. RestingOrTaken' /\ TakenOnce'
  BY <1>1, <1>4, <1>15, <1>19 DEF RestingOrTaken, TakenOnce
<1>21. NothingMissing'
  <2>1. ASSUME NEW k \in 1..arrivals, k \notin gone, traded'[k] # size[k]
        PROVE  OnABook(k)' \/ WithACaller(k)'
    <3>1. CASE k = in.ticket
      BY <1>1, <1>11, <3>1 DEF WithACaller
    <3>2. CASE k = mo.ticket
      <4>1. traded[mo.ticket] \in Nat /\ qty \in Nat
        BY <1>4, <1>6, <1>12 DEF HistoryTyped
      <4>2. left # 0
        BY <1>12, <1>13, <1>14, <2>1, <3>2, <4>1 DEF left
      <4>3. front \in DOMAIN books'[c].orders
        BY <1>6, <1>7, <1>8, <4>2
      <4>4. books'[c].orders[front].ticket = k
        BY <1>3, <1>6, <1>15, <3>2, <4>3 DEF b
      <4>5. QED
        BY <1>3, <4>3, <4>4 DEF OnABook
    <3>3. CASE k # in.ticket /\ k # mo.ticket
      <4>1. OnABook(k) \/ WithACaller(k)
        BY <1>4, <1>13, <2>1, <3>3 DEF NothingMissing
      <4>2. ASSUME OnABook(k) PROVE OnABook(k)'
        <5>1. PICK d \in Companies : \E id \in DOMAIN books[d].orders :
                books[d].orders[id].ticket = k
          BY <4>2 DEF OnABook
        <5>2. PICK id \in DOMAIN books[d].orders : books[d].orders[id].ticket = k
          BY <5>1
        <5>3. ~(d = c /\ id = front)
          BY <1>6, <3>3, <5>2 DEF b
        <5>4. id \in DOMAIN books'[d].orders
          BY <1>7, <1>8, <5>2, <5>3 DEF b
        <5>5. books'[d].orders[id].ticket = k
          BY <1>15, <5>2, <5>4
        <5>6. QED
          BY <5>4, <5>5 DEF OnABook
      <4>3. WithACaller(k) => WithACaller(k)'
        BY <1>1, <1>19 DEF WithACaller
      <4>4. QED
        BY <4>1, <4>2, <4>3
    <3>4. QED
      BY <3>1, <3>2, <3>3
  <2>2. QED
    BY <1>1, <2>1 DEF NothingMissing
<1>22. NothingAhead'
  BY <1>1, <1>3, <1>4, <1>12, <1>13 DEF NothingAhead, HistoryTyped
<1>23. Bounded'
  <2>1. ASSUME NEW k \in 1..arrivals
        PROVE  traded'[k] <= size[k]
    <3>1. /\ traded[in.ticket] \in Nat /\ traded[mo.ticket] \in Nat
          /\ qty \in Nat
      BY <1>3, <1>4, <1>6, <1>12 DEF HistoryTyped
    <3>2. CASE k = in.ticket
      BY <1>3, <1>6, <1>13, <1>14, <3>1, <3>2
    <3>3. CASE k = mo.ticket
      BY <1>6, <1>12, <1>13, <1>14, <3>1, <3>3
    <3>4. CASE k # in.ticket /\ k # mo.ticket
      BY <1>4, <1>13, <3>4 DEF Bounded
    <3>5. QED
      BY <3>2, <3>3, <3>4
  <2>2. QED
    BY <1>1, <2>1 DEF Bounded
<1>24. QED
  BY <1>16, <1>17, <1>18, <1>20, <1>21, <1>22, <1>23 DEF Accounted

\* The remainder of a placement rests, or there is none, or it is withdrawn.
LEMMA ReturnAccounted ==
  ASSUME IInv, Accounted, NEW t \in Callers, Return(t)
  PROVE  Accounted'
<1> DEFINE in == incoming[t]
           c == in.company_id
           b == books[c]
<1>1. /\ pc[t] = "matching"
      /\ pc' = [pc EXCEPT ![t] = "idle"]
      /\ incoming' = [incoming EXCEPT ![t] = EmptyMap]
      /\ UNCHANGED <<arrivals, size, traded>>
  BY DEF Return
<1>2. \/ /\ in.remaining = 0
         /\ UNCHANGED <<books, gone>>
      \/ /\ CanInsert(b, in)
         /\ books' = [books EXCEPT ![c] = InsertLimitOrder(b, in)]
         /\ UNCHANGED gone
      \/ /\ gone' = gone \cup {in.ticket}
         /\ UNCHANGED books
  BY DEF Return
<1>3. /\ in \in OrderRecord /\ c \in Companies
      /\ in.ticket \in 1..arrivals /\ in.ticket \in Tickets
  BY <1>1, MatchingHolds
<1>4. /\ BooksTyped /\ CallsTyped /\ HistoryTyped
      /\ TicketsGiven /\ TakerIsLatest
      /\ RestingAccounted /\ TakersAccounted /\ RestingOnce /\ RestingOrTaken
      /\ TakenOnce /\ NothingMissing /\ NothingAhead /\ Bounded
  BY DEF IInv, TypeOK, Accounted
<1>5. /\ in.ticket \notin gone
      /\ traded[in.ticket] + in.remaining = size[in.ticket]
  BY <1>1, <1>4 DEF TakersAccounted
<1>6. ASSUME NEW u \in Callers, pc'[u] = "matching"
      PROVE  /\ u # t /\ pc[u] = "matching" /\ incoming'[u] = incoming[u]
             /\ incoming[u].ticket # in.ticket
  <2>1. u # t /\ pc[u] = "matching" /\ incoming'[u] = incoming[u]
    BY <1>1, <1>4, <1>6 DEF CallsTyped
  <2>2. QED
    BY <1>1, <1>4, <2>1 DEF TakenOnce
<1>7. ASSUME NEW u \in Callers, u # t, pc[u] = "matching"
      PROVE  pc'[u] = "matching" /\ incoming'[u] = incoming[u]
  BY <1>1, <1>4, <1>7 DEF CallsTyped
\* What the books hold afterwards.
<1>8. ASSUME NEW d \in Companies, NEW id \in DOMAIN books'[d].orders
      PROVE  \/ /\ id \in DOMAIN books[d].orders
                /\ books'[d].orders[id] = books[d].orders[id]
             \/ /\ d = c /\ id = in.order_id
                /\ books'[d].orders[id] = in
                /\ UNCHANGED gone
  <2>1. CASE UNCHANGED books
    BY <2>1
  <2>2. CASE /\ CanInsert(b, in)
             /\ books' = [books EXCEPT ![c] = InsertLimitOrder(b, in)]
             /\ UNCHANGED gone
    <3> DEFINE n == InsertLimitOrder(b, in)
    <3>1. /\ DOMAIN n.orders = DOMAIN b.orders \cup {in.order_id}
          /\ n.orders[in.order_id] = in
          /\ \A i \in DOMAIN b.orders : n.orders[i] = b.orders[i]
      BY <2>2, InsertTickets
    <3> HIDE DEF n
    <3>2. books'[c] = n /\ \A e \in Companies : e # c => books'[e] = books[e]
      BY <1>3, <1>4, <2>2 DEF BooksTyped, n
    <3>3. QED
      BY <2>2, <3>1, <3>2
  <2>3. QED
    BY <1>2, <2>1, <2>2
<1>9. ASSUME NEW d \in Companies, NEW id \in DOMAIN books[d].orders
      PROVE  /\ id \in DOMAIN books'[d].orders
             /\ books'[d].orders[id] = books[d].orders[id]
             /\ books[d].orders[id].ticket # in.ticket
  <2>1. books[d].orders[id].ticket # in.ticket
    BY <1>1, <1>4 DEF RestingOrTaken
  <2>2. CASE UNCHANGED books
    BY <2>1, <2>2
  <2>3. CASE /\ CanInsert(b, in)
             /\ books' = [books EXCEPT ![c] = InsertLimitOrder(b, in)]
    <3> DEFINE n == InsertLimitOrder(b, in)
    <3>1. /\ DOMAIN n.orders = DOMAIN b.orders \cup {in.order_id}
          /\ \A i \in DOMAIN b.orders : n.orders[i] = b.orders[i]
      BY <2>3, InsertTickets
    <3> HIDE DEF n
    <3>2. books'[c] = n /\ \A e \in Companies : e # c => books'[e] = books[e]
      BY <1>3, <1>4, <2>3 DEF BooksTyped, n
    <3>3. QED
      BY <2>1, <3>1, <3>2
  <2>4. QED
    BY <1>2, <2>2, <2>3
<1>10. \A k : k \notin gone /\ k # in.ticket => k \notin gone'
  BY <1>2
<1>11. \/ \E d \in Companies : \E id \in DOMAIN books'[d].orders :
            books'[d].orders[id].ticket = in.ticket
       \/ in.ticket \in gone'
       \/ traded[in.ticket] = size[in.ticket]
  <2>1. CASE in.remaining = 0
    BY <1>3, <1>4, <1>5, <2>1 DEF HistoryTyped
  <2>2. CASE /\ CanInsert(b, in)
             /\ books' = [books EXCEPT ![c] = InsertLimitOrder(b, in)]
    <3> DEFINE n == InsertLimitOrder(b, in)
    <3>1. in.order_id \in DOMAIN n.orders /\ n.orders[in.order_id] = in
      BY <2>2, InsertTickets
    <3> HIDE DEF n
    <3>2. books'[c] = n
      BY <1>3, <1>4, <2>2 DEF BooksTyped, n
    <3>3. QED
      BY <1>3, <3>1, <3>2
  <2>3. QED
    BY <1>2, <2>1, <2>2
<1> HIDE DEF in, c, b
<1>12. RestingAccounted'
  <2>1. ASSUME NEW d \in Companies, NEW id \in DOMAIN books'[d].orders
        PROVE  /\ books'[d].orders[id].ticket \notin gone'
               /\ traded[books'[d].orders[id].ticket] + books'[d].orders[id].remaining
                    = size[books'[d].orders[id].ticket]
    <3>1. CASE /\ id \in DOMAIN books[d].orders
               /\ books'[d].orders[id] = books[d].orders[id]
      BY <1>4, <1>9, <1>10, <3>1 DEF RestingAccounted
    <3>2. CASE books'[d].orders[id] = in /\ UNCHANGED gone
      BY <1>5, <3>2
    <3>3. QED
      BY <1>8, <3>1, <3>2
  <2>2. QED
    BY <1>1, <2>1 DEF RestingAccounted
<1>13. TakersAccounted' /\ TakenOnce'
  BY <1>1, <1>4, <1>6, <1>10 DEF TakersAccounted, TakenOnce
<1>14. RestingOnce'
  <2>1. ASSUME NEW d \in Companies, NEW e \in Companies,
               NEW i \in DOMAIN books'[d].orders, NEW j \in DOMAIN books'[e].orders,
               books'[d].orders[i].ticket = books'[e].orders[j].ticket
        PROVE  d = e /\ i = j
    <3>1. CASE i \in DOMAIN books[d].orders /\ j \in DOMAIN books[e].orders
      BY <1>4, <1>9, <2>1, <3>1 DEF RestingOnce
    <3>2. CASE i \notin DOMAIN books[d].orders
      BY <1>8, <1>9, <2>1, <3>2
    <3>3. CASE j \notin DOMAIN books[e].orders
      BY <1>8, <1>9, <2>1, <3>3
    <3>4. QED
      BY <3>1, <3>2, <3>3
  <2>2. QED
    BY <2>1 DEF RestingOnce
<1>15. RestingOrTaken'
  <2>1. ASSUME NEW d \in Companies, NEW id \in DOMAIN books'[d].orders,
               NEW u \in Callers, pc'[u] = "matching"
        PROVE  books'[d].orders[id].ticket # incoming'[u].ticket
    <3>1. CASE /\ id \in DOMAIN books[d].orders
               /\ books'[d].orders[id] = books[d].orders[id]
      BY <1>4, <1>6, <2>1, <3>1 DEF RestingOrTaken
    <3>2. CASE books'[d].orders[id] = in
      BY <1>6, <2>1, <3>2
    <3>3. QED
      BY <1>8, <3>1, <3>2
  <2>2. QED
    BY <2>1 DEF RestingOrTaken
<1>16. NothingMissing'
  <2>1. ASSUME NEW k \in 1..arrivals, k \notin gone', traded[k] # size[k]
        PROVE  OnABook(k)' \/ WithACaller(k)'
    <3>1. CASE k = in.ticket
      BY <1>11, <2>1, <3>1 DEF OnABook
    <3>2. CASE k # in.ticket
      <4>1. k \notin gone
        BY <1>2, <2>1
      <4>2. OnABook(k) \/ WithACaller(k)
        BY <1>4, <2>1, <4>1 DEF NothingMissing
      <4>3. OnABook(k) => OnABook(k)'
        BY <1>9 DEF OnABook
      <4>4. WithACaller(k) => WithACaller(k)'
        BY <1>7, <3>2 DEF WithACaller, in
      <4>5. QED
        BY <4>2, <4>3, <4>4
    <3>3. QED
      BY <3>1, <3>2
  <2>2. QED
    BY <1>1, <2>1 DEF NothingMissing
<1>17. NothingAhead' /\ Bounded'
  <2>1. gone' \subseteq 1..arrivals
    BY <1>2, <1>3, <1>4 DEF NothingAhead
  <2>2. QED
    BY <1>1, <1>4, <2>1 DEF NothingAhead, Bounded
<1>18. QED
  BY <1>12, <1>13, <1>14, <1>15, <1>16, <1>17 DEF Accounted

\* An order from the chain is one more open order, or a withdrawn one.
LEMMA IngestAccounted ==
  ASSUME IInv, Accounted, NEW t \in Callers, IngestChainOrder(t)
  PROVE  Accounted'
<1>1. PICK r \in Requests :
        /\ arrivals < MaxArrivals
        /\ arrivals' = arrivals + 1
        /\ size' = [size EXCEPT ![arrivals'] = r.remaining]
        /\ \/ /\ CanInsert(books[r.company_id], WithTicket(r, arrivals + 1))
              /\ books' = [books EXCEPT ![r.company_id] =
                             InsertLimitOrder(@, WithTicket(r, arrivals + 1))]
              /\ UNCHANGED gone
           \/ /\ gone' = gone \cup {arrivals'}
              /\ UNCHANGED books
        /\ UNCHANGED <<pc, incoming, traded>>
  BY DEF IngestChainOrder
<1> DEFINE c == r.company_id
           k == arrivals + 1
           o == WithTicket(r, k)
<1>2. /\ BooksTyped /\ CallsTyped /\ HistoryTyped /\ TicketsGiven /\ TakerIsLatest
      /\ RestingAccounted /\ TakersAccounted /\ RestingOnce /\ RestingOrTaken
      /\ TakenOnce /\ NothingMissing /\ NothingAhead /\ Bounded
  BY DEF IInv, TypeOK, Accounted
<1>3. /\ arrivals \in Nat /\ k \in Tickets /\ k \in Nat /\ k > arrivals
      /\ k \notin 1..arrivals
  BY <1>1, <1>2, BoundAssumption DEF HistoryTyped, Tickets
<1>4. /\ o.ticket = k /\ o.remaining = r.remaining
      /\ c \in Companies /\ r.remaining \in Nat
  BY <1>3, WithTicketType
<1>5. /\ size'[k] = r.remaining
      /\ \A j \in 1..arrivals : size'[j] = size[j]
      /\ k \notin gone /\ traded[k] = 0
      /\ \A j \in 1..arrivals' : j = k \/ j \in 1..arrivals
  BY <1>1, <1>2, <1>3, BoundAssumption DEF HistoryTyped, NothingAhead, Tickets
<1>6. /\ \A d \in Companies : \A id \in DOMAIN books[d].orders :
            books[d].orders[id].ticket \in 1..arrivals
      /\ \A u \in Callers : pc[u] = "matching" => incoming[u].ticket \in 1..arrivals
  BY <1>2 DEF TicketsGiven, TakerIsLatest
<1>7. \/ /\ CanInsert(books[c], o)
         /\ books' = [books EXCEPT ![c] = InsertLimitOrder(books[c], o)]
         /\ UNCHANGED gone
      \/ gone' = gone \cup {k} /\ UNCHANGED books
  BY <1>1
<1> HIDE DEF o, c
<1>8. ASSUME NEW d \in Companies, NEW id \in DOMAIN books'[d].orders
      PROVE  \/ /\ id \in DOMAIN books[d].orders
                /\ books'[d].orders[id] = books[d].orders[id]
             \/ /\ d = c /\ id = o.order_id
                /\ books'[d].orders[id] = o
                /\ UNCHANGED gone
  <2>1. CASE UNCHANGED books
    BY <2>1
  <2>2. CASE /\ CanInsert(books[c], o)
             /\ books' = [books EXCEPT ![c] = InsertLimitOrder(books[c], o)]
             /\ UNCHANGED gone
    <3> DEFINE n == InsertLimitOrder(books[c], o)
    <3>1. /\ DOMAIN n.orders = DOMAIN books[c].orders \cup {o.order_id}
          /\ n.orders[o.order_id] = o
          /\ \A i \in DOMAIN books[c].orders : n.orders[i] = books[c].orders[i]
      BY <2>2, InsertTickets
    <3> HIDE DEF n
    <3>2. books'[c] = n /\ \A e \in Companies : e # c => books'[e] = books[e]
      BY <1>2, <1>4, <2>2 DEF BooksTyped, n
    <3>3. QED
      BY <2>2, <3>1, <3>2
  <2>3. QED
    BY <1>7, <2>1, <2>2
<1>9. ASSUME NEW d \in Companies, NEW id \in DOMAIN books[d].orders
      PROVE  /\ id \in DOMAIN books'[d].orders
             /\ books'[d].orders[id] = books[d].orders[id]
             /\ books[d].orders[id].ticket # k
  <2>1. books[d].orders[id].ticket # k
    BY <1>3, <1>6
  <2>2. CASE UNCHANGED books
    BY <2>1, <2>2
  <2>3. CASE /\ CanInsert(books[c], o)
             /\ books' = [books EXCEPT ![c] = InsertLimitOrder(books[c], o)]
    <3> DEFINE n == InsertLimitOrder(books[c], o)
    <3>1. /\ DOMAIN n.orders = DOMAIN books[c].orders \cup {o.order_id}
          /\ \A i \in DOMAIN books[c].orders : n.orders[i] = books[c].orders[i]
      BY <2>3, InsertTickets
    <3> HIDE DEF n
    <3>2. books'[c] = n /\ \A e \in Companies : e # c => books'[e] = books[e]
      BY <1>2, <1>4, <2>3 DEF BooksTyped, n
    <3>3. QED
      BY <2>1, <3>1, <3>2
  <2>4. QED
    BY <1>7, <2>2, <2>3
<1>10. \/ \E d \in Companies : \E id \in DOMAIN books'[d].orders :
            books'[d].orders[id].ticket = k
       \/ k \in gone'
  <2>1. CASE gone' = gone \cup {k}
    BY <2>1
  <2>2. CASE /\ CanInsert(books[c], o)
             /\ books' = [books EXCEPT ![c] = InsertLimitOrder(books[c], o)]
    <3> DEFINE n == InsertLimitOrder(books[c], o)
    <3>1. o.order_id \in DOMAIN n.orders /\ n.orders[o.order_id] = o
      BY <2>2, InsertTickets
    <3> HIDE DEF n
    <3>2. books'[c] = n
      BY <1>2, <1>4, <2>2 DEF BooksTyped, n
    <3>3. QED
      BY <1>4, <3>1, <3>2
  <2>3. QED
    BY <1>7, <2>1, <2>2
<1>11. \A j : j \notin gone /\ j # k => j \notin gone'
  BY <1>7
<1> HIDE DEF k
<1>12. RestingAccounted'
  <2>1. ASSUME NEW d \in Companies, NEW id \in DOMAIN books'[d].orders
        PROVE  /\ books'[d].orders[id].ticket \notin gone'
               /\ traded[books'[d].orders[id].ticket] + books'[d].orders[id].remaining
                    = size'[books'[d].orders[id].ticket]
    <3>1. CASE /\ id \in DOMAIN books[d].orders
               /\ books'[d].orders[id] = books[d].orders[id]
      BY <1>2, <1>5, <1>6, <1>9, <1>11, <3>1 DEF RestingAccounted
    <3>2. CASE books'[d].orders[id] = o /\ UNCHANGED gone
      BY <1>4, <1>5, <3>2
    <3>3. QED
      BY <1>8, <3>1, <3>2
  <2>2. QED
    BY <1>1, <2>1 DEF RestingAccounted
<1>13. TakersAccounted' /\ TakenOnce'
  <2>1. ASSUME NEW u \in Callers, pc[u] = "matching"
        PROVE  /\ incoming[u].ticket \notin gone'
               /\ traded[incoming[u].ticket] + incoming[u].remaining
                    = size'[incoming[u].ticket]
    <3>1. incoming[u].ticket \in 1..arrivals /\ incoming[u].ticket # k
      BY <1>3, <1>6, <2>1
    <3>2. QED
      BY <1>2, <1>5, <1>11, <2>1, <3>1 DEF TakersAccounted
  <2>2. QED
    BY <1>1, <1>2, <2>1 DEF TakersAccounted, TakenOnce
<1>14. RestingOnce'
  <2>1. ASSUME NEW d \in Companies, NEW e \in Companies,
               NEW i \in DOMAIN books'[d].orders, NEW j \in DOMAIN books'[e].orders,
               books'[d].orders[i].ticket = books'[e].orders[j].ticket
        PROVE  d = e /\ i = j
    <3>1. CASE i \in DOMAIN books[d].orders /\ j \in DOMAIN books[e].orders
      BY <1>2, <1>9, <2>1, <3>1 DEF RestingOnce
    <3>2. CASE i \notin DOMAIN books[d].orders
      BY <1>4, <1>8, <1>9, <2>1, <3>2
    <3>3. CASE j \notin DOMAIN books[e].orders
      BY <1>4, <1>8, <1>9, <2>1, <3>3
    <3>4. QED
      BY <3>1, <3>2, <3>3
  <2>2. QED
    BY <2>1 DEF RestingOnce
<1>15. RestingOrTaken'
  <2>1. ASSUME NEW d \in Companies, NEW id \in DOMAIN books'[d].orders,
               NEW u \in Callers, pc[u] = "matching"
        PROVE  books'[d].orders[id].ticket # incoming[u].ticket
    <3>1. CASE /\ id \in DOMAIN books[d].orders
               /\ books'[d].orders[id] = books[d].orders[id]
      BY <1>2, <2>1, <3>1 DEF RestingOrTaken
    <3>2. CASE books'[d].orders[id] = o
      BY <1>3, <1>4, <1>6, <2>1, <3>2
    <3>3. QED
      BY <1>8, <3>1, <3>2
  <2>2. QED
    BY <1>1, <2>1 DEF RestingOrTaken
<1>16. NothingMissing'
  <2>1. ASSUME NEW j \in 1..arrivals', j \notin gone', traded[j] # size'[j]
        PROVE  OnABook(j)' \/ WithACaller(j)'
    <3>1. CASE j = k
      BY <1>10, <2>1, <3>1 DEF OnABook
    <3>2. CASE j \in 1..arrivals
      <4>1. j \notin gone
        BY <1>7, <2>1
      <4>2. OnABook(j) \/ WithACaller(j)
        BY <1>2, <1>5, <2>1, <3>2, <4>1 DEF NothingMissing
      <4>3. OnABook(j) => OnABook(j)'
        BY <1>9 DEF OnABook
      <4>4. WithACaller(j) => WithACaller(j)'
        BY <1>1 DEF WithACaller
      <4>5. QED
        BY <4>2, <4>3, <4>4
    <3>3. QED
      BY <1>5, <2>1, <3>1, <3>2
  <2>2. QED
    BY <1>1, <2>1 DEF NothingMissing
<1>17. NothingAhead'
  <2>1. gone' \subseteq 1..arrivals'
    <3>1. gone \subseteq 1..arrivals /\ arrivals' = k /\ k = arrivals + 1
      BY <1>1, <1>2 DEF NothingAhead, k
    <3>2. 1..arrivals \subseteq 1..arrivals' /\ k \in 1..arrivals'
      BY <1>3, <3>1
    <3>3. QED
      BY <1>7, <3>1, <3>2
  <2>2. \A j \in Tickets : j > arrivals' => traded'[j] = 0
    BY <1>1, <1>2, <1>3 DEF NothingAhead, Tickets
  <2>3. QED
    BY <2>1, <2>2 DEF NothingAhead
<1>18. Bounded'
  <2>1. ASSUME NEW j \in 1..arrivals'
        PROVE  traded'[j] <= size'[j]
    BY <1>1, <1>2, <1>4, <1>5, <2>1 DEF Bounded
  <2>2. QED
    BY <2>1 DEF Bounded
<1>19. QED
  BY <1>12, <1>13, <1>14, <1>15, <1>16, <1>17, <1>18 DEF Accounted

\* A cancellation withdraws the order it removes.
LEMMA CancelAccounted ==
  ASSUME IInv, Accounted, NEW t \in Callers, IngestCancel(t)
  PROVE  Accounted'
<1>1. PICK c \in Companies, id \in OrderIds :
        /\ \/ /\ id \in DOMAIN books[c].orders
              /\ books' = [books EXCEPT ![c] = CancelOrder(@, id)]
              /\ gone' = gone \cup {books[c].orders[id].ticket}
           \/ UNCHANGED <<books, gone>>
        /\ UNCHANGED <<pc, incoming, arrivals, size, traded>>
  BY DEF IngestCancel, CancelResting
<1>2. CASE UNCHANGED books /\ UNCHANGED gone
  BY <1>1, <1>2, NothingMoves
<1>3. CASE /\ id \in DOMAIN books[c].orders
           /\ books' = [books EXCEPT ![c] = CancelOrder(@, id)]
           /\ gone' = gone \cup {books[c].orders[id].ticket}
  <2> DEFINE k == books[c].orders[id].ticket
             n == CancelOrder(books[c], id)
  <2>1. /\ BooksTyped /\ TicketsGiven
        /\ RestingAccounted /\ TakersAccounted /\ RestingOnce /\ RestingOrTaken
        /\ TakenOnce /\ NothingMissing /\ NothingAhead /\ Bounded
    BY DEF IInv, TypeOK, Accounted
  <2>2. /\ DOMAIN n.orders = DOMAIN books[c].orders \ {id}
        /\ \A i \in DOMAIN n.orders : n.orders[i] = books[c].orders[i]
    BY DEF CancelOrder, Drop
  <2> HIDE DEF n
  <2>3. books'[c] = n /\ \A d \in Companies : d # c => books'[d] = books[d]
    BY <1>3, <2>1 DEF BooksTyped, n
  <2>4. ASSUME NEW d \in Companies, NEW i \in DOMAIN books'[d].orders
        PROVE  /\ i \in DOMAIN books[d].orders
               /\ books'[d].orders[i] = books[d].orders[i]
               /\ books[d].orders[i].ticket # k
    <3>1. /\ i \in DOMAIN books[d].orders
          /\ books'[d].orders[i] = books[d].orders[i]
          /\ ~(d = c /\ i = id)
      BY <2>2, <2>3
    <3>2. QED
      BY <1>3, <2>1, <3>1 DEF RestingOnce
  <2>5. ASSUME NEW d \in Companies, NEW i \in DOMAIN books[d].orders,
               books[d].orders[i].ticket # k
        PROVE  i \in DOMAIN books'[d].orders
    BY <2>2, <2>3, <2>5
  <2>6. \A u \in Callers : pc[u] = "matching" => incoming[u].ticket # k
    BY <1>3, <2>1 DEF RestingOrTaken
  <2>7. gone' = gone \cup {k} /\ k \in 1..arrivals
    BY <1>3, <2>1 DEF TicketsGiven
  <2> HIDE DEF k
  <2>8. RestingAccounted' /\ RestingOnce' /\ RestingOrTaken'
    <3>1. RestingAccounted'
      BY <1>1, <2>1, <2>4, <2>7 DEF RestingAccounted
    <3>2. RestingOnce' /\ RestingOrTaken'
      BY <1>1, <2>1, <2>4 DEF RestingOnce, RestingOrTaken
    <3>3. QED
      BY <3>1, <3>2
  <2>9. TakersAccounted' /\ TakenOnce'
    BY <1>1, <2>1, <2>6, <2>7 DEF TakersAccounted, TakenOnce
  <2>10. NothingMissing'
    <3>1. ASSUME NEW j \in 1..arrivals, j \notin gone', traded[j] # size[j]
          PROVE  OnABook(j)' \/ WithACaller(j)'
      <4>1. j \notin gone /\ j # k
        BY <2>7, <3>1
      <4>2. OnABook(j) \/ WithACaller(j)
        BY <2>1, <3>1, <4>1 DEF NothingMissing
      <4>3. OnABook(j) => OnABook(j)'
        BY <2>4, <2>5, <4>1 DEF OnABook
      <4>4. WithACaller(j) => WithACaller(j)'
        BY <1>1 DEF WithACaller
      <4>5. QED
        BY <4>2, <4>3, <4>4
    <3>2. QED
      BY <1>1, <3>1 DEF NothingMissing
  <2>11. NothingAhead' /\ Bounded'
    BY <1>1, <2>1, <2>7 DEF NothingAhead, Bounded
  <2>12. QED
    BY <2>8, <2>9, <2>10, <2>11 DEF Accounted
<1>4. QED
  BY <1>1, <1>2, <1>3

LEMMA NextAccounted == IInv /\ Accounted /\ [Next]_vars => Accounted'
<1> SUFFICES ASSUME IInv, Accounted, [Next]_vars
             PROVE  Accounted'
  OBVIOUS
<1>1. pc \in [Callers -> {"idle", "admitted", "matching"}]
  BY DEF IInv, TypeOK, CallsTyped
<1>2. ASSUME NEW t \in Callers, Refuse(t) PROVE Accounted'
  BY <1>2, NothingMoves DEF Refuse, historyVars
<1>3. ASSUME NEW t \in Callers, Admit(t) PROVE Accounted'
  <2>1. /\ UNCHANGED <<books, arrivals, size, traded, gone>>
        /\ pc[t] = "idle" /\ pc' = [pc EXCEPT ![t] = "admitted"]
        /\ \A u \in Callers : u # t => incoming'[u] = incoming[u]
    BY <1>3 DEF Admit, Submit, historyVars, IInv, TypeOK, CallsTyped
  <2>2. \A u \in Callers : /\ pc'[u] = "matching" <=> pc[u] = "matching"
                          /\ pc[u] = "matching" => incoming'[u] = incoming[u]
    BY <1>1, <2>1
  <2>3. QED
    BY <2>1, <2>2, NothingMoves
<1>4. ASSUME NEW t \in Callers, Acquire(t) PROVE Accounted'
  BY <1>4, AcquireAccounted
<1>5. ASSUME NEW t \in Callers, MatchStep(t) PROVE Accounted'
  BY <1>5, MatchAccounted
<1>6. ASSUME NEW t \in Callers, Return(t) PROVE Accounted'
  BY <1>6, ReturnAccounted
<1>7. ASSUME NEW t \in Callers, IngestChainOrder(t) PROVE Accounted'
  BY <1>7, IngestAccounted
<1>8. ASSUME NEW t \in Callers, IngestCancel(t) PROVE Accounted'
  BY <1>8, CancelAccounted
<1>9. CASE PauseMatching \/ ResumeMatching
  BY <1>9, NothingMoves DEF PauseMatching, ResumeMatching, historyVars
<1>10. CASE UNCHANGED vars
  BY <1>10, NothingMoves DEF vars
<1>11. QED
  BY <1>2, <1>3, <1>4, <1>5, <1>6, <1>7, <1>8, <1>9, <1>10
     DEF Next, PlacementNext, Placement

\* Where the open part of ticket k is found.
LEMMA HoldersFacts ==
  ASSUME IInv, Accounted, NEW k \in 1..arrivals
  PROVE  /\ \A o \in Holders(k) : /\ k \notin gone /\ traded[k] + o.remaining = size[k]
                                  /\ o.remaining \in Nat \ {0}
         /\ \A o, p \in Holders(k) : o = p
         /\ k \notin gone /\ traded[k] # size[k] => Holders(k) # {}
<1>1. /\ BooksTyped /\ SoundBooks /\ CallsTyped /\ HistoryTyped
      /\ RestingAccounted /\ TakersAccounted /\ RestingOnce /\ RestingOrTaken
      /\ TakenOnce /\ NothingMissing
  BY DEF IInv, TypeOK, Accounted
<1>2. \A o : o \in Holders(k) <=>
        \/ \E c \in Companies : \E id \in DOMAIN books[c].orders :
             o = books[c].orders[id] /\ o.ticket = k
        \/ \E t \in Callers : /\ pc[t] = "matching" /\ incoming[t].ticket = k
                              /\ incoming[t].remaining > 0 /\ o = incoming[t]
  <2>1. \A c \in Companies : RestingOrders[c] =
          {books[c].orders[id] : id \in DOMAIN books[c].orders}
    BY DEF RestingOrders
  <2>2. ASSUME NEW o
        PROVE  o \in UNION {{x \in RestingOrders[c] : x.ticket = k} : c \in Companies}
                 <=> \E c \in Companies : \E id \in DOMAIN books[c].orders :
                       o = books[c].orders[id] /\ o.ticket = k
    BY <2>1
  <2>3. ASSUME NEW o
        PROVE  o \in {incoming[t] : t \in {u \in Callers : /\ pc[u] = "matching"
                                                           /\ incoming[u].ticket = k
                                                           /\ incoming[u].remaining > 0}}
                 <=> \E t \in Callers : /\ pc[t] = "matching" /\ incoming[t].ticket = k
                                        /\ incoming[t].remaining > 0 /\ o = incoming[t]
    OBVIOUS
  <2> DEFINE R == UNION {{o \in RestingOrders[c] : o.ticket = k} : c \in Companies}
             T == {incoming[t] : t \in {u \in Callers : /\ pc[u] = "matching"
                                                        /\ incoming[u].ticket = k
                                                        /\ incoming[u].remaining > 0}}
  <2>4. Holders(k) = R \cup T
    BY DEF Holders
  <2>5. \A o : o \in Holders(k) <=> o \in R \/ o \in T
    BY <2>4
  <2> HIDE DEF R, T
  <2>6. ASSUME NEW o
        PROVE  o \in Holders(k) <=>
        \/ \E c \in Companies : \E id \in DOMAIN books[c].orders :
             o = books[c].orders[id] /\ o.ticket = k
        \/ \E t \in Callers : /\ pc[t] = "matching" /\ incoming[t].ticket = k
                              /\ incoming[t].remaining > 0 /\ o = incoming[t]
    <3>1. o \in R <=> \E c \in Companies : \E id \in DOMAIN books[c].orders :
                        o = books[c].orders[id] /\ o.ticket = k
      BY <2>2 DEF R
    <3>2. o \in T <=> \E t \in Callers :
                        /\ pc[t] = "matching" /\ incoming[t].ticket = k
                        /\ incoming[t].remaining > 0 /\ o = incoming[t]
      BY <2>3 DEF T
    <3>3. QED
      BY <2>5, <3>1, <3>2
  <2>7. QED
    BY <2>6
<1>3. ASSUME NEW c \in Companies, NEW id \in DOMAIN books[c].orders,
             books[c].orders[id].ticket = k
      PROVE  /\ k \notin gone /\ traded[k] + books[c].orders[id].remaining = size[k]
             /\ books[c].orders[id].remaining \in Nat \ {0}
  <2>1. k \notin gone /\ traded[k] + books[c].orders[id].remaining = size[k]
    BY <1>1, <1>3 DEF RestingAccounted
  <2>2. books[c].orders[id].remaining > 0 /\ books[c].orders[id] \in OrderRecord
    BY <1>1 DEF SoundBooks, Sound, Consistent, OrdersQueued, IsBook, OrdersTyped
  <2>3. QED
    BY <2>1, <2>2 DEF OrderRecord
<1>4. ASSUME NEW t \in Callers, pc[t] = "matching", incoming[t].ticket = k,
             incoming[t].remaining > 0
      PROVE  /\ k \notin gone /\ traded[k] + incoming[t].remaining = size[k]
             /\ incoming[t].remaining \in Nat \ {0}
  <2>1. k \notin gone /\ traded[k] + incoming[t].remaining = size[k]
    BY <1>1, <1>4 DEF TakersAccounted
  <2>2. incoming[t].remaining \in Nat
    BY <1>4, MatchingHolds
  <2>3. QED
    BY <1>4, <2>1, <2>2
<1>5. \A o \in Holders(k) : /\ k \notin gone /\ traded[k] + o.remaining = size[k]
                           /\ o.remaining \in Nat \ {0}
  BY <1>2, <1>3, <1>4
<1>6. \A o, p \in Holders(k) : o = p
  BY <1>1, <1>2 DEF RestingOnce, RestingOrTaken, TakenOnce
<1>7. ASSUME k \notin gone, traded[k] # size[k]
      PROVE  Holders(k) # {}
  <2>1. OnABook(k) \/ WithACaller(k)
    BY <1>1, <1>7 DEF NothingMissing
  <2>2. CASE OnABook(k)
    BY <1>2, <2>2 DEF OnABook
  <2>3. CASE WithACaller(k)
    <3>1. PICK t \in Callers : pc[t] = "matching" /\ incoming[t].ticket = k
      BY <2>3 DEF WithACaller
    <3>2. incoming[t].remaining \in Nat
      BY <3>1, MatchingHolds
    <3>3. traded[k] + incoming[t].remaining = size[k]
      BY <1>1, <3>1 DEF TakersAccounted
    <3>4. k \in Tickets /\ traded[k] \in Nat
      BY <1>1, BoundAssumption DEF HistoryTyped, Tickets
    <3>5. incoming[t].remaining > 0
      BY <1>7, <3>2, <3>3, <3>4
    <3>6. QED
      BY <1>2, <3>1, <3>5
  <2>4. QED
    BY <2>1, <2>2, <2>3
<1>8. QED
  BY <1>5, <1>6, <1>7

\* What an order came with is what it was matched for and what is open of it.
LEMMA AccountedConserves == IInv /\ Accounted => QuantityConserved
<1> SUFFICES ASSUME IInv, Accounted, NEW k \in 1..arrivals
             PROVE  /\ traded[k] <= size[k]
                    /\ IF k \in gone \/ traded[k] = size[k]
                       THEN Holders(k) = {}
                       ELSE \E o \in Holders(k) : /\ Holders(k) = {o}
                                                 /\ traded[k] + o.remaining = size[k]
  BY DEF QuantityConserved
<1>1. traded[k] <= size[k] /\ k \in Tickets /\ traded[k] \in Nat
  BY BoundAssumption DEF Accounted, Bounded, IInv, TypeOK, HistoryTyped, Tickets
<1>2. CASE k \in gone \/ traded[k] = size[k]
  <2>1. \A o \in Holders(k) : FALSE
    BY <1>1, <1>2, HoldersFacts
  <2>2. QED
    BY <1>1, <1>2, <2>1
<1>3. CASE ~(k \in gone \/ traded[k] = size[k])
  <2>1. PICK o \in Holders(k) : traded[k] + o.remaining = size[k]
    BY <1>3, HoldersFacts
  <2>2. Holders(k) = {o}
    BY <2>1, HoldersFacts
  <2>3. QED
    BY <1>1, <1>3, <2>1, <2>2
<1>4. QED
  BY <1>2, <1>3

\* Matching neither creates nor loses quantity, whatever the callers do at the
\* same time: what an order came with is what it was matched for and what is
\* open of it, in one place (matching.rs:153, orderbook.rs:48).
THEOREM QuantityIsConserved == Spec => []QuantityConserved
<1>1. IInv /\ Accounted => QuantityConserved
  BY AccountedConserves
<1>2. Init => IInv /\ Accounted
  BY InitIInv, InitAccounted
<1>3. IInv /\ Accounted /\ [Next]_vars => IInv' /\ Accounted'
  BY NextIInv, NextAccounted
<1>4. QED
  BY <1>1, <1>2, <1>3, PTL DEF Spec

-----------------------------------------------------------------------------
(* What the fills of a placement add up to. *)

\* Appending a fill adds its quantity.
LEMMA FilledMore ==
  ASSUME NEW s \in Seq(Fill), NEW f \in Fill
  PROVE  SumTo([i \in DOMAIN Append(s, f) |-> Append(s, f)[i].vstk_amount],
               Len(Append(s, f)))
           = SumTo([i \in DOMAIN s |-> s[i].vstk_amount], Len(s)) + f.vstk_amount
<1> DEFINE n == Len(s)
           g == [i \in DOMAIN s |-> s[i].vstk_amount]
           h == [i \in DOMAIN Append(s, f) |-> Append(s, f)[i].vstk_amount]
<1>1. /\ n \in Nat /\ Len(Append(s, f)) = n + 1
      /\ DOMAIN s = 1..n /\ DOMAIN Append(s, f) = 1..(n + 1)
      /\ Append(s, f)[n + 1] = f
      /\ \A i \in 1..n : Append(s, f)[i] = s[i]
  OBVIOUS
<1>2. \A i \in 1..n : g[i] = h[i]
  BY <1>1
<1>3. h[n + 1] = f.vstk_amount
  BY <1>1
<1> HIDE DEF g, h
<1>4. SumTo(g, n) = SumTo(h, n)
  BY <1>1, <1>2, SumToSame
<1>5. SumTo(h, n + 1) = SumTo(h, n) + h[n + 1]
  BY <1>1, SumToStep
<1>6. QED
  BY <1>1, <1>3, <1>4, <1>5 DEF g, h

\* A caller that waits for the mutex has no fills yet.
NoFillsBefore == \A t \in Callers : pc[t] = "admitted" => fills[t] = <<>>

LEMMA FillsStep ==
  IInv /\ Accounted /\ NoFillsBefore /\ FillsAddUp /\ [Next]_vars
    => NoFillsBefore' /\ FillsAddUp'
<1> SUFFICES ASSUME IInv, Accounted, NoFillsBefore, FillsAddUp, [Next]_vars
             PROVE  NoFillsBefore' /\ FillsAddUp'
  OBVIOUS
<1>1. /\ CallsTyped /\ HistoryTyped /\ TakerIsLatest /\ TicketsGiven
      /\ BooksTyped /\ SoundBooks /\ RestingOrTaken /\ TakenOnce /\ NothingAhead
  BY DEF IInv, TypeOK, Accounted
\* A caller whose fills and whose order's ticket stay as they are.
<1>2. ASSUME \A u \in Callers :
               pc'[u] = "matching" =>
                 /\ pc[u] = "matching" /\ fills'[u] = fills[u]
                 /\ traded'[incoming'[u].ticket] = traded[incoming[u].ticket]
      PROVE  FillsAddUp'
  BY <1>2 DEF FillsAddUp, Filled
<1>3. ASSUME NEW t \in Callers,
             \/ pc[t] # "matching" /\ fills' = [fills EXCEPT ![t] = <<>>]
             \/ UNCHANGED fills,
             UNCHANGED <<pc, incoming, traded>>
      PROVE  NoFillsBefore' /\ FillsAddUp'
  <2>1. \A u \in Callers : fills'[u] = fills[u] \/ fills'[u] = <<>>
    BY <1>1, <1>3 DEF CallsTyped
  <2>2. NoFillsBefore'
    BY <1>3, <2>1 DEF NoFillsBefore
  <2>3. \A u \in Callers : pc[u] = "matching" => fills'[u] = fills[u]
    BY <1>1, <1>3 DEF CallsTyped
  <2>4. QED
    BY <1>2, <1>3, <2>2, <2>3
<1>4. ASSUME NEW t \in Callers, Admit(t)
      PROVE  NoFillsBefore' /\ FillsAddUp'
  <2>1. /\ pc[t] = "idle" /\ pc' = [pc EXCEPT ![t] = "admitted"]
        /\ fills' = [fills EXCEPT ![t] = <<>>]
        /\ \A u \in Callers : u # t => incoming'[u] = incoming[u]
        /\ UNCHANGED traded
    BY <1>1, <1>4 DEF Admit, Submit, historyVars, CallsTyped
  <2>2. NoFillsBefore'
    BY <1>1, <2>1 DEF NoFillsBefore, CallsTyped
  <2>3. \A u \in Callers : pc'[u] = "matching" =>
          u # t /\ pc[u] = "matching" /\ fills'[u] = fills[u]
    BY <1>1, <2>1 DEF CallsTyped
  <2>4. QED
    BY <1>2, <2>1, <2>2, <2>3
<1>5. ASSUME NEW t \in Callers, Acquire(t)
      PROVE  NoFillsBefore' /\ FillsAddUp'
  <2> DEFINE k == arrivals + 1
  <2>1. /\ pc[t] = "admitted" /\ pc' = [pc EXCEPT ![t] = "matching"]
        /\ incoming' = [incoming EXCEPT ![t].ticket = k]
        /\ arrivals < MaxArrivals
        /\ UNCHANGED <<fills, traded>>
    BY <1>5 DEF Acquire
  <2>2. k \in Tickets /\ k > arrivals /\ incoming[t] \in OrderRecord
    BY <1>1, <2>1, BoundAssumption DEF CallsTyped, HistoryTyped, Tickets
  <2>3. /\ incoming'[t].ticket = k /\ pc'[t] = "matching"
        /\ \A u \in Callers : u # t => incoming'[u] = incoming[u] /\ pc'[u] = pc[u]
    BY <1>1, <2>1, <2>2 DEF CallsTyped, OrderRecord
  <2>4. traded[k] = 0
    BY <1>1, <2>2 DEF NothingAhead
  <2> HIDE DEF k
  <2>5. Filled(t)' = 0
    <3>1. fills'[t] = <<>>
      BY <2>1 DEF NoFillsBefore
    <3>2. QED
      BY <3>1, SumToStep DEF Filled
  <2>6. FillsAddUp'
    BY <2>1, <2>3, <2>4, <2>5 DEF FillsAddUp, Filled
  <2>7. NoFillsBefore'
    BY <2>1, <2>3 DEF NoFillsBefore
  <2>8. QED
    BY <2>6, <2>7
<1>6. ASSUME NEW t \in Callers, MatchStep(t)
      PROVE  NoFillsBefore' /\ FillsAddUp'
  <2> DEFINE in == incoming[t]
             b == books[in.company_id]
  <2>1. pc[t] = "matching" /\ in.remaining > 0 /\ UNCHANGED pc
    BY <1>6 DEF MatchStep
  <2>2. PICK best \in DOMAIN b.queues[Opposite(in.side)] :
          /\ incoming' = [incoming EXCEPT ![t].remaining = @ - TradeQty(b, in, best)]
          /\ fills' = [fills EXCEPT ![t] = Append(@, FillOf(b, in, best))]
          /\ traded' = [traded EXCEPT
                          ![FrontOrder(b, in, best).ticket] = @ + TradeQty(b, in, best),
                          ![in.ticket] = @ + TradeQty(b, in, best)]
    BY <1>6 DEF MatchStep
  <2>3. /\ in \in OrderRecord /\ in.company_id \in Companies
        /\ in.ticket \in Tickets
    BY <2>1, MatchingHolds
  <2>4. Sound(b)
    BY <1>1, <2>3 DEF SoundBooks
  <2> DEFINE qty == TradeQty(b, in, best)
             mo == FrontOrder(b, in, best)
             f == FillOf(b, in, best)
  <2>5. /\ mo.order_id \in DOMAIN b.orders /\ mo = b.orders[mo.order_id]
        /\ qty \in Nat
    BY <2>1, <2>3, <2>4, FrontFacts
  <2>6. f \in Fill /\ f.vstk_amount = qty
    BY <2>1, <2>3, <2>4, FillType DEF FillOf
  <2> HIDE DEF qty, f
  <2>7. /\ fills'[t] = Append(fills[t], f) /\ fills[t] \in Seq(Fill)
        /\ \A u \in Callers : u # t => fills'[u] = fills[u]
    BY <1>1, <2>2 DEF CallsTyped, f
  <2>8. \A u \in Callers : incoming'[u].ticket = incoming[u].ticket
    <3>1. /\ incoming'[t] = [in EXCEPT !.remaining = in.remaining - qty]
          /\ \A u \in Callers : u # t => incoming'[u] = incoming[u]
      BY <1>1, <2>2 DEF CallsTyped, qty
    <3>2. incoming'[t].ticket = in.ticket
      BY <2>3, <3>1 DEF OrderRecord
    <3>3. QED
      BY <3>1, <3>2
  <2>9. \A u \in Callers : pc[u] = "matching" => mo.ticket # incoming[u].ticket
    BY <1>1, <2>3, <2>5 DEF RestingOrTaken
  <2> HIDE DEF mo
  <2>10. /\ traded' = [traded EXCEPT ![mo.ticket] = @ + qty, ![in.ticket] = @ + qty]
         /\ traded \in [Tickets -> Nat]
    BY <1>1, <2>2 DEF HistoryTyped, mo, qty
  <2>11. traded'[in.ticket] = traded[in.ticket] + qty
    BY <2>1, <2>3, <2>9, <2>10
  <2>12. ASSUME NEW u \in Callers, u # t, pc[u] = "matching"
         PROVE  traded'[incoming[u].ticket] = traded[incoming[u].ticket]
    <3>1. incoming[u].ticket \in Tickets
      BY <2>12, MatchingHolds
    <3>2. incoming[u].ticket # in.ticket
      BY <1>1, <2>1, <2>12 DEF TakenOnce
    <3>3. QED
      BY <2>9, <2>10, <2>12, <3>1, <3>2
  <2> HIDE DEF in
  <2>13. Filled(t)' = Filled(t) + qty
    BY <2>6, <2>7, FilledMore DEF Filled
  <2>14. Filled(t)' = traded'[incoming'[t].ticket]
    BY <2>1, <2>8, <2>11, <2>13 DEF FillsAddUp, in
  <2>15. FillsAddUp'
    <3>1. ASSUME NEW u \in Callers, u # t, pc'[u] = "matching"
          PROVE  Filled(u)' = traded'[incoming'[u].ticket]
      <4>1. Filled(u)' = Filled(u)
        BY <2>7, <3>1 DEF Filled
      <4>2. QED
        BY <2>1, <2>8, <2>12, <3>1, <4>1 DEF FillsAddUp
    <3>2. QED
      BY <2>14, <3>1 DEF FillsAddUp
  <2>16. NoFillsBefore'
    BY <2>1, <2>7 DEF NoFillsBefore
  <2>17. QED
    BY <2>15, <2>16
<1>7. ASSUME NEW t \in Callers, Return(t)
      PROVE  NoFillsBefore' /\ FillsAddUp'
  <2>1. /\ pc' = [pc EXCEPT ![t] = "idle"]
        /\ incoming' = [incoming EXCEPT ![t] = EmptyMap]
        /\ UNCHANGED fills \/ fills' = [fills EXCEPT ![t] = <<>>]
        /\ UNCHANGED traded
    BY <1>7 DEF Return
  <2>2. \A u \in Callers : pc'[u] # "idle" =>
          /\ u # t /\ pc'[u] = pc[u] /\ incoming'[u] = incoming[u]
          /\ fills'[u] = fills[u]
    BY <1>1, <2>1 DEF CallsTyped
  <2>3. QED
    BY <1>2, <2>1, <2>2 DEF NoFillsBefore
<1>8. ASSUME NEW t \in Callers, Refuse(t) \/ IngestChainOrder(t) \/ IngestCancel(t)
      PROVE  NoFillsBefore' /\ FillsAddUp'
  <2>1. /\ pc[t] = "idle" /\ fills' = [fills EXCEPT ![t] = <<>>]
        /\ UNCHANGED <<pc, incoming, traded>>
    BY <1>8 DEF Refuse, IngestChainOrder, IngestCancel, CancelResting, historyVars
  <2>2. QED
    BY <1>3, <2>1
<1>9. CASE PauseMatching \/ ResumeMatching \/ UNCHANGED vars
  <2>1. UNCHANGED <<fills, pc, incoming, traded>>
    BY <1>9 DEF PauseMatching, ResumeMatching, vars, historyVars
  <2>2. QED
    BY <2>1 DEF NoFillsBefore, FillsAddUp, Filled
<1>10. QED
  BY <1>4, <1>5, <1>6, <1>7, <1>8, <1>9 DEF Next, PlacementNext, Placement

\* At every turn of a placement its fills account for what its order was matched
\* for: none is lost, repeated or of a wrong size (matching.rs:153).
THEOREM FillsAlwaysAddUp == Spec => []FillsAddUp
<1>1. Init => IInv /\ Accounted /\ NoFillsBefore /\ FillsAddUp
  BY InitIInv, InitAccounted DEF Init, NoFillsBefore, FillsAddUp
<1>2. /\ IInv /\ Accounted /\ NoFillsBefore /\ FillsAddUp
      /\ [Next]_vars
      => IInv' /\ Accounted' /\ NoFillsBefore' /\ FillsAddUp'
  BY NextIInv, NextAccounted, FillsStep
<1>3. QED
  BY <1>1, <1>2, PTL DEF Spec

-----------------------------------------------------------------------------
(***************************************************************************)
(* Notionals.  vSTK * price_ray is computed in 256 bits (matching.rs:313)  *)
(* and can wrap; the two theorems below are about engines in which no      *)
(* order is so large that it does.                                         *)
(***************************************************************************)
NoneWraps == \A r \in Requests : r.remaining * r.price_ray < UintModulus

\* An order keeps the price it was submitted with and never grows.
Inherits(o) ==
  \E r \in Requests : o.price_ray = r.price_ray /\ o.remaining <= r.remaining
AllInherit ==
  /\ \A c \in Companies : \A id \in DOMAIN books[c].orders :
       Inherits(books[c].orders[id])
  /\ \A t \in Callers : pc[t] # "idle" => Inherits(incoming[t])

LEMMA SmallerInherits ==
  ASSUME NEW o \in OrderRecord, NEW p \in OrderRecord, Inherits(o),
         p.price_ray = o.price_ray, p.remaining <= o.remaining
  PROVE  Inherits(p)
<1>1. PICK r \in Requests : o.price_ray = r.price_ray /\ o.remaining <= r.remaining
  BY DEF Inherits
<1>2. o.remaining \in Nat /\ p.remaining \in Nat /\ r.remaining \in Nat
  BY RequestsAssumption DEF OrderRecord, Positive
<1>3. p.remaining <= r.remaining
  BY <1>1, <1>2
<1>4. QED
  BY <1>1, <1>3 DEF Inherits

LEMMA RequestInherits ==
  ASSUME NEW r \in Requests, NEW k \in Nat
  PROVE  Inherits(WithTicket(r, k))
<1>1. /\ WithTicket(r, k).price_ray = r.price_ray
      /\ WithTicket(r, k).remaining = r.remaining /\ r.remaining \in Nat
  BY RequestsAssumption DEF WithTicket, Positive
<1>2. QED
  BY <1>1 DEF Inherits

LEMMA InheritStep == IInv /\ AllInherit /\ [Next]_vars => AllInherit'
<1> SUFFICES ASSUME IInv, AllInherit, [Next]_vars
             PROVE  AllInherit'
  OBVIOUS
<1>1. BooksTyped /\ SoundBooks /\ CallsTyped /\ HistoryTyped
  BY DEF IInv, TypeOK
<1>2. ASSUME UNCHANGED <<books, pc, incoming>>
      PROVE  AllInherit'
  BY <1>2 DEF AllInherit
\* The book of one company changes; its new orders inherit too.
<1>3. ASSUME NEW c \in Companies, NEW n, books' = [books EXCEPT ![c] = n],
             \A id \in DOMAIN n.orders : Inherits(n.orders[id]),
             \A u \in Callers : pc'[u] # "idle" => Inherits(incoming'[u])
      PROVE  AllInherit'
  <2>1. books'[c] = n /\ \A d \in Companies : d # c => books'[d] = books[d]
    BY <1>1, <1>3 DEF BooksTyped
  <2>2. \A d \in Companies : \A id \in DOMAIN books'[d].orders :
          Inherits(books'[d].orders[id])
    BY <1>3, <2>1 DEF AllInherit
  <2>3. QED
    BY <1>3, <2>2 DEF AllInherit, Inherits
<1>4. ASSUME NEW t \in Callers, Admit(t)
      PROVE  AllInherit'
  <2>1. PICK r \in Requests : incoming' = [incoming EXCEPT ![t] = WithTicket(r, 0)]
    BY <1>4 DEF Admit, Submit
  <2>2. pc' = [pc EXCEPT ![t] = "admitted"] /\ UNCHANGED books
    BY <1>4 DEF Admit, Submit
  <2>3. Inherits(WithTicket(r, 0))
    BY RequestInherits
  <2>4. ASSUME NEW u \in Callers, pc'[u] # "idle" PROVE Inherits(incoming'[u])
    <3>1. CASE u = t
      BY <1>1, <2>1, <2>3, <3>1 DEF CallsTyped
    <3>2. CASE u # t
      BY <1>1, <2>1, <2>2, <2>4, <3>2 DEF AllInherit, CallsTyped
    <3>3. QED
      BY <3>1, <3>2
  <2>5. QED
    BY <2>2, <2>4 DEF AllInherit, Inherits
<1>5. ASSUME NEW t \in Callers, Acquire(t)
      PROVE  AllInherit'
  <2>1. /\ pc[t] = "admitted" /\ pc' = [pc EXCEPT ![t] = "matching"]
        /\ incoming' = [incoming EXCEPT ![t].ticket = arrivals + 1]
        /\ UNCHANGED books
    BY <1>5 DEF Acquire
  <2>2. incoming[t] \in OrderRecord
    BY <1>1, <2>1 DEF CallsTyped
  <2>3. /\ incoming'[t].price_ray = incoming[t].price_ray
        /\ incoming'[t].remaining = incoming[t].remaining
        /\ \A u \in Callers : u # t => incoming'[u] = incoming[u] /\ pc'[u] = pc[u]
    BY <1>1, <2>1, <2>2 DEF CallsTyped, OrderRecord
  <2>4. \A u \in Callers : pc'[u] # "idle" => Inherits(incoming'[u])
    BY <2>1, <2>3 DEF AllInherit, Inherits
  <2>5. QED
    BY <2>1, <2>4 DEF AllInherit, Inherits
<1>6. ASSUME NEW t \in Callers, MatchStep(t)
      PROVE  AllInherit'
  <2> DEFINE in == incoming[t]
             c == in.company_id
             b == books[c]
  <2>1. pc[t] = "matching" /\ in.remaining > 0 /\ UNCHANGED pc
    BY <1>6 DEF MatchStep
  <2>2. PICK best \in DOMAIN b.queues[Opposite(in.side)] :
          /\ books' = [books EXCEPT ![c] = MatchFront(b, in, best)]
          /\ incoming' = [incoming EXCEPT ![t].remaining = @ - TradeQty(b, in, best)]
    BY <1>6 DEF MatchStep
  <2>3. in \in OrderRecord /\ c \in Companies /\ in.remaining \in Nat
    BY <2>1, MatchingHolds
  <2>4. Sound(b)
    BY <1>1, <2>3 DEF SoundBooks
  <2> DEFINE mo == FrontOrder(b, in, best)
             qty == TradeQty(b, in, best)
             left == mo.remaining - qty
             n == MatchFront(b, in, best)
  <2>5. /\ mo.order_id \in DOMAIN b.orders /\ mo = b.orders[mo.order_id]
        /\ mo \in OrderRecord /\ qty \in Nat
        /\ qty <= in.remaining /\ qty <= mo.remaining
    BY <2>1, <2>3, <2>4, FrontFacts
  <2>6. /\ DOMAIN n.orders =
             IF left = 0 THEN DOMAIN b.orders \ {mo.order_id} ELSE DOMAIN b.orders
        /\ \A id \in DOMAIN n.orders :
             n.orders[id] = IF id = mo.order_id THEN [mo EXCEPT !.remaining = left]
                                                ELSE b.orders[id]
    BY <2>1, <2>3, <2>4, MatchOrders
  <2> HIDE DEF n, qty, mo
  <2>7. Inherits([mo EXCEPT !.remaining = left])
    <3>1. mo.remaining \in Nat /\ left \in Nat /\ left <= mo.remaining
      BY <2>5 DEF OrderRecord
    <3>2. /\ [mo EXCEPT !.remaining = left] \in OrderRecord
          /\ [mo EXCEPT !.remaining = left].price_ray = mo.price_ray
          /\ [mo EXCEPT !.remaining = left].remaining = left
      BY <2>5, <3>1 DEF OrderRecord
    <3>3. Inherits(mo)
      BY <2>3, <2>5 DEF AllInherit
    <3>4. QED
      BY <2>5, <3>1, <3>2, <3>3, SmallerInherits
  <2>8. \A id \in DOMAIN n.orders : Inherits(n.orders[id])
    BY <2>3, <2>6, <2>7 DEF AllInherit
  <2>9. Inherits([in EXCEPT !.remaining = in.remaining - qty])
    <3>1. in.remaining - qty \in Nat /\ in.remaining - qty <= in.remaining
      BY <2>3, <2>5
    <3>2. /\ [in EXCEPT !.remaining = in.remaining - qty] \in OrderRecord
          /\ [in EXCEPT !.remaining = in.remaining - qty].price_ray = in.price_ray
          /\ [in EXCEPT !.remaining = in.remaining - qty].remaining = in.remaining - qty
      BY <2>3, <3>1 DEF OrderRecord
    <3>3. Inherits(in)
      BY <2>1 DEF AllInherit
    <3>4. QED
      BY <2>3, <3>1, <3>2, <3>3, SmallerInherits
  <2>10. /\ incoming'[t] = [in EXCEPT !.remaining = in.remaining - qty]
         /\ \A u \in Callers : u # t => incoming'[u] = incoming[u]
    BY <1>1, <2>2 DEF CallsTyped, qty
  <2>11. \A u \in Callers : pc'[u] # "idle" => Inherits(incoming'[u])
    BY <2>1, <2>9, <2>10 DEF AllInherit
  <2>12. books' = [books EXCEPT ![c] = n]
    BY <2>2 DEF n
  <2>13. QED
    BY <1>3, <2>3, <2>8, <2>11, <2>12
<1>7. ASSUME NEW t \in Callers, Return(t)
      PROVE  AllInherit'
  <2> DEFINE in == incoming[t]
             c == in.company_id
             b == books[c]
  <2>1. /\ pc[t] = "matching" /\ pc' = [pc EXCEPT ![t] = "idle"]
        /\ incoming' = [incoming EXCEPT ![t] = EmptyMap]
        /\ \/ UNCHANGED books
           \/ /\ CanInsert(b, in)
              /\ books' = [books EXCEPT ![c] = InsertLimitOrder(b, in)]
    BY <1>7 DEF Return
  <2>2. \A u \in Callers : pc'[u] # "idle" => Inherits(incoming'[u])
    BY <1>1, <2>1 DEF AllInherit, CallsTyped
  <2>3. CASE UNCHANGED books
    BY <2>2, <2>3 DEF AllInherit, Inherits
  <2>4. CASE /\ CanInsert(b, in)
             /\ books' = [books EXCEPT ![c] = InsertLimitOrder(b, in)]
    <3> DEFINE n == InsertLimitOrder(b, in)
    <3>1. Inherits(in) /\ c \in Companies
      BY <2>1, MatchingHolds DEF AllInherit
    <3>2. /\ DOMAIN n.orders = DOMAIN b.orders \cup {in.order_id}
          /\ n.orders[in.order_id] = in
          /\ \A id \in DOMAIN b.orders : n.orders[id] = b.orders[id]
      BY <2>4, InsertTickets
    <3> HIDE DEF n
    <3>3. \A id \in DOMAIN n.orders : Inherits(n.orders[id])
      BY <3>1, <3>2 DEF AllInherit
    <3>4. books' = [books EXCEPT ![c] = n]
      BY <2>4 DEF n
    <3>5. QED
      BY <1>3, <2>2, <3>1, <3>3, <3>4
  <2>5. QED
    BY <2>1, <2>3, <2>4
<1>8. ASSUME NEW t \in Callers, IngestChainOrder(t)
      PROVE  AllInherit'
  <2>1. PICK r \in Requests :
          /\ \/ UNCHANGED books
             \/ /\ CanInsert(books[r.company_id], WithTicket(r, arrivals + 1))
                /\ books' = [books EXCEPT ![r.company_id] =
                               InsertLimitOrder(@, WithTicket(r, arrivals + 1))]
          /\ UNCHANGED <<pc, incoming>>
    BY <1>8 DEF IngestChainOrder
  <2> DEFINE c == r.company_id
             o == WithTicket(r, arrivals + 1)
  <2>2. arrivals + 1 \in Nat
    BY <1>1, BoundAssumption DEF HistoryTyped
  <2>3. Inherits(o) /\ c \in Companies
    BY <2>2, RequestInherits, WithTicketType
  <2>4. CASE UNCHANGED books
    BY <1>2, <2>1, <2>4
  <2>5. CASE /\ CanInsert(books[c], o)
             /\ books' = [books EXCEPT ![c] = InsertLimitOrder(books[c], o)]
    <3> DEFINE n == InsertLimitOrder(books[c], o)
    <3> HIDE DEF o
    <3>1. /\ DOMAIN n.orders = DOMAIN books[c].orders \cup {o.order_id}
          /\ n.orders[o.order_id] = o
          /\ \A id \in DOMAIN books[c].orders : n.orders[id] = books[c].orders[id]
      BY <2>5, InsertTickets
    <3> HIDE DEF n
    <3>2. \A id \in DOMAIN n.orders : Inherits(n.orders[id])
      BY <2>3, <3>1 DEF AllInherit
    <3>3. \A u \in Callers : pc'[u] # "idle" => Inherits(incoming'[u])
      BY <2>1 DEF AllInherit
    <3>4. books' = [books EXCEPT ![c] = n]
      BY <2>5 DEF n
    <3>5. QED
      BY <1>3, <2>3, <3>2, <3>3, <3>4
  <2>6. QED
    BY <2>1, <2>4, <2>5
<1>9. ASSUME NEW t \in Callers, IngestCancel(t)
      PROVE  AllInherit'
  <2>1. PICK c \in Companies, id \in OrderIds :
          /\ \/ books' = [books EXCEPT ![c] = CancelOrder(@, id)]
             \/ UNCHANGED books
          /\ UNCHANGED <<pc, incoming>>
    BY <1>9 DEF IngestCancel, CancelResting
  <2>2. CASE books' = [books EXCEPT ![c] = CancelOrder(@, id)]
    <3> DEFINE n == CancelOrder(books[c], id)
    <3>1. \A i \in DOMAIN n.orders :
            i \in DOMAIN books[c].orders /\ n.orders[i] = books[c].orders[i]
      BY DEF CancelOrder, Drop
    <3> HIDE DEF n
    <3>2. \A i \in DOMAIN n.orders : Inherits(n.orders[i])
      BY <3>1 DEF AllInherit
    <3>3. \A u \in Callers : pc'[u] # "idle" => Inherits(incoming'[u])
      BY <2>1 DEF AllInherit
    <3>4. books' = [books EXCEPT ![c] = n]
      BY <2>2 DEF n
    <3>5. QED
      BY <1>3, <3>2, <3>3, <3>4
  <2>3. QED
    BY <1>2, <2>1, <2>2
<1>10. ASSUME NEW t \in Callers, Refuse(t) PROVE AllInherit'
  BY <1>2, <1>10 DEF Refuse
<1>11. CASE PauseMatching \/ ResumeMatching \/ UNCHANGED vars
  BY <1>2, <1>11 DEF PauseMatching, ResumeMatching, vars
<1>12. QED
  BY <1>4, <1>5, <1>6, <1>7, <1>8, <1>9, <1>10, <1>11
     DEF Next, PlacementNext, Placement

\* The notional of a fill whose product does not wrap.
LEMMA NotionalFacts ==
  ASSUME NoneWraps, IInv, AllInherit, Next, NEW t \in Callers, Matches(t)
  PROVE  LET f == Last(fills'[t])
             in == incoming[t]
             p == Maker(t).price_ray
         IN /\ f.vstk_amount \in Nat /\ p \in Nat /\ in.price_ray \in Nat
            /\ in.side \in Sides
            /\ Crosses(in.side, in.price_ray, p)
            /\ f.ait_notional = (f.vstk_amount * p) \div Ray
<1> DEFINE in == incoming[t]
           b == books[in.company_id]
<1>1. PICK best \in DOMAIN b.queues[Opposite(in.side)] :
        /\ in \in OrderRecord /\ in.remaining > 0 /\ Sound(b)
        /\ Crosses(in.side, in.price_ray, best)
        /\ Last(fills'[t]) = FillOf(b, in, best)
        /\ Maker(t) = FrontOrder(b, in, best)
  BY FillFacts
<1> DEFINE mo == FrontOrder(b, in, best)
           qty == TradeQty(b, in, best)
<1>2. /\ mo.order_id \in DOMAIN b.orders /\ mo = b.orders[mo.order_id]
      /\ mo \in OrderRecord /\ mo.price_ray = best
      /\ qty \in Nat /\ qty <= mo.remaining
  BY <1>1, FrontFacts
<1>3. in.company_id \in Companies /\ in.price_ray \in Nat /\ in.side \in Sides
      /\ best \in Nat /\ mo.remaining \in Nat
  BY <1>1, <1>2 DEF OrderRecord, Positive
<1>4. /\ Last(fills'[t]).vstk_amount = qty
      /\ Last(fills'[t]).ait_notional = MulDivRay(qty, best)
  BY <1>1 DEF FillOf
<1> HIDE DEF mo, qty
<1>5. PICK r \in Requests : best = r.price_ray /\ mo.remaining <= r.remaining
  BY <1>2, <1>3 DEF AllInherit, Inherits
<1>6. r.remaining \in Nat /\ r.remaining * best < UintModulus
  BY <1>5, RequestsAssumption DEF NoneWraps, Positive
<1>7. qty * best \in Nat /\ qty * best < UintModulus
  <2>1. qty <= r.remaining
    BY <1>2, <1>3, <1>5, <1>6
  <2>2. best * qty <= best * r.remaining /\ best * qty \in Nat
    BY <1>2, <1>3, <1>6, <2>1, ProductMono
  <2>3. best * qty = qty * best /\ best * r.remaining = r.remaining * best
    BY <1>2, <1>3, <1>6
  <2>4. r.remaining * best \in Nat
    BY <1>3, <1>6
  <2>5. QED
    BY <1>6, <2>2, <2>3, <2>4, ArithmeticAssumption
<1>8. (qty * best) % UintModulus = qty * best
  <2> DEFINE x == qty * best
  <2> HIDE DEF x
  <2>1. x \in Nat /\ x < UintModulus => x % UintModulus = x
    BY ArithmeticAssumption
  <2>2. QED
    BY <1>7, <2>1 DEF x
<1>9. MulDivRay(qty, best) = (qty * best) \div Ray
  BY <1>8 DEF MulDivRay
<1>10. Maker(t).price_ray = best
  BY <1>1, <1>2 DEF mo
<1>11. QED
  BY <1>1, <1>2, <1>3, <1>4, <1>9, <1>10

LEMMA InitInherit == Init => AllInherit
BY DEF Init, AllInherit, EmptyBook, EmptyMap

\* Where no order's own product wraps, a notional is vSTK * price / 1e18.
THEOREM NotionalsAreQuotients ==
  ASSUME NoneWraps
  PROVE  Spec => NotionalIsQuotient
<1> DEFINE Exact ==
      \A t \in Callers : Matches(t) =>
        Last(fills'[t]).ait_notional =
          (Last(fills'[t]).vstk_amount * Maker(t).price_ray) \div Ray
<1>1. IInv /\ AllInherit /\ [Next]_vars => [Exact]_vars
  BY NotionalFacts
<1>2. Init => IInv /\ AllInherit
  BY InitIInv, InitInherit
<1>3. IInv /\ AllInherit /\ [Next]_vars => IInv' /\ AllInherit'
  BY NextIInv, InheritStep
<1>4. QED
  BY <1>1, <1>2, <1>3, PTL DEF Spec, NotionalIsQuotient, Exact

\* A quotient of q * p is between the bounds that the two limit prices set.
LEMMA QuotientWithin ==
  ASSUME NEW q \in Nat, NEW p \in Nat, NEW bid \in Nat, NEW ask \in Nat,
         p <= bid, ask <= p
  PROVE  LET n == (q * p) \div Ray
         IN n * Ray <= q * bid /\ (n + 1) * Ray > q * ask
<1> DEFINE x == q * p
           n == x \div Ray
           lo == q * ask
           hi == q * bid
<1>1. x \in Nat /\ x <= hi /\ lo <= x /\ lo \in Nat /\ hi \in Nat
  BY ProductMono
<1> HIDE DEF x, lo, hi
<1>2. n \in Nat /\ Ray * n <= x /\ x < Ray * n + Ray
  BY <1>1, Quotient, ArithmeticAssumption
<1> HIDE DEF n
<1>3. n * Ray = Ray * n /\ (n + 1) * Ray = Ray * n + Ray /\ Ray * n \in Nat /\ Ray \in Nat
  BY <1>2, ArithmeticAssumption
<1>4. n * Ray <= hi /\ (n + 1) * Ray > lo
  BY <1>1, <1>2, <1>3
<1>5. QED
  BY <1>4 DEF x, n, lo, hi

\* Where no order's own product wraps, neither party of a fill does worse than
\* its limit, to within one unit of rounding (matching.rs:155, matching.rs:317).
THEOREM FillsKeepLimits ==
  ASSUME NoneWraps
  PROVE  Spec => WithinLimits
<1> DEFINE Kept ==
      \A t \in Callers : Matches(t) =>
        LET f == Last(fills'[t])
            in == incoming[t]
            bid == IF in.side = "Buy" THEN in.price_ray ELSE Maker(t).price_ray
            ask == IF in.side = "Buy" THEN Maker(t).price_ray ELSE in.price_ray
        IN /\ f.ait_notional * Ray <= f.vstk_amount * bid
           /\ (f.ait_notional + 1) * Ray > f.vstk_amount * ask
<1>1. IInv /\ AllInherit /\ [Next]_vars => [Kept]_vars
  <2> SUFFICES ASSUME IInv, AllInherit, Next, NEW t \in Callers, Matches(t)
               PROVE  LET f == Last(fills'[t])
                          in == incoming[t]
                          bid == IF in.side = "Buy" THEN in.price_ray
                                                    ELSE Maker(t).price_ray
                          ask == IF in.side = "Buy" THEN Maker(t).price_ray
                                                    ELSE in.price_ray
                      IN /\ f.ait_notional * Ray <= f.vstk_amount * bid
                         /\ (f.ait_notional + 1) * Ray > f.vstk_amount * ask
    OBVIOUS
  <2> DEFINE f == Last(fills'[t])
             in == incoming[t]
             p == Maker(t).price_ray
             bid == IF in.side = "Buy" THEN in.price_ray ELSE p
             ask == IF in.side = "Buy" THEN p ELSE in.price_ray
  <2>1. /\ f.vstk_amount \in Nat /\ p \in Nat /\ in.price_ray \in Nat
        /\ in.side \in Sides
        /\ Crosses(in.side, in.price_ray, p)
        /\ f.ait_notional = (f.vstk_amount * p) \div Ray
    BY NotionalFacts
  <2> HIDE DEF f, in, p
  <2>2. bid \in Nat /\ ask \in Nat /\ p <= bid /\ ask <= p
    BY <2>1 DEF Crosses, NoWorse, Sides
  <2> HIDE DEF bid, ask
  <2>3. f.ait_notional * Ray <= f.vstk_amount * bid
        /\ (f.ait_notional + 1) * Ray > f.vstk_amount * ask
    BY <2>1, <2>2, QuotientWithin
  <2>4. QED
    BY <2>3 DEF f, in, p, bid, ask
<1>2. Init => IInv /\ AllInherit
  BY InitIInv, InitInherit
<1>3. IInv /\ AllInherit /\ [Next]_vars => IInv' /\ AllInherit'
  BY NextIInv, InheritStep
<1>4. QED
  BY <1>1, <1>2, <1>3, PTL DEF Spec, WithinLimits, Kept

-----------------------------------------------------------------------------
(***************************************************************************)
(* The engine refines the price-time market: each of its steps is a step   *)
(* of the market, seen through RestingOrders and TakerOrder, or leaves the *)
(* market alone.                                                           *)
(***************************************************************************)
NothingEmptyWaits ==
  \A t \in Callers : pc[t] = "admitted" => incoming[t].remaining > 0

OrdersOf(b) == {b.orders[id] : id \in DOMAIN b.orders}

LEMMA OrderIsNotNone ==
  ASSUME NEW o \in OrderRecord
  PROVE  o # NoOrder
<1>1. "remaining" \in DOMAIN o
  BY DEF OrderRecord
<1>2. DOMAIN NoOrder = {}
  BY DEF NoOrder, EmptyMap
<1>3. QED
  BY <1>1, <1>2

LEMMA NothingEmptyWaitsStep ==
  IInv /\ NothingEmptyWaits /\ [Next]_vars => NothingEmptyWaits'
<1> SUFFICES ASSUME IInv, NothingEmptyWaits, [Next]_vars
             PROVE  NothingEmptyWaits'
  OBVIOUS
<1>1. CallsTyped
  BY DEF IInv, TypeOK
<1>2. CASE UNCHANGED <<pc, incoming>>
  BY <1>2 DEF NothingEmptyWaits
<1>3. ASSUME NEW t \in Callers, Admit(t) PROVE NothingEmptyWaits'
  <2>1. PICK r \in Requests : incoming' = [incoming EXCEPT ![t] = WithTicket(r, 0)]
    BY <1>3 DEF Admit, Submit
  <2>2. pc' = [pc EXCEPT ![t] = "admitted"]
    BY <1>3 DEF Admit, Submit
  <2>3. incoming'[t].remaining > 0
    <3>1. WithTicket(r, 0).remaining > 0
      BY WithTicketType
    <3>2. incoming'[t] = WithTicket(r, 0)
      BY <1>1, <2>1 DEF CallsTyped
    <3>3. QED
      BY <3>1, <3>2
  <2>4. QED
    BY <1>1, <2>1, <2>2, <2>3 DEF NothingEmptyWaits, CallsTyped
<1>4. ASSUME NEW t \in Callers, \/ Acquire(t) \/ MatchStep(t) \/ Return(t)
      PROVE NothingEmptyWaits'
  <2>1. /\ pc'[t] # "admitted"
        /\ \A u \in Callers : u # t => pc'[u] = pc[u] /\ incoming'[u] = incoming[u]
    BY <1>1, <1>4 DEF Acquire, MatchStep, Return, CallsTyped
  <2>2. QED
    BY <2>1 DEF NothingEmptyWaits
<1>5. ASSUME NEW t \in Callers, Refuse(t) \/ IngestChainOrder(t) \/ IngestCancel(t)
      PROVE  UNCHANGED <<pc, incoming>>
  BY <1>5 DEF Refuse, IngestChainOrder, IngestCancel, CancelResting
<1>6. CASE PauseMatching \/ ResumeMatching \/ UNCHANGED vars
  BY <1>2, <1>6 DEF PauseMatching, ResumeMatching, vars
<1>7. QED
  BY <1>2, <1>3, <1>4, <1>5, <1>6 DEF Next, PlacementNext, Placement

\* The market's resting orders when one book is replaced, or none is.
LEMMA RestingChange ==
  ASSUME BooksTyped, NEW c \in Companies, NEW n, books' = [books EXCEPT ![c] = n]
  PROVE  RestingOrders' = [RestingOrders EXCEPT ![c] = OrdersOf(n)]
<1>1. books'[c] = n /\ \A d \in Companies : d # c => books'[d] = books[d]
  BY DEF BooksTyped
<1>2. \A d \in Companies :
        RestingOrders'[d] = IF d = c THEN OrdersOf(n) ELSE RestingOrders[d]
  BY <1>1 DEF RestingOrders, OrdersOf
<1>3. /\ RestingOrders' = [d \in Companies |-> RestingOrders'[d]]
      /\ RestingOrders = [d \in Companies |-> RestingOrders[d]]
  BY DEF RestingOrders
<1> QED
  BY <1>2, <1>3

LEMMA RestingSame == ASSUME UNCHANGED books PROVE RestingOrders' = RestingOrders
BY DEF RestingOrders

\* Steps of callers that hold no mutex leave the order being matched alone.
LEMMA TakerSame ==
  ASSUME IInv, UNCHANGED lock,
         \A u \in Callers : pc[u] = "matching" => incoming'[u] = incoming[u]
  PROVE  TakerOrder' = TakerOrder
<1>1. ASSUME NEW c \in Companies, lock[c] # NoCaller
      PROVE  incoming'[lock[c]] = incoming[lock[c]]
  <2>1. lock[c] \in Callers
    BY <1>1 DEF IInv, TypeOK, CallsTyped
  <2>2. pc[lock[c]] = "matching"
    BY <2>1 DEF IInv, MutualExclusion
  <2>3. QED
    BY <2>1, <2>2
<1>2. QED
  BY <1>1 DEF TakerOrder

LEMMA TakerFacts ==
  ASSUME IInv, NEW t \in Callers, pc[t] = "matching"
  PROVE  /\ TakerOrder[incoming[t].company_id] = incoming[t]
         /\ incoming[t] # NoOrder
<1>1. /\ incoming[t] \in OrderRecord /\ incoming[t].company_id \in Companies
      /\ lock[incoming[t].company_id] = t
  BY MatchingHolds
<1>2. QED
  BY <1>1, OrderIsNotNone, CallersAssumption DEF TakerOrder

LEMMA FreeFacts ==
  ASSUME NEW c \in Companies, lock[c] = NoCaller
  PROVE  TakerOrder[c] = NoOrder
BY DEF TakerOrder

\* Every resting order is known by its id.
LEMMA OrdersOfFacts ==
  ASSUME NEW b, Sound(b)
  PROVE  /\ \A o \in OrdersOf(b) : /\ o \in OrderRecord
                                   /\ o.order_id \in DOMAIN b.orders
                                   /\ b.orders[o.order_id] = o
                                   /\ o.price_ray \in DOMAIN b.queues[o.side]
         /\ \A id \in DOMAIN b.orders : /\ b.orders[id] \in OrdersOf(b)
                                        /\ b.orders[id].order_id = id
BY DEF OrdersOf, Sound, IsBook, OrdersTyped, Consistent, OrdersQueued

LEMMA AcquireRefines ==
  ASSUME IInv, NothingEmptyWaits, NEW t \in Callers, Acquire(t)
  PROVE  Market!Next
<1> DEFINE c == incoming[t].company_id
           k == arrivals + 1
<1>1. /\ pc[t] = "admitted" /\ lock[c] = NoCaller
      /\ lock' = [lock EXCEPT ![c] = t]
      /\ incoming' = [incoming EXCEPT ![t].ticket = k]
      /\ UNCHANGED books
  BY DEF Acquire
<1>2. /\ CallsTyped /\ HistoryTyped /\ SoundBooks /\ TicketsGiven
      /\ MutualExclusion /\ arrivals \in Nat
  BY BoundAssumption DEF IInv, TypeOK, HistoryTyped
<1>3. incoming[t] \in OrderRecord /\ incoming[t].remaining > 0
  BY <1>1, <1>2 DEF CallsTyped, NothingEmptyWaits
<1>4. c \in Companies
  BY <1>3 DEF OrderRecord
<1>5. /\ incoming'[t] = [incoming[t] EXCEPT !.ticket = k]
      /\ \A u \in Callers : u # t => incoming'[u] = incoming[u]
  BY <1>1, <1>2 DEF CallsTyped
<1>6. /\ incoming'[t] \in OrderRecord /\ incoming'[t].company_id = c
      /\ incoming'[t].remaining > 0 /\ incoming'[t].ticket = k
  BY <1>2, <1>3, <1>5 DEF OrderRecord
<1>7. lock'[c] = t /\ \A d \in Companies : d # c => lock'[d] = lock[d]
  BY <1>1, <1>2, <1>4 DEF CallsTyped
<1>8. TakerOrder[c] = NoOrder /\ TakerOrder'[c] = incoming'[t]
  BY <1>1, <1>4, <1>7, CallersAssumption DEF TakerOrder
<1>9. \A p \in RestingOrders[c] : p.ticket < k
  BY <1>2, <1>4 DEF RestingOrders, TicketsGiven
<1> HIDE DEF c, k
<1>10. TakerOrder' = [TakerOrder EXCEPT ![c] = TakerOrder'[c]]
  <2>1. ASSUME NEW d \in Companies, d # c
        PROVE  TakerOrder'[d] = TakerOrder[d]
    <3>1. lock[d] # NoCaller => lock[d] \in Callers /\ pc[lock[d]] = "matching"
      BY <1>2 DEF CallsTyped, MutualExclusion
    <3>2. lock[d] # NoCaller => incoming'[lock[d]] = incoming[lock[d]]
      BY <1>1, <1>5, <3>1
    <3>3. QED
      BY <1>7, <2>1, <3>2 DEF TakerOrder
  <2>2. /\ TakerOrder' = [d \in Companies |-> TakerOrder'[d]]
        /\ TakerOrder = [d \in Companies |-> TakerOrder[d]]
    BY DEF TakerOrder
  <2>3. QED
    BY <1>4, <2>1, <2>2
<1>11. Market!IsNew(TakerOrder'[c], c)
  BY <1>6, <1>8, <1>9 DEF Market!IsNew
<1>12. Market!Arrive(c)
  BY <1>1, <1>8, <1>10, <1>11, RestingSame DEF Market!Arrive
<1>13. QED
  BY <1>4, <1>12 DEF Market!Next

\* Price and time put the front of the best level first.
LEMMA FrontIsFirst ==
  ASSUME NEW b, Sound(b), NEW in \in OrderRecord, in.remaining > 0,
         NEW best, IsBest(b, Opposite(in.side), best),
         Crosses(in.side, in.price_ray, best),
         \A i, j \in DOMAIN b.orders :
           b.orders[i].ticket = b.orders[j].ticket => i = j
  PROVE  FrontOrder(b, in, best) \in Market!First(in, OrdersOf(b))
<1> DEFINE mo == FrontOrder(b, in, best)
<1>1. best \in DOMAIN b.queues[Opposite(in.side)]
  BY DEF IsBest
<1>2. /\ mo.order_id \in DOMAIN b.orders /\ mo = b.orders[mo.order_id]
      /\ mo \in OrderRecord /\ mo.price_ray = best /\ mo.side = Opposite(in.side)
  BY <1>1, FrontFacts
<1> HIDE DEF mo
<1>3. mo \in OrdersOf(b)
  BY <1>2, OrdersOfFacts
<1>4. in.side \in Sides /\ mo.side \in Sides /\ in.price_ray \in Nat /\ best \in Nat
  BY <1>2 DEF OrderRecord, Positive
<1>5. Market!Acceptable(in, mo)
  BY <1>2, <1>4 DEF Market!Acceptable, Crosses, NoWorse, Opposite, Sides
<1>6. ASSUME NEW p \in OrdersOf(b), Market!Acceptable(in, p), p # mo
      PROVE  Market!Better(mo, p)
  <2>1. /\ p \in OrderRecord /\ p.order_id \in DOMAIN b.orders
        /\ p = b.orders[p.order_id]
    BY OrdersOfFacts
  <2>2. p.side = Opposite(in.side)
    BY <1>4, <1>6, <2>1 DEF Market!Acceptable, Opposite, Sides, OrderRecord
  <2>3. /\ NoWorse(p.side, mo.price_ray, p.price_ray)
        /\ p.price_ray = mo.price_ray => mo.ticket <= p.ticket
    BY <2>1, <2>2, FrontHasPriority DEF mo
  <2>4. mo.ticket # p.ticket
    BY <1>2, <1>6, <2>1
  <2>5. /\ mo.ticket \in Nat /\ p.ticket \in Nat
        /\ mo.price_ray \in Nat /\ p.price_ray \in Nat
    BY <1>2, <2>1 DEF OrderRecord, Positive
  <2>6. QED
    BY <1>2, <2>2, <2>3, <2>4, <2>5 DEF Market!Better, NoWorse
<1>7. QED
  BY <1>3, <1>5, <1>6 DEF Market!First, mo

\* The resting orders after a turn of the loop.
LEMMA OrdersAfterMatch ==
  ASSUME NEW b, Sound(b), NEW in \in OrderRecord, in.remaining > 0,
         NEW best \in DOMAIN b.queues[Opposite(in.side)]
  PROVE  LET mo == FrontOrder(b, in, best)
             left == mo.remaining - TradeQty(b, in, best)
         IN OrdersOf(MatchFront(b, in, best)) =
              (OrdersOf(b) \ {mo})
                \cup {r \in {[mo EXCEPT !.remaining = left]} : r.remaining > 0}
<1> DEFINE mo == FrontOrder(b, in, best)
           left == mo.remaining - TradeQty(b, in, best)
           n == MatchFront(b, in, best)
           front == mo.order_id
           less == [mo EXCEPT !.remaining = left]
<1>1. /\ front \in DOMAIN b.orders /\ mo = b.orders[front]
      /\ mo \in OrderRecord /\ left \in Nat
  <2>1. /\ front \in DOMAIN b.orders /\ mo = b.orders[front] /\ mo \in OrderRecord
        /\ TradeQty(b, in, best) \in Nat /\ TradeQty(b, in, best) <= mo.remaining
    BY FrontFacts
  <2>2. mo.remaining \in Nat
    BY <2>1 DEF OrderRecord
  <2>3. QED
    BY <2>1, <2>2
<1>2. /\ DOMAIN n.orders = IF left = 0 THEN DOMAIN b.orders \ {front} ELSE DOMAIN b.orders
      /\ \A id \in DOMAIN n.orders :
           n.orders[id] = IF id = front THEN less ELSE b.orders[id]
  BY MatchOrders
<1>3. less.remaining = left
  BY <1>1 DEF OrderRecord
<1>4. \A id \in DOMAIN b.orders : b.orders[id] = mo <=> id = front
  BY <1>1, OrdersOfFacts
<1> HIDE DEF mo, left, n, front, less
<1>5. ASSUME NEW o
      PROVE  o \in OrdersOf(n) <=>
               \/ o \in OrdersOf(b) /\ o # mo
               \/ o = less /\ left > 0
  <2>1. CASE left = 0
    BY <1>2, <1>4, <2>1 DEF OrdersOf
  <2>2. CASE left # 0
    <3>1. left > 0 /\ DOMAIN n.orders = DOMAIN b.orders
      BY <1>1, <1>2, <2>2
    <3>2. o \in OrdersOf(n) <=> \E id \in DOMAIN b.orders :
            o = IF id = front THEN less ELSE b.orders[id]
      BY <1>2, <3>1 DEF OrdersOf
    <3>3. QED
      BY <1>1, <1>4, <3>1, <3>2 DEF OrdersOf
  <2>3. QED
    BY <2>1, <2>2
<1>6. OrdersOf(n) = (OrdersOf(b) \ {mo}) \cup {r \in {less} : r.remaining > 0}
  BY <1>3, <1>5
<1>7. QED
  BY <1>6 DEF mo, left, n, less

LEMMA MatchRefines ==
  ASSUME IInv, Accounted, NEW t \in Callers, MatchStep(t)
  PROVE  Market!Next
<1> DEFINE in == incoming[t]
           c == in.company_id
           b == books[c]
<1>1. /\ pc[t] = "matching" /\ in.remaining > 0
      /\ UNCHANGED lock
  BY DEF MatchStep
<1>2. PICK best \in DOMAIN b.queues[Opposite(in.side)] :
        /\ IsBest(b, Opposite(in.side), best)
        /\ Crosses(in.side, in.price_ray, best)
        /\ books' = [books EXCEPT ![c] = MatchFront(b, in, best)]
        /\ incoming' = [incoming EXCEPT ![t].remaining = @ - TradeQty(b, in, best)]
  BY DEF MatchStep
<1>3. /\ in \in OrderRecord /\ c \in Companies /\ in.remaining \in Nat
      /\ lock[c] = t
      /\ \A u \in Callers : u # t /\ pc[u] = "matching" => incoming[u].company_id # c
  BY <1>1, MatchingHolds
<1>4. BooksTyped /\ SoundBooks /\ CallsTyped /\ MutualExclusion /\ RestingOnce
  BY DEF IInv, TypeOK, Accounted
<1>5. Sound(b)
  BY <1>3, <1>4 DEF SoundBooks
<1> DEFINE mo == FrontOrder(b, in, best)
           qty == TradeQty(b, in, best)
           left == mo.remaining - qty
           n == MatchFront(b, in, best)
<1>6. mo \in Market!First(in, OrdersOf(b))
  <2>1. \A i, j \in DOMAIN b.orders :
          b.orders[i].ticket = b.orders[j].ticket => i = j
    BY <1>3, <1>4 DEF RestingOnce
  <2>2. QED
    BY <1>1, <1>2, <1>3, <1>5, <2>1, FrontIsFirst
<1>7. OrdersOf(n) = (OrdersOf(b) \ {mo})
                      \cup {r \in {[mo EXCEPT !.remaining = left]} : r.remaining > 0}
  BY <1>1, <1>3, <1>5, OrdersAfterMatch
<1>8. qty = Market!Least(in.remaining, mo.remaining)
  BY DEF TradeQty, MinU256, Market!Least
<1>9. TakerOrder[c] = in /\ in # NoOrder
  BY <1>1, TakerFacts
<1>10. RestingOrders[c] = OrdersOf(b)
  BY <1>3 DEF RestingOrders, OrdersOf
<1> HIDE DEF n, mo, qty
<1>11. books' = [books EXCEPT ![c] = n]
  BY <1>2 DEF n
<1>12. RestingOrders' = [RestingOrders EXCEPT ![c] = OrdersOf(n)]
  BY <1>3, <1>4, <1>11, RestingChange
<1>13. /\ incoming'[t] = [in EXCEPT !.remaining = in.remaining - qty]
       /\ \A u \in Callers : u # t => incoming'[u] = incoming[u]
  BY <1>2, <1>4 DEF CallsTyped, qty
<1> HIDE DEF in, c, b, left
<1>14. TakerOrder' = [TakerOrder EXCEPT ![c] = [in EXCEPT !.remaining = in.remaining - qty]]
  <2>1. TakerOrder'[c] = [in EXCEPT !.remaining = in.remaining - qty]
    BY <1>1, <1>3, <1>13, CallersAssumption DEF TakerOrder
  <2>2. ASSUME NEW d \in Companies, d # c
        PROVE  TakerOrder'[d] = TakerOrder[d]
    <3>1. lock[d] # NoCaller => lock[d] \in Callers /\ lock[d] # t
      BY <1>3, <1>4, <2>2 DEF CallsTyped, MutualExclusion
    <3>2. lock[d] # NoCaller => incoming'[lock[d]] = incoming[lock[d]]
      BY <1>13, <3>1
    <3>3. QED
      BY <1>1, <3>2 DEF TakerOrder
  <2>3. /\ TakerOrder' = [d \in Companies |-> TakerOrder'[d]]
        /\ TakerOrder = [d \in Companies |-> TakerOrder[d]]
    BY DEF TakerOrder
  <2>4. QED
    BY <1>3, <2>1, <2>2, <2>3
<1>15. TakerOrder' = [TakerOrder EXCEPT ![c].remaining = @ - qty]
  BY <1>9, <1>14
<1>16. RestingOrders' = [RestingOrders EXCEPT ![c] =
         (@ \ {mo}) \cup {r \in {Market!WithRemaining(mo, mo.remaining - qty)} :
                            r.remaining > 0}]
  <2>1. OrdersOf(n) = (RestingOrders[c] \ {mo})
          \cup {r \in {Market!WithRemaining(mo, mo.remaining - qty)} : r.remaining > 0}
    BY <1>7, <1>10 DEF Market!WithRemaining, left
  <2>2. QED
    BY <1>12, <2>1
<1>17. Market!Trade(c)
  <2>1. mo \in Market!First(TakerOrder[c], RestingOrders[c])
    BY <1>6, <1>9, <1>10
  <2>2. qty = Market!Least(TakerOrder[c].remaining, mo.remaining)
    BY <1>8, <1>9
  <2>3. TakerOrder[c] # NoOrder /\ TakerOrder[c].remaining > 0
    BY <1>1, <1>9
  <2>4. QED
    BY <1>15, <1>16, <2>1, <2>2, <2>3 DEF Market!Trade
<1>18. QED
  BY <1>3, <1>17 DEF Market!Next

\* The resting orders after an insertion and after a cancellation.
LEMMA OrdersAfterInsert ==
  ASSUME NEW b, NEW r, CanInsert(b, r)
  PROVE  OrdersOf(InsertLimitOrder(b, r)) = OrdersOf(b) \cup {r}
<1> DEFINE n == InsertLimitOrder(b, r)
<1>1. /\ DOMAIN n.orders = DOMAIN b.orders \cup {r.order_id}
      /\ n.orders[r.order_id] = r
      /\ \A id \in DOMAIN b.orders : n.orders[id] = b.orders[id]
  BY InsertTickets
<1> HIDE DEF n
<1>2. ASSUME NEW o
      PROVE  o \in OrdersOf(n) <=> o \in OrdersOf(b) \/ o = r
  BY <1>1 DEF OrdersOf
<1>3. OrdersOf(n) = OrdersOf(b) \cup {r}
  BY <1>2
<1>4. QED
  BY <1>3 DEF n

LEMMA OrdersAfterCancel ==
  ASSUME NEW b, Sound(b), NEW id \in DOMAIN b.orders
  PROVE  OrdersOf(CancelOrder(b, id)) = OrdersOf(b) \ {b.orders[id]}
<1> DEFINE n == CancelOrder(b, id)
<1>1. /\ DOMAIN n.orders = DOMAIN b.orders \ {id}
      /\ \A i \in DOMAIN n.orders : n.orders[i] = b.orders[i]
  BY DEF CancelOrder, Drop
<1>2. \A i \in DOMAIN b.orders : b.orders[i] = b.orders[id] <=> i = id
  BY OrdersOfFacts
<1> HIDE DEF n
<1>3. ASSUME NEW o
      PROVE  o \in OrdersOf(n) <=> o \in OrdersOf(b) /\ o # b.orders[id]
  BY <1>1, <1>2 DEF OrdersOf
<1>4. OrdersOf(n) = OrdersOf(b) \ {b.orders[id]}
  BY <1>3
<1>5. QED
  BY <1>4 DEF n

LEMMA CanInsertMeans ==
  ASSUME NEW b, Sound(b), NEW r
  PROVE  CanInsert(b, r) <=> \A p \in OrdersOf(b) : p.order_id # r.order_id
BY OrdersOfFacts DEF CanInsert, OrdersOf

LEMMA CannotTradeMeans ==
  ASSUME NEW b, Sound(b), NEW in \in OrderRecord, ~CanTrade(b, in)
  PROVE  in.remaining = 0 \/ \A o \in OrdersOf(b) : ~Market!Acceptable(in, o)
<1>1. CASE in.remaining = 0
  BY <1>1
<1>2. CASE in.remaining # 0
  <2>1. in.remaining > 0 /\ in.side \in Sides
    BY <1>2 DEF OrderRecord
  <2>2. ASSUME NEW o \in OrdersOf(b), Market!Acceptable(in, o)
        PROVE  FALSE
    <3>1. o \in OrderRecord /\ o.price_ray \in DOMAIN b.queues[o.side]
      BY OrdersOfFacts
    <3>2. o.side = Opposite(in.side)
      BY <2>1, <2>2, <3>1 DEF Market!Acceptable, Opposite, Sides, OrderRecord
    <3>3. /\ o.price_ray \in Nat /\ in.price_ray \in Nat
      BY <3>1 DEF OrderRecord, Positive
    <3>4. Crosses(in.side, in.price_ray, o.price_ray)
      BY <2>1, <2>2, <3>3 DEF Market!Acceptable, Crosses, NoWorse, Sides
    <3>5. QED
      BY <2>1, <3>1, <3>2, <3>4 DEF CanTrade
  <2>3. QED
    BY <2>2
<1>3. QED
  BY <1>1, <1>2

LEMMA ReturnRefines ==
  ASSUME IInv, NEW t \in Callers, Return(t)
  PROVE  Market!Next
<1> DEFINE in == incoming[t]
           c == in.company_id
           b == books[c]
<1>1. /\ pc[t] = "matching" /\ ~CanTrade(b, in)
      /\ lock' = [lock EXCEPT ![c] = NoCaller]
      /\ incoming' = [incoming EXCEPT ![t] = EmptyMap]
  BY DEF Return, Release
<1>2. \/ /\ in.remaining = 0
         /\ UNCHANGED books
      \/ /\ in.remaining > 0
         /\ CanInsert(b, in)
         /\ books' = [books EXCEPT ![c] = InsertLimitOrder(b, in)]
      \/ /\ in.remaining > 0
         /\ ~CanInsert(b, in)
         /\ UNCHANGED books
  BY DEF Return
<1>3. /\ in \in OrderRecord /\ c \in Companies /\ lock[c] = t
      /\ \A u \in Callers : u # t /\ pc[u] = "matching" => incoming[u].company_id # c
  BY <1>1, MatchingHolds
<1>4. BooksTyped /\ SoundBooks /\ CallsTyped /\ MutualExclusion
  BY DEF IInv, TypeOK
<1>5. Sound(b)
  BY <1>3, <1>4 DEF SoundBooks
<1>6. TakerOrder[c] = in /\ in # NoOrder
  BY <1>1, TakerFacts
<1>7. RestingOrders[c] = OrdersOf(b)
  BY <1>3 DEF RestingOrders, OrdersOf
<1>8. in.remaining = 0 \/ \A o \in OrdersOf(b) : ~Market!Acceptable(in, o)
  BY <1>1, <1>3, <1>5, CannotTradeMeans
<1>9. CanInsert(b, in) <=> \A p \in OrdersOf(b) : p.order_id # in.order_id
  BY <1>5, CanInsertMeans
<1> DEFINE added == {o \in {in} : /\ o.remaining > 0
                                  /\ \A p \in OrdersOf(b) : p.order_id # o.order_id}
<1>10. RestingOrders' = [RestingOrders EXCEPT ![c] = OrdersOf(b) \cup added]
  <2>1. CASE /\ in.remaining > 0
             /\ CanInsert(b, in)
             /\ books' = [books EXCEPT ![c] = InsertLimitOrder(b, in)]
    <3> DEFINE n == InsertLimitOrder(b, in)
    <3>1. OrdersOf(n) = OrdersOf(b) \cup {in}
      BY <2>1, OrdersAfterInsert
    <3>2. added = {in}
      BY <1>9, <2>1
    <3> HIDE DEF n, added
    <3>3. RestingOrders' = [RestingOrders EXCEPT ![c] = OrdersOf(n)]
      BY <1>3, <1>4, <2>1, RestingChange DEF n
    <3>4. QED
      BY <3>1, <3>2, <3>3
  <2>2. CASE UNCHANGED books /\ (in.remaining = 0 \/ ~CanInsert(b, in))
    <3>1. added = {}
      BY <1>9, <2>2
    <3>2. RestingOrders' = RestingOrders
      BY <2>2, RestingSame
    <3>3. RestingOrders = [d \in Companies |-> RestingOrders[d]]
      BY DEF RestingOrders
    <3> HIDE DEF added
    <3>4. QED
      BY <1>7, <3>1, <3>2, <3>3
  <2>3. QED
    BY <1>2, <2>1, <2>2
<1> HIDE DEF b, c, in, added
<1>11. /\ \A u \in Callers : u # t => incoming'[u] = incoming[u]
       /\ lock'[c] = NoCaller
       /\ \A d \in Companies : d # c => lock'[d] = lock[d]
  BY <1>1, <1>3, <1>4 DEF CallsTyped
<1>12. TakerOrder' = [TakerOrder EXCEPT ![c] = NoOrder]
  <2>1. TakerOrder'[c] = NoOrder
    BY <1>3, <1>11 DEF TakerOrder
  <2>2. ASSUME NEW d \in Companies, d # c
        PROVE  TakerOrder'[d] = TakerOrder[d]
    <3>1. lock[d] # NoCaller => lock[d] \in Callers /\ lock[d] # t
      BY <1>3, <1>4, <2>2 DEF CallsTyped, MutualExclusion, c, in
    <3>2. lock[d] # NoCaller => incoming'[lock[d]] = incoming[lock[d]]
      BY <1>11, <3>1
    <3>3. QED
      BY <1>11, <2>2, <3>2 DEF TakerOrder
  <2>3. /\ TakerOrder' = [d \in Companies |-> TakerOrder'[d]]
        /\ TakerOrder = [d \in Companies |-> TakerOrder[d]]
    BY DEF TakerOrder
  <2>4. QED
    BY <1>3, <2>1, <2>2, <2>3
<1>13. Market!Rest(c)
  <2>1. RestingOrders' = [RestingOrders EXCEPT ![c] = @ \cup
          {o \in {TakerOrder[c]} : /\ o.remaining > 0
                                   /\ \A p \in RestingOrders[c] :
                                        p.order_id # o.order_id}]
    BY <1>6, <1>7, <1>10 DEF added
  <2>2. \/ TakerOrder[c].remaining = 0
        \/ \A o \in RestingOrders[c] : ~Market!Acceptable(TakerOrder[c], o)
    BY <1>6, <1>7, <1>8
  <2>3. QED
    BY <1>6, <1>12, <2>1, <2>2 DEF Market!Rest
<1>14. QED
  BY <1>3, <1>13 DEF Market!Next

LEMMA IngestRefines ==
  ASSUME IInv, NEW t \in Callers, IngestChainOrder(t)
  PROVE  Market!Next \/ UNCHANGED Market!vars
<1>1. PICK r \in Requests :
        /\ lock[r.company_id] = NoCaller
        /\ \/ /\ CanInsert(books[r.company_id], WithTicket(r, arrivals + 1))
              /\ books' = [books EXCEPT ![r.company_id] =
                             InsertLimitOrder(@, WithTicket(r, arrivals + 1))]
           \/ UNCHANGED books
        /\ UNCHANGED <<lock, incoming>>
  BY DEF IngestChainOrder
<1> DEFINE c == r.company_id
           o == WithTicket(r, arrivals + 1)
<1>2. /\ BooksTyped /\ SoundBooks /\ TicketsGiven /\ arrivals \in Nat
  BY BoundAssumption DEF IInv, TypeOK, HistoryTyped
<1>3. /\ o \in OrderRecord /\ o.ticket = arrivals + 1 /\ o.remaining > 0
      /\ o.company_id = c /\ c \in Companies
  BY <1>2, WithTicketType
<1>4. TakerOrder' = TakerOrder
  BY <1>1, TakerSame
<1>5. CASE UNCHANGED books
  BY <1>4, <1>5, RestingSame DEF Market!vars
<1>6. CASE /\ CanInsert(books[c], o)
           /\ books' = [books EXCEPT ![c] = InsertLimitOrder(books[c], o)]
  <2> DEFINE n == InsertLimitOrder(books[c], o)
  <2>1. OrdersOf(n) = OrdersOf(books[c]) \cup {o}
    BY <1>6, OrdersAfterInsert
  <2>2. \A p \in OrdersOf(books[c]) : p.order_id # o.order_id
    BY <1>2, <1>3, <1>6, CanInsertMeans DEF SoundBooks
  <2>3. RestingOrders[c] = OrdersOf(books[c])
    BY <1>3 DEF RestingOrders, OrdersOf
  <2>4. \A p \in OrdersOf(books[c]) : p.ticket < o.ticket
    BY <1>2, <1>3 DEF TicketsGiven, OrdersOf
  <2> HIDE DEF n, o
  <2>5. RestingOrders' = [RestingOrders EXCEPT ![c] = OrdersOf(n)]
    BY <1>2, <1>3, <1>6, RestingChange DEF n
  <2> HIDE DEF c
  <2>6. RestingOrders' = [RestingOrders EXCEPT ![c] = @ \cup {o}]
    BY <2>1, <2>3, <2>5
  <2>7. o \in RestingOrders'[c]
    BY <1>3, <2>1, <2>5 DEF RestingOrders
  <2>8. Market!IsNew(o, c)
    BY <1>3, <2>3, <2>4 DEF Market!IsNew
  <2>9. TakerOrder[c] = NoOrder
    BY <1>1, <1>3, FreeFacts DEF c
  <2>10. Market!Post(c)
    BY <1>4, <2>2, <2>3, <2>6, <2>7, <2>8, <2>9 DEF Market!Post
  <2>11. QED
    BY <1>3, <2>10 DEF Market!Next
<1>7. QED
  BY <1>1, <1>5, <1>6

LEMMA CancelRefines ==
  ASSUME IInv, NEW t \in Callers, IngestCancel(t)
  PROVE  Market!Next \/ UNCHANGED Market!vars
<1>1. PICK c \in Companies, id \in OrderIds :
        /\ lock[c] = NoCaller
        /\ \/ /\ id \in DOMAIN books[c].orders
              /\ books' = [books EXCEPT ![c] = CancelOrder(@, id)]
           \/ UNCHANGED books
        /\ UNCHANGED <<lock, incoming>>
  BY DEF IngestCancel, CancelResting
<1>2. BooksTyped /\ Sound(books[c])
  BY DEF IInv, TypeOK, SoundBooks
<1>3. TakerOrder' = TakerOrder
  BY <1>1, TakerSame
<1>4. CASE UNCHANGED books
  BY <1>3, <1>4, RestingSame DEF Market!vars
<1>5. CASE /\ id \in DOMAIN books[c].orders
           /\ books' = [books EXCEPT ![c] = CancelOrder(books[c], id)]
  <2> DEFINE n == CancelOrder(books[c], id)
             o == books[c].orders[id]
  <2>1. OrdersOf(n) = OrdersOf(books[c]) \ {o}
    BY <1>2, <1>5, OrdersAfterCancel
  <2>2. RestingOrders[c] = OrdersOf(books[c]) /\ o \in OrdersOf(books[c])
    BY <1>5 DEF RestingOrders, OrdersOf
  <2> HIDE DEF n, o
  <2>3. RestingOrders' = [RestingOrders EXCEPT ![c] = OrdersOf(n)]
    BY <1>2, <1>5, RestingChange DEF n
  <2>4. RestingOrders' = [RestingOrders EXCEPT ![c] = @ \ {o}]
    BY <2>1, <2>2, <2>3
  <2>5. Market!Cancel(c)
    BY <1>1, <1>3, <2>2, <2>4, FreeFacts DEF Market!Cancel
  <2>6. QED
    BY <2>5 DEF Market!Next
<1>6. QED
  BY <1>1, <1>4, <1>5

LEMMA NextRefines ==
  IInv /\ Accounted /\ NothingEmptyWaits /\ [Next]_vars
    => [Market!Next]_(Market!vars)
<1> SUFFICES ASSUME IInv, Accounted, NothingEmptyWaits, [Next]_vars
             PROVE  Market!Next \/ UNCHANGED Market!vars
  OBVIOUS
<1>1. ASSUME UNCHANGED <<books, lock>>,
             \A u \in Callers : pc[u] = "matching" => incoming'[u] = incoming[u]
      PROVE  UNCHANGED Market!vars
  BY <1>1, RestingSame, TakerSame DEF Market!vars
<1>2. ASSUME NEW t \in Callers, Refuse(t) PROVE UNCHANGED Market!vars
  BY <1>1, <1>2 DEF Refuse
<1>3. ASSUME NEW t \in Callers, Admit(t) PROVE UNCHANGED Market!vars
  <2>1. /\ pc[t] = "idle" /\ UNCHANGED <<books, lock>>
        /\ \A u \in Callers : u # t => incoming'[u] = incoming[u]
    BY <1>3 DEF Admit, Submit, IInv, TypeOK, CallsTyped
  <2>2. QED
    BY <1>1, <2>1
<1>4. ASSUME NEW t \in Callers, Acquire(t) PROVE Market!Next
  BY <1>4, AcquireRefines
<1>5. ASSUME NEW t \in Callers, MatchStep(t) PROVE Market!Next
  BY <1>5, MatchRefines
<1>6. ASSUME NEW t \in Callers, Return(t) PROVE Market!Next
  BY <1>6, ReturnRefines
<1>7. ASSUME NEW t \in Callers, IngestChainOrder(t) \/ IngestCancel(t)
      PROVE  Market!Next \/ UNCHANGED Market!vars
  BY <1>7, IngestRefines, CancelRefines
<1>8. CASE PauseMatching \/ ResumeMatching \/ UNCHANGED vars
  BY <1>1, <1>8 DEF PauseMatching, ResumeMatching, vars
<1>9. QED
  BY <1>2, <1>3, <1>4, <1>5, <1>6, <1>7, <1>8
     DEF Next, PlacementNext, Placement

LEMMA InitRefines == Init => Market!Init
<1> SUFFICES ASSUME Init
             PROVE  Market!Init
  OBVIOUS
<1>1. \A c \in Companies : DOMAIN books[c].orders = {}
  BY DEF Init, EmptyBook, EmptyMap
<1>2. RestingOrders = [c \in Companies |-> {}]
  BY <1>1 DEF RestingOrders
<1>3. TakerOrder = [c \in Companies |-> NoOrder]
  BY DEF Init, TakerOrder
<1>4. QED
  BY <1>2, <1>3 DEF Market!Init

\* The engine implements the abstract price-time market, for any number of
\* companies, callers and orders (matching.rs:1): every step of every caller is
\* a step of the market or leaves it alone.  That a match is carried to its end
\* is left to ImplementsMarket.
THEOREM RefinesMarket == Spec => Market!Safety
<1>1. Init => IInv /\ Accounted /\ NothingEmptyWaits
  BY InitIInv, InitAccounted DEF Init, NothingEmptyWaits
<1>2. IInv /\ Accounted /\ NothingEmptyWaits /\ [Next]_vars
        => IInv' /\ Accounted' /\ NothingEmptyWaits'
  BY NextIInv, NextAccounted, NothingEmptyWaitsStep
<1>3. QED
  BY <1>1, <1>2, InitRefines, NextRefines, PTL DEF Spec, Market!Safety
=============================================================================
