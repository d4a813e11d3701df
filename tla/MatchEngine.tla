----------------------------- MODULE MatchEngine -----------------------------
(***************************************************************************)
(* MatchEngine of engine/src/matching.rs under concurrent callers: one     *)
(* book per company behind a mutex, and one atomic pause flag that         *)
(* limit_order_placement reads before it takes the mutex.                  *)
(*                                                                         *)
(* A placement is therefore several steps: the pause check, the lock, one  *)
(* step per turn of the matching loop, the insertion of the remainder with *)
(* the return.  ingest_chain_order and ingest_cancel do all their work     *)
(* under the lock and are one step each.                                   *)
(*                                                                         *)
(* arrivals, size, traded and gone are history: they number the orders in  *)
(* the order in which they took the mutex and follow what became of each   *)
(* order's quantity.  No guard reads them but the bound MaxArrivals.       *)
(***************************************************************************)
EXTENDS OrderBook, Sums

CONSTANTS
  Callers,       \* threads that hold a clone of the engine
  NoCaller,      \* the holder of a free mutex
  Requests,      \* the orders that callers may submit
  MaxArrivals    \* bound on the orders ever submitted

ASSUME RequestsAssumption ==
  Requests \subseteq [order_id: OrderIds, company_id: Companies, maker: Makers,
                      side: Sides, price_ray: Positive, remaining: Positive]
ASSUME CallersAssumption == NoCaller \notin Callers
ASSUME BoundAssumption == MaxArrivals \in Nat

VARIABLES
  books,            \* company -> book
  matching_paused,  \* the AtomicBool
  lock,             \* company -> the caller that holds the book's mutex
  pc,               \* caller -> where its limit_order_placement stands
  incoming,         \* caller -> the `incoming` order of its placement
  fills,            \* caller -> the `fills` vector of its placement
  outcome,          \* caller -> what its last call returned
  arrivals,         \* number of tickets given out
  size,             \* ticket -> quantity the order came with
  traded,           \* ticket -> quantity matched so far
  gone              \* tickets cancelled, or rejected as duplicates

historyVars == <<arrivals, size, traded, gone>>
vars == <<books, matching_paused, lock, pc, incoming, fills, outcome,
          arrivals, size, traded, gone>>

Tickets == 1..MaxArrivals
Outcomes == {"None", "Ok", "MatchingPaused", "DuplicateOrderId", "UnknownOrder"}

WithTicket(r, k) ==
  [order_id |-> r.order_id, company_id |-> r.company_id, maker |-> r.maker,
   side |-> r.side, price_ray |-> r.price_ray, remaining |-> r.remaining,
   ticket |-> k]

\* Orders submitted or about to take the mutex stay within the bound.
Budget ==
  arrivals + Cardinality({t \in Callers : pc[t] = "admitted"}) < MaxArrivals

Init ==
  /\ books = [c \in Companies |-> EmptyBook]
  /\ matching_paused = FALSE
  /\ lock = [c \in Companies |-> NoCaller]
  /\ pc = [t \in Callers |-> "idle"]
  /\ incoming = [t \in Callers |-> EmptyMap]
  /\ fills = [t \in Callers |-> <<>>]
  /\ outcome = [t \in Callers |-> "None"]
  /\ arrivals = 0
  /\ size = [k \in Tickets |-> 0]
  /\ traded = [k \in Tickets |-> 0]
  /\ gone = {}

-----------------------------------------------------------------------------
\* limit_order_placement reads the pause flag before anything else.
Refuse(t) ==
  /\ pc[t] = "idle"
  /\ matching_paused
  /\ outcome' = [outcome EXCEPT ![t] = "MatchingPaused"]
  /\ fills' = [fills EXCEPT ![t] = <<>>]
  /\ UNCHANGED <<books, matching_paused, lock, pc, incoming, historyVars>>

Submit(t, r) ==
  /\ pc[t] = "idle"
  /\ ~matching_paused
  /\ Budget
  /\ incoming' = [incoming EXCEPT ![t] = WithTicket(r, 0)]
  /\ pc' = [pc EXCEPT ![t] = "admitted"]
  /\ fills' = [fills EXCEPT ![t] = <<>>]
  /\ outcome' = [outcome EXCEPT ![t] = "None"]
  /\ UNCHANGED <<books, matching_paused, lock, historyVars>>

Admit(t) == \E r \in Requests : Submit(t, r)

\* The caller takes the book's mutex; the flag is not read again.
Acquire(t) ==
  LET c == incoming[t].company_id IN
  /\ pc[t] = "admitted"
  /\ lock[c] = NoCaller
  /\ arrivals < MaxArrivals
  /\ lock' = [lock EXCEPT ![c] = t]
  /\ pc' = [pc EXCEPT ![t] = "matching"]
  /\ arrivals' = arrivals + 1
  /\ incoming' = [incoming EXCEPT ![t].ticket = arrivals']
  /\ size' = [size EXCEPT ![arrivals'] = incoming[t].remaining]
  /\ UNCHANGED <<books, matching_paused, fills, outcome, traded, gone>>

\* One turn of the matching loop, at the head of the best opposite level.
MatchStep(t) ==
  LET in == incoming[t]
      c == in.company_id
      b == books[c]
  IN /\ pc[t] = "matching"
     /\ in.remaining > 0
     /\ \E best \in DOMAIN b.queues[Opposite(in.side)] :
          LET qty == TradeQty(b, in, best)
              k == FrontOrder(b, in, best).ticket
          IN /\ IsBest(b, Opposite(in.side), best)
             /\ Crosses(in.side, in.price_ray, best)
             /\ books' = [books EXCEPT ![c] = MatchFront(b, in, best)]
             /\ incoming' = [incoming EXCEPT ![t].remaining = @ - qty]
             /\ fills' = [fills EXCEPT ![t] = Append(@, FillOf(b, in, best))]
             /\ traded' = [traded EXCEPT ![k] = @ + qty, ![in.ticket] = @ + qty]
     /\ UNCHANGED <<matching_paused, lock, pc, outcome, arrivals, size, gone>>

Mutant_HoldsOn(c) == lock

\* The guard of the book's mutex is dropped.
Release(c) == [lock EXCEPT ![c] = NoCaller]

\* The loop is over: the remainder rests, or the call fails on a duplicate id
\* and the fills already made are dropped with the vector.
Return(t) ==
  LET in == incoming[t]
      c == in.company_id
  IN /\ pc[t] = "matching"
     /\ ~CanTrade(books[c], in)
     /\ \/ /\ in.remaining = 0
           /\ outcome' = [outcome EXCEPT ![t] = "Ok"]
           /\ UNCHANGED <<books, fills, gone>>
        \/ /\ in.remaining > 0
           /\ CanInsert(books[c], in)
           /\ books' = [books EXCEPT ![c] = InsertLimitOrder(@, in)]
           /\ outcome' = [outcome EXCEPT ![t] = "Ok"]
           /\ UNCHANGED <<fills, gone>>
        \/ /\ in.remaining > 0
           /\ ~CanInsert(books[c], in)
           /\ outcome' = [outcome EXCEPT ![t] = "DuplicateOrderId"]
           /\ fills' = [fills EXCEPT ![t] = <<>>]
           /\ gone' = gone \cup {in.ticket}
           /\ UNCHANGED books
     /\ lock' = Release(c)
     /\ pc' = [pc EXCEPT ![t] = "idle"]
     /\ incoming' = [incoming EXCEPT ![t] = EmptyMap]
     /\ UNCHANGED <<matching_paused, arrivals, size, traded>>

\* ingest_chain_order: insertion without matching.
IngestChainOrder(t) ==
  \E r \in Requests :
    LET c == r.company_id
        o == WithTicket(r, arrivals + 1)
    IN /\ pc[t] = "idle"
       /\ lock[c] = NoCaller
       /\ Budget
       /\ arrivals < MaxArrivals
       /\ arrivals' = arrivals + 1
       /\ size' = [size EXCEPT ![arrivals'] = r.remaining]
       /\ fills' = [fills EXCEPT ![t] = <<>>]
       /\ \/ /\ CanInsert(books[c], o)
             /\ books' = [books EXCEPT ![c] = InsertLimitOrder(@, o)]
             /\ outcome' = [outcome EXCEPT ![t] = "Ok"]
             /\ UNCHANGED gone
          \/ /\ ~CanInsert(books[c], o)
             /\ outcome' = [outcome EXCEPT ![t] = "DuplicateOrderId"]
             /\ gone' = gone \cup {arrivals'}
             /\ UNCHANGED books
       /\ UNCHANGED <<matching_paused, lock, pc, incoming, traded>>

CancelResting(t, c, id) ==
  /\ pc[t] = "idle"
  /\ lock[c] = NoCaller
  /\ fills' = [fills EXCEPT ![t] = <<>>]
  /\ \/ /\ id \in DOMAIN books[c].orders
        /\ books' = [books EXCEPT ![c] = CancelOrder(@, id)]
        /\ gone' = gone \cup {books[c].orders[id].ticket}
        /\ outcome' = [outcome EXCEPT ![t] = "Ok"]
     \/ /\ id \notin DOMAIN books[c].orders
        /\ outcome' = [outcome EXCEPT ![t] = "UnknownOrder"]
        /\ UNCHANGED <<books, gone>>
  /\ UNCHANGED <<matching_paused, lock, pc, incoming, arrivals, size, traded>>

IngestCancel(t) == \E c \in Companies, id \in OrderIds : CancelResting(t, c, id)

PauseMatching ==
  /\ matching_paused' = TRUE
  /\ UNCHANGED <<books, lock, pc, incoming, fills, outcome, historyVars>>

ResumeMatching ==
  /\ matching_paused' = FALSE
  /\ UNCHANGED <<books, lock, pc, incoming, fills, outcome, historyVars>>

-----------------------------------------------------------------------------
Placement(t) ==
  Refuse(t) \/ Admit(t) \/ Acquire(t) \/ MatchStep(t) \/ Return(t)

\* What the daemon and the tests of concurrent placement do.
PlacementNext ==
  \/ \E t \in Callers : Placement(t) \/ IngestCancel(t)
  \/ PauseMatching
  \/ ResumeMatching

Next == PlacementNext \/ \E t \in Callers : IngestChainOrder(t)

\* A thread that can run is run.  Nothing is assumed of the order in which
\* waiters get the mutex: with MaxArrivals placements it becomes free for good.
Fairness ==
  \A t \in Callers : /\ WF_vars(Acquire(t))
                     /\ WF_vars(MatchStep(t))
                     /\ WF_vars(Return(t))

Spec == Init /\ [][Next]_vars /\ Fairness
PlacementSpec == Init /\ [][PlacementNext]_vars /\ Fairness

-----------------------------------------------------------------------------
BooksTyped ==
  /\ books = [c \in Companies |-> books[c]]
  /\ \A c \in Companies : IsBook(books[c])

CallsTyped ==
  /\ matching_paused \in BOOLEAN
  /\ lock \in [Companies -> Callers \cup {NoCaller}]
  /\ pc \in [Callers -> {"idle", "admitted", "matching"}]
  /\ incoming = [t \in Callers |-> incoming[t]]
  /\ \A t \in Callers : pc[t] # "idle" => incoming[t] \in OrderRecord
  /\ fills \in [Callers -> Seq(Fill)]
  /\ outcome \in [Callers -> Outcomes]

HistoryTyped ==
  /\ arrivals \in 0..MaxArrivals
  /\ size \in [Tickets -> Nat]
  /\ traded \in [Tickets -> Nat]
  /\ gone \subseteq Tickets

\* Type invariant of the engine, its callers and the history.
TypeOK == BooksTyped /\ CallsTyped /\ HistoryTyped

\* The book that a caller sees whenever it takes the mutex, and at every turn
\* of its loop, is consistent and ordered by time (orderbook.rs, matching.rs):
\* the `expect("order")` and `expect("level")` of the loop cannot panic.
BooksConsistent == \A c \in Companies : Consistent(books[c])
QueuesInTimeOrder == \A c \in Companies : InTimeOrder(books[c])

\* A mutex has one holder, and its holder is matching in that company.
MutualExclusion ==
  \A c \in Companies, t \in Callers :
    lock[c] = t <=> pc[t] = "matching" /\ incoming[t].company_id = c

\* When orders come only through limit_order_placement, as in the daemon, no
\* resting bid meets a resting ask, at any turn of any placement.
Uncrossed ==
  \A c \in Companies :
    \A p \in DOMAIN books[c].queues["Buy"], q \in DOMAIN books[c].queues["Sell"] :
      p < q

\* The orders maps, without the queues that index them.
RestingOrders ==
  [c \in Companies |-> {books[c].orders[id] : id \in DOMAIN books[c].orders}]

\* The open remainder of ticket k: on a book, or with the caller matching it.
Holders(k) ==
  (UNION {{o \in RestingOrders[c] : o.ticket = k} : c \in Companies})
    \cup {incoming[t] : t \in {u \in Callers : /\ pc[u] = "matching"
                                              /\ incoming[u].ticket = k
                                              /\ incoming[u].remaining > 0}}

\* No quantity is created or lost by matching: an order is matched for no more
\* than it came with, and while it is matched for less, exactly the difference
\* is open in exactly one place, unless it was cancelled or rejected.
QuantityConserved ==
  \A k \in 1..arrivals :
    /\ traded[k] <= size[k]
    /\ IF k \in gone \/ traded[k] = size[k]
       THEN Holders(k) = {}
       ELSE \E o \in Holders(k) : /\ Holders(k) = {o}
                                 /\ traded[k] + o.remaining = size[k]

\* What the fills of t's placement add up to.
Filled(t) ==
  SumTo([i \in DOMAIN fills[t] |-> fills[t][i].vstk_amount], Len(fills[t]))

\* The `fills` of a running placement account for every unit that its order
\* has been matched for.
FillsAddUp ==
  \A t \in Callers : pc[t] = "matching" => Filled(t) = traded[incoming[t].ticket]

-----------------------------------------------------------------------------
\* A step of t that matches, and the resting order it matches against.
Matches(t) == pc[t] = "matching" /\ Len(fills'[t]) = Len(fills[t]) + 1
Maker(t) ==
  books[incoming[t].company_id].orders[Last(fills'[t]).maker_order_id]

\* Price-time priority (matching.rs:1): a fill takes the resting order of the
\* opposite side with the best price, and among those the earliest.
PriceTimePriority ==
  [][\A t \in Callers : Matches(t) =>
       LET b == books[incoming[t].company_id] IN
       \A id \in DOMAIN b.orders :
         LET o == b.orders[id] IN
         o.side = Opposite(incoming[t].side) =>
           /\ NoWorse(o.side, Maker(t).price_ray, o.price_ray)
           /\ o.price_ray = Maker(t).price_ray => Maker(t).ticket <= o.ticket
    ]_vars

\* Neither party of a fill does worse than its limit: the buyer pays at most
\* its limit price for what it gets, the seller gets at least its limit price
\* for what it gives, to within one unit of rounding.
WithinLimits ==
  [][\A t \in Callers : Matches(t) =>
       LET f == Last(fills'[t])
           in == incoming[t]
           bid == IF in.side = "Buy" THEN in.price_ray ELSE Maker(t).price_ray
           ask == IF in.side = "Buy" THEN Maker(t).price_ray ELSE in.price_ray
       IN /\ f.ait_notional * Ray <= f.vstk_amount * bid
          /\ (f.ait_notional + 1) * Ray > f.vstk_amount * ask
    ]_vars

\* A placement that passed the pause check returns: every turn of the loop makes
\* progress, and the mutex is released.
CallsReturn == \A t \in Callers : pc[t] = "admitted" ~> pc[t] = "idle"

\* matching.rs:313 says that a notional is vSTK * price_ray / 1e18.
NotionalIsQuotient ==
  [][\A t \in Callers : Matches(t) =>
       Last(fills'[t]).ait_notional =
         (Last(fills'[t]).vstk_amount * Maker(t).price_ray) \div Ray]_vars

-----------------------------------------------------------------------------
\* The engine as the abstract market sees it: its resting orders, and the order
\* of the caller that holds the mutex.
NoOrder == EmptyMap
TakerOrder ==
  [c \in Companies |->
     IF lock[c] = NoCaller THEN NoOrder ELSE incoming[lock[c]]]

Market ==
  INSTANCE PriceTimeMarket
    WITH Orders <- OrderRecord, resting <- RestingOrders, taker <- TakerOrder

\* The engine implements the abstract price-time market, liveness included: an
\* order that is being matched is matched to the end.
ImplementsMarket == Market!Spec
=============================================================================
