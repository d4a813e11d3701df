------------------------------ MODULE OrderBook ------------------------------
(***************************************************************************)
(* One company's central limit order book and the inner step of matching,  *)
(* as operators on a book value: engine/src/orderbook.rs and the two       *)
(* symmetric functions match_buy and match_sell of engine/src/matching.rs. *)
(*                                                                         *)
(* A BTreeMap or HashMap is a function whose domain is its key set, so an  *)
(* empty price level differs from an absent one, as in the code.  bids and *)
(* asks are queues["Buy"] and queues["Sell"]; match_buy and match_sell     *)
(* differ only in the side they read and in the direction of the price     *)
(* comparison, which is what Opposite, Crosses and IsBest capture.         *)
(***************************************************************************)
EXTENDS Integers, SequencesExt

CONSTANTS
  Companies,     \* company ids, the shards of MatchEngine
  OrderIds,      \* order ids the chain can emit
  Makers,        \* trader addresses
  Ray,           \* fixed-point unit of a price (10^18 in the code)
  UintModulus    \* 2^256: U256 multiplication wraps at this value

ASSUME ArithmeticAssumption ==
  /\ Ray \in Nat \ {0}
  /\ UintModulus \in Nat \ {0}

Sides == {"Buy", "Sell"}
Opposite(side) == IF side = "Buy" THEN "Sell" ELSE "Buy"

Positive == Nat \ {0}

\* `ticket` is a history field: the position of the order in the sequence in
\* which the orders entered the engine.  No guard and no update reads it.
OrderRecord ==
  [order_id: OrderIds, company_id: Companies, maker: Makers, side: Sides,
   price_ray: Positive, remaining: Nat, ticket: Nat]

Fill ==
  [company_id: Companies, maker_order_id: OrderIds, taker_order_id: OrderIds,
   buyer: Makers, seller: Makers, vstk_amount: Nat, ait_notional: Nat]

-----------------------------------------------------------------------------
Put(f, k, v) == [x \in DOMAIN f \cup {k} |-> IF x = k THEN v ELSE f[x]]
Drop(f, k) == [x \in DOMAIN f \ {k} |-> f[x]]

EmptyMap == [k \in {} |-> k]
EmptyBook == [queues |-> [side \in Sides |-> EmptyMap], orders |-> EmptyMap]

Level(b, side, price) ==
  IF price \in DOMAIN b.queues[side] THEN b.queues[side][price] ELSE <<>>

Mutant_KeepsEmptyLevel(b, side, price, q) ==
  [b.queues EXCEPT ![side] = Put(@, price, q)]

\* The price levels with the level of `price` replaced by q; an empty level
\* leaves the map.
WithLevel(b, side, price, q) ==
  [b.queues EXCEPT ![side] =
     IF q = <<>> THEN Drop(@, price) ELSE Put(@, price, q)]

-----------------------------------------------------------------------------
\* insert_limit_order fails with DuplicateOrderId exactly when this is false.
CanInsert(b, r) == r.order_id \notin DOMAIN b.orders

Mutant_PushFront(b, r) ==
  [queues |-> WithLevel(b, r.side, r.price_ray,
                        <<r.order_id>> \o Level(b, r.side, r.price_ray)),
   orders |-> Put(b.orders, r.order_id, r)]

InsertLimitOrder(b, r) ==
  [queues |-> WithLevel(b, r.side, r.price_ray,
                        Append(Level(b, r.side, r.price_ray), r.order_id)),
   orders |-> Put(b.orders, r.order_id, r)]

\* cancel_order fails with UnknownOrder when id is not in DOMAIN b.orders.
CancelOrder(b, id) ==
  LET o == b.orders[id]
      q == Level(b, o.side, o.price_ray)
      at == {i \in 1..Len(q) : q[i] = id}
  IN [queues |-> WithLevel(b, o.side, o.price_ray,
                           IF at = {} THEN q
                                      ELSE RemoveAt(q, CHOOSE i \in at : TRUE)),
      orders |-> Drop(b.orders, id)]

-----------------------------------------------------------------------------
\* A resting order at price p on `side` is reached no later than one at q.
NoWorse(side, p, q) == IF side = "Buy" THEN p >= q ELSE p <= q

Mutant_AnyLevel(b, side, p) == p \in DOMAIN b.queues[side]

\* best_ask, best_bid: the first key of the side's map.
IsBest(b, side, p) ==
  /\ p \in DOMAIN b.queues[side]
  /\ \A q \in DOMAIN b.queues[side] : NoWorse(side, p, q)

Mutant_StrictCross(side, limit, best) ==
  NoWorse(side, limit, best) /\ limit # best
Mutant_MarketOrder(side, limit, best) == TRUE

\* An incoming order of `side` with limit price `limit` trades at `best`.
Crosses(side, limit, best) == NoWorse(side, limit, best)

CanTrade(b, in) ==
  /\ in.remaining > 0
  /\ \E p \in DOMAIN b.queues[Opposite(in.side)] :
        Crosses(in.side, in.price_ray, p)

MinU256(a, b) == IF a < b THEN a ELSE b

\* vSTK * price_ray / 1e18, with the multiplication of ruint's U256.
MulDivRay(qty, price) == ((qty * price) % UintModulus) \div Ray

\* One turn of the inner loop, for the order at the head of the best level.
FrontOrder(b, in, best) == b.orders[Head(b.queues[Opposite(in.side)][best])]
Mutant_TakerQty(b, in, best) == in.remaining
TradeQty(b, in, best) ==
  MinU256(in.remaining, FrontOrder(b, in, best).remaining)

Mutant_FillOfWholeTaker(b, in, best) ==
  LET mo == FrontOrder(b, in, best)
  IN [company_id |-> in.company_id,
      maker_order_id |-> mo.order_id,
      taker_order_id |-> in.order_id,
      buyer |-> IF in.side = "Buy" THEN in.maker ELSE mo.maker,
      seller |-> IF in.side = "Buy" THEN mo.maker ELSE in.maker,
      vstk_amount |-> in.remaining,
      ait_notional |-> MulDivRay(in.remaining, best)]

FillOf(b, in, best) ==
  LET mo == FrontOrder(b, in, best)
      qty == TradeQty(b, in, best)
  IN [company_id |-> in.company_id,
      maker_order_id |-> mo.order_id,
      taker_order_id |-> in.order_id,
      buyer |-> IF in.side = "Buy" THEN in.maker ELSE mo.maker,
      seller |-> IF in.side = "Buy" THEN mo.maker ELSE in.maker,
      vstk_amount |-> qty,
      ait_notional |-> MulDivRay(qty, best)]

Mutant_PopsPartialMaker(b, in, best) ==
  [queues |-> WithLevel(b, Opposite(in.side), best,
                        Tail(b.queues[Opposite(in.side)][best])),
   orders |-> Drop(b.orders, FrontOrder(b, in, best).order_id)]

\* The book after that turn: a maker with nothing left leaves the map and its
\* queue, and its level goes with it when the queue is empty.
MatchFront(b, in, best) ==
  LET mo == FrontOrder(b, in, best)
      left == mo.remaining - TradeQty(b, in, best)
  IN IF left = 0
     THEN [queues |-> WithLevel(b, Opposite(in.side), best,
                                Tail(b.queues[Opposite(in.side)][best])),
           orders |-> Drop(b.orders, mo.order_id)]
     ELSE [queues |-> b.queues,
           orders |-> Put(b.orders, mo.order_id, [mo EXCEPT !.remaining = left])]

-----------------------------------------------------------------------------
LevelsTyped(b) ==
  /\ b.queues = [side \in Sides |-> b.queues[side]]
  /\ \A side \in Sides :
       /\ b.queues[side] = [p \in DOMAIN b.queues[side] |-> b.queues[side][p]]
       /\ \A p \in DOMAIN b.queues[side] :
            p \in Positive /\ b.queues[side][p] \in Seq(OrderIds)
OrdersTyped(b) ==
  /\ b.orders = [id \in DOMAIN b.orders |-> b.orders[id]]
  /\ \A id \in DOMAIN b.orders :
       id \in OrderIds /\ b.orders[id] \in OrderRecord
IsBook(b) ==
  /\ b = [queues |-> b.queues, orders |-> b.orders]
  /\ LevelsTyped(b)
  /\ OrdersTyped(b)

\* The three maps of one book agree: every level holds at least one order and
\* every queued id is a live order of that side and price; every live order is
\* queued, and no live order is empty.
LevelsLive(b) ==
  \A side \in Sides : \A p \in DOMAIN b.queues[side] :
    LET q == b.queues[side][p] IN
    /\ q # <<>>
    /\ \A i \in 1..Len(q) : /\ q[i] \in DOMAIN b.orders
                           /\ b.orders[q[i]].side = side
                           /\ b.orders[q[i]].price_ray = p
OrdersQueued(b) ==
  \A id \in DOMAIN b.orders :
    LET o == b.orders[id] IN
    /\ o.order_id = id
    /\ o.remaining > 0
    /\ o.price_ray \in DOMAIN b.queues[o.side]
    /\ \E i \in 1..Len(b.queues[o.side][o.price_ray]) :
         b.queues[o.side][o.price_ray][i] = id
Consistent(b) == LevelsLive(b) /\ OrdersQueued(b)

\* Every queue is first-in first-out: it lists its orders in the order in which
\* they entered the engine, hence each of them once.
InTimeOrder(b) ==
  \A side \in Sides : \A p \in DOMAIN b.queues[side] :
    LET q == b.queues[side][p] IN
    \A i, j \in 1..Len(q) : i < j => b.orders[q[i]].ticket < b.orders[q[j]].ticket
=============================================================================
