--------------------------- MODULE OrderBook_proofs ---------------------------
(***************************************************************************)
(* Lemmas about the book operators: insertion, cancellation and one turn   *)
(* of matching keep a book's maps in agreement and its queues in order of  *)
(* arrival.                                                                *)
(***************************************************************************)
EXTENDS OrderBook, TLAPS

Sound(b) == IsBook(b) /\ Consistent(b) /\ InTimeOrder(b)

-----------------------------------------------------------------------------
\* What replacing one level does to the two price maps (orderbook.rs: entry,
\* push_back, and the removal of a level that became empty).
LEMMA WithLevelFacts ==
  ASSUME NEW b, NEW s \in Sides, NEW p, NEW q, IsBook(b),
         NEW W, W = WithLevel(b, s, p, q)
  PROVE  /\ W = [side \in Sides |-> W[side]]
         /\ \A side \in Sides : W[side] = [x \in DOMAIN W[side] |-> W[side][x]]
         /\ q = <<>> => DOMAIN W[s] = DOMAIN b.queues[s] \ {p}
         /\ q # <<>> => DOMAIN W[s] = DOMAIN b.queues[s] \cup {p} /\ W[s][p] = q
         /\ \A x \in DOMAIN W[s] :
              x # p => x \in DOMAIN b.queues[s] /\ W[s][x] = b.queues[s][x]
         /\ \A side \in Sides : side # s => W[side] = b.queues[side]
<1> DEFINE old == b.queues[s]
           new == IF q = <<>> THEN Drop(old, p) ELSE Put(old, p, q)
<1>1. /\ b.queues = [side \in Sides |-> b.queues[side]]
      /\ \A side \in Sides :
           b.queues[side] = [x \in DOMAIN b.queues[side] |-> b.queues[side][x]]
  BY DEF IsBook, LevelsTyped, OrdersTyped
<1>2. W = [side \in Sides |-> IF side = s THEN new ELSE b.queues[side]]
  BY <1>1 DEF WithLevel
<1>3. q = <<>> => new = [x \in DOMAIN old \ {p} |-> old[x]]
  BY DEF Drop
<1>4. q # <<>> => new = [x \in DOMAIN old \cup {p} |-> IF x = p THEN q ELSE old[x]]
  BY DEF Put
<1>5. new = [x \in DOMAIN new |-> new[x]]
  BY <1>3, <1>4
<1> HIDE DEF new
<1>6. W[s] = new /\ \A side \in Sides : side # s => W[side] = b.queues[side]
  BY <1>2
<1>7. W = [side \in Sides |-> W[side]]
  BY <1>2
<1>8. \A side \in Sides : W[side] = [x \in DOMAIN W[side] |-> W[side][x]]
  BY <1>1, <1>5, <1>6
<1>9. q = <<>> => DOMAIN W[s] = DOMAIN b.queues[s] \ {p}
  BY <1>3, <1>6
<1>10. q # <<>> => DOMAIN W[s] = DOMAIN b.queues[s] \cup {p} /\ W[s][p] = q
  BY <1>4, <1>6
<1>11. \A x \in DOMAIN W[s] :
         x # p => x \in DOMAIN b.queues[s] /\ W[s][x] = b.queues[s][x]
  BY <1>3, <1>4, <1>6
<1>12. QED
  BY <1>6, <1>7, <1>8, <1>9, <1>10, <1>11

\* A level is a queue of order ids, the empty one when there is no such level.
LEMMA LevelIsQueue ==
  ASSUME NEW b, IsBook(b), NEW s \in Sides, NEW p
  PROVE  Level(b, s, p) \in Seq(OrderIds)
<1>1. CASE p \in DOMAIN b.queues[s]
  <2>1. Level(b, s, p) = b.queues[s][p]
    BY <1>1 DEF Level
  <2>2. QED
    BY <1>1, <2>1 DEF IsBook, LevelsTyped, OrdersTyped
<1>2. CASE p \notin DOMAIN b.queues[s]
  <2>1. Level(b, s, p) = <<>>
    BY <1>2 DEF Level
  <2>2. QED
    BY <2>1
<1>3. QED
  BY <1>1, <1>2

\* q.remove(pos) keeps the other elements and their order.
LEMMA RemoveAtFacts ==
  ASSUME NEW S, NEW q \in Seq(S), NEW i \in 1..Len(q)
  PROVE  /\ RemoveAt(q, i) \in Seq(S)
         /\ Len(RemoveAt(q, i)) = Len(q) - 1
         /\ \A j \in 1..(Len(q) - 1) :
              RemoveAt(q, i)[j] = IF j < i THEN q[j] ELSE q[j + 1]
<1> DEFINE front == SubSeq(q, 1, i - 1)
           back == SubSeq(q, i + 1, Len(q))
<1>1. /\ front \in Seq(S)
      /\ Len(front) = i - 1
      /\ \A j \in 1..(i - 1) : front[j] = q[j]
  OBVIOUS
<1>2. /\ back \in Seq(S)
      /\ Len(back) = Len(q) - i
      /\ \A j \in 1..(Len(q) - i) : back[j] = q[j + i]
  OBVIOUS
<1>3. RemoveAt(q, i) = front \o back
  BY DEF RemoveAt
<1> HIDE DEF front, back
<1>4. /\ front \o back \in Seq(S)
      /\ Len(front \o back) = Len(q) - 1
  BY <1>1, <1>2
<1>5. ASSUME NEW j \in 1..(Len(q) - 1)
      PROVE  (front \o back)[j] = IF j < i THEN q[j] ELSE q[j + 1]
  <2>1. (front \o back)[j] = IF j <= Len(front) THEN front[j] ELSE back[j - Len(front)]
    BY <1>1, <1>2
  <2>2. CASE j < i
    BY <1>1, <2>1, <2>2
  <2>3. CASE ~(j < i)
    <3>1. j - (i - 1) \in 1..(Len(q) - i) /\ (j - (i - 1)) + i = j + 1
      BY <2>3
    <3>2. back[j - (i - 1)] = q[j + 1]
      BY <1>2, <3>1
    <3>3. QED
      BY <1>1, <2>1, <2>3, <3>2
  <2>4. QED
    BY <2>2, <2>3
<1>6. QED
  BY <1>3, <1>4, <1>5

-----------------------------------------------------------------------------
\* What a live level is: its queue holds an order, and every queued id is a live
\* order of that side and price.
LevelLive(b, side, x) ==
  /\ b.queues[side][x] # <<>>
  /\ \A i \in 1..Len(b.queues[side][x]) :
       /\ b.queues[side][x][i] \in DOMAIN b.orders
       /\ b.orders[b.queues[side][x][i]].side = side
       /\ b.orders[b.queues[side][x][i]].price_ray = x

LEMMA LiveLevel ==
  ASSUME NEW b, LevelsLive(b), NEW side \in Sides, NEW x \in DOMAIN b.queues[side]
  PROVE  LevelLive(b, side, x)
  BY DEF LevelsLive, LevelLive

\* insert_limit_order of an order that is new, not empty and later than all
\* resting orders keeps the book sound (orderbook.rs:48).
LEMMA InsertSound ==
  ASSUME NEW b, Sound(b),
         NEW r \in OrderRecord, r.remaining > 0, CanInsert(b, r),
         \A id \in DOMAIN b.orders : b.orders[id].ticket < r.ticket
  PROVE  Sound(InsertLimitOrder(b, r))
<1> DEFINE s == r.side
           p == r.price_ray
           old == Level(b, s, p)
           q == Append(old, r.order_id)
           W == WithLevel(b, s, p, q)
           O == Put(b.orders, r.order_id, r)
           n == InsertLimitOrder(b, r)
<1>1. IsBook(b) /\ Consistent(b) /\ InTimeOrder(b)
  BY DEF Sound
<1>0. /\ LevelsTyped(b) /\ OrdersTyped(b)
      /\ LevelsLive(b) /\ OrdersQueued(b)
  BY <1>1 DEF IsBook, Consistent
<1>2. s \in Sides /\ p \in Positive /\ r.order_id \in OrderIds /\ r.ticket \in Nat
  BY DEF OrderRecord
<1>3. old \in Seq(OrderIds)
  BY <1>1, <1>2, LevelIsQueue
<1>4. /\ q \in Seq(OrderIds)
      /\ q # <<>>
      /\ Len(q) = Len(old) + 1
      /\ \A i \in 1..Len(old) : q[i] = old[i]
      /\ q[Len(q)] = r.order_id
  BY <1>2, <1>3
<1>5. /\ n = [queues |-> W, orders |-> O]
      /\ n.queues = W
      /\ n.orders = O
  BY DEF InsertLimitOrder
<1>6. /\ O = [id \in DOMAIN O |-> O[id]]
      /\ DOMAIN O = DOMAIN b.orders \cup {r.order_id}
      /\ O[r.order_id] = r
      /\ \A id \in DOMAIN b.orders : id # r.order_id /\ O[id] = b.orders[id]
  BY DEF Put, CanInsert
<1> HIDE DEF q, O
<1>7. /\ W = [side \in Sides |-> W[side]]
      /\ \A side \in Sides : W[side] = [x \in DOMAIN W[side] |-> W[side][x]]
      /\ DOMAIN W[s] = DOMAIN b.queues[s] \cup {p} /\ W[s][p] = q
      /\ \A x \in DOMAIN W[s] :
           x # p => x \in DOMAIN b.queues[s] /\ W[s][x] = b.queues[s][x]
      /\ \A side \in Sides : side # s => W[side] = b.queues[side]
  BY WithLevelFacts, <1>1, <1>2, <1>4
<1> HIDE DEF W, n, old
<1>8. \A i \in 1..Len(old) :
        /\ old[i] \in DOMAIN b.orders
        /\ b.orders[old[i]].side = s
        /\ b.orders[old[i]].price_ray = p
  <2>1. CASE p \in DOMAIN b.queues[s]
    <3>1. old = b.queues[s][p]
      BY <2>1 DEF old, Level
    <3> HIDE DEF s, p
    <3>2. QED
      <4>1. \A i \in 1..Len(b.queues[s][p]) :
              /\ b.queues[s][p][i] \in DOMAIN b.orders
              /\ b.orders[b.queues[s][p][i]].side = s
              /\ b.orders[b.queues[s][p][i]].price_ray = p
        <5>1. LevelLive(b, s, p)
          BY <1>0, <1>2, <2>1, LiveLevel
        <5> QED
          BY <5>1 DEF LevelLive
      <4>2. QED
        BY <3>1, <4>1
  <2>2. CASE p \notin DOMAIN b.queues[s]
    <3>1. old = <<>>
      BY <2>2 DEF old, Level
    <3>2. Len(old) = 0
      BY <3>1
    <3>3. QED
      BY <3>2
  <2>3. QED
    BY <2>1, <2>2
<1>9. \A i, j \in 1..Len(old) :
        i < j => b.orders[old[i]].ticket < b.orders[old[j]].ticket
  <2>1. CASE p \in DOMAIN b.queues[s]
    <3>1. old = b.queues[s][p]
      BY <2>1 DEF old, Level
    <3>2. QED
      BY <1>1, <1>2, <2>1, <3>1 DEF InTimeOrder
  <2>2. CASE p \notin DOMAIN b.queues[s]
    <3>1. old = <<>>
      BY <2>2 DEF old, Level
    <3>2. Len(old) = 0
      BY <3>1
    <3>3. QED
      BY <3>2
  <2>3. QED
    BY <2>1, <2>2
<1>14. \A side \in Sides : \A x \in DOMAIN b.queues[side] :
         ~(side = s /\ x = p) =>
           x \in DOMAIN W[side] /\ W[side][x] = b.queues[side][x]
  BY <1>7
<1>10. IsBook(n)
  <2>1. \A side \in Sides : \A x \in DOMAIN W[side] :
          x \in Positive /\ W[side][x] \in Seq(OrderIds)
    <3>1. ASSUME NEW side \in Sides, NEW x \in DOMAIN W[side]
          PROVE  x \in Positive /\ W[side][x] \in Seq(OrderIds)
      <4>1. CASE side = s /\ x = p
        BY <1>2, <1>4, <1>7, <4>1
      <4>2. CASE ~(side = s /\ x = p)
        <5>1. x \in DOMAIN b.queues[side] /\ W[side][x] = b.queues[side][x]
          BY <1>7, <4>2
        <5>2. QED
          BY <1>0, <5>1 DEF LevelsTyped
      <4>3. QED
        BY <4>1, <4>2
    <3>2. QED
      BY <3>1
  <2>2. \A id \in DOMAIN O : id \in OrderIds /\ O[id] \in OrderRecord
    BY <1>0, <1>2, <1>6 DEF OrdersTyped
  <2>3. QED
    <3>1. LevelsTyped(n)
      BY <1>5, <1>7, <2>1 DEF LevelsTyped
    <3>2. OrdersTyped(n)
      BY <1>5, <1>6, <2>2 DEF OrdersTyped
    <3>3. QED
      BY <1>5, <3>1, <3>2 DEF IsBook
<1>11. Consistent(n)
  <2>1. ASSUME NEW side \in Sides, NEW x \in DOMAIN W[side]
        PROVE  /\ W[side][x] # <<>>
               /\ \A i \in 1..Len(W[side][x]) :
                    /\ W[side][x][i] \in DOMAIN O
                    /\ O[W[side][x][i]].side = side
                    /\ O[W[side][x][i]].price_ray = x
    <3>1. CASE side = s /\ x = p
      <4>1. ASSUME NEW i \in 1..Len(q)
            PROVE  q[i] \in DOMAIN O /\ O[q[i]].side = s /\ O[q[i]].price_ray = p
        <5>1. CASE i = Len(q)
          BY <1>4, <1>6, <5>1
        <5>2. CASE i # Len(q)
          <6>1. i \in 1..Len(old) /\ q[i] = old[i]
            BY <1>3, <1>4, <5>2
          <6>2. QED
            BY <1>6, <1>8, <6>1
        <5>3. QED
          BY <5>1, <5>2
      <4>2. QED
        BY <1>4, <1>7, <3>1, <4>1
    <3>2. CASE ~(side = s /\ x = p)
      <4>1. x \in DOMAIN b.queues[side] /\ W[side][x] = b.queues[side][x]
        BY <1>7, <3>2
      <4>2. /\ b.queues[side][x] # <<>>
            /\ \A i \in 1..Len(b.queues[side][x]) :
                 /\ b.queues[side][x][i] \in DOMAIN b.orders
                 /\ b.orders[b.queues[side][x][i]].side = side
                 /\ b.orders[b.queues[side][x][i]].price_ray = x
        <5>1. LevelLive(b, side, x)
          BY <1>0, <4>1, LiveLevel
        <5> QED
          BY <5>1 DEF LevelLive
      <4>3. \A id \in DOMAIN b.orders : id \in DOMAIN O /\ O[id] = b.orders[id]
        BY <1>6
      <4>4. QED
        BY <4>1, <4>2, <4>3
    <3>3. QED
      BY <3>1, <3>2
  <2>2. ASSUME NEW id \in DOMAIN O
        PROVE  /\ O[id].order_id = id
               /\ O[id].remaining > 0
               /\ O[id].price_ray \in DOMAIN W[O[id].side]
               /\ \E i \in 1..Len(W[O[id].side][O[id].price_ray]) :
                    W[O[id].side][O[id].price_ray][i] = id
    <3>1. CASE id = r.order_id
      <4>1. Len(q) \in 1..Len(q)
        BY <1>3, <1>4
      <4>2. QED
        BY <1>4, <1>6, <1>7, <3>1, <4>1
    <3>2. CASE id \in DOMAIN b.orders
      <4> DEFINE o == b.orders[id]
      <4>1. /\ O[id] = o
            /\ o.order_id = id
            /\ o.remaining > 0
            /\ o.price_ray \in DOMAIN b.queues[o.side]
            /\ \E i \in 1..Len(b.queues[o.side][o.price_ray]) :
                 b.queues[o.side][o.price_ray][i] = id
        BY <1>0, <1>6, <3>2 DEF OrdersQueued
      <4>2. o.side \in Sides
        BY <1>0, <3>2 DEF OrdersTyped, OrderRecord
      <4> HIDE DEF o
      <4>3. CASE o.side = s /\ o.price_ray = p
        <5>1. old = b.queues[s][p]
          BY <4>1, <4>3 DEF old, Level
        <5>2. PICK i \in 1..Len(old) : old[i] = id
          BY <4>1, <4>3, <5>1
        <5>3. i \in 1..Len(q) /\ q[i] = id
          BY <1>3, <1>4, <5>2
        <5>4. QED
          BY <1>7, <4>1, <4>3, <5>3
      <4>4. CASE ~(o.side = s /\ o.price_ray = p)
        <5>1. o.price_ray \in DOMAIN W[o.side]
              /\ W[o.side][o.price_ray] = b.queues[o.side][o.price_ray]
          BY <1>14, <4>1, <4>2, <4>4
        <5>2. QED
          BY <4>1, <5>1
      <4>5. QED
        BY <4>3, <4>4
    <3>3. QED
      BY <1>6, <3>1, <3>2
  <2>3. QED
    <3>1. LevelsLive(n)
      BY <1>5, <2>1 DEF LevelsLive
    <3>2. OrdersQueued(n)
      BY <1>5, <2>2 DEF OrdersQueued
    <3>3. QED
      BY <3>1, <3>2 DEF Consistent
<1>12. InTimeOrder(n)
  <2>1. ASSUME NEW side \in Sides, NEW x \in DOMAIN W[side],
               NEW i \in 1..Len(W[side][x]), NEW j \in 1..Len(W[side][x]), i < j
        PROVE  O[W[side][x][i]].ticket < O[W[side][x][j]].ticket
    <3>1. CASE side = s /\ x = p
      <4>1. W[side][x] = q
        BY <1>7, <3>1
      <4>2. i \in 1..Len(old) /\ q[i] = old[i] /\ O[q[i]] = b.orders[old[i]]
        BY <1>3, <1>4, <1>6, <1>8, <2>1, <4>1
      <4>3. CASE j = Len(q)
        BY <1>4, <1>6, <1>8, <4>1, <4>2, <4>3
      <4>4. CASE j # Len(q)
        <5>1. j \in 1..Len(old) /\ q[j] = old[j] /\ O[q[j]] = b.orders[old[j]]
          BY <1>3, <1>4, <1>6, <1>8, <4>1, <4>4
        <5>2. QED
          BY <1>9, <2>1, <4>1, <4>2, <5>1
      <4>5. QED
        BY <4>3, <4>4
    <3>2. CASE ~(side = s /\ x = p)
      <4>1. x \in DOMAIN b.queues[side] /\ W[side][x] = b.queues[side][x]
        BY <1>7, <3>2
      <4>2. O[W[side][x][i]] = b.orders[W[side][x][i]]
            /\ O[W[side][x][j]] = b.orders[W[side][x][j]]
        <5>1. LevelLive(b, side, x)
          BY <1>0, <1>6, <4>1, LiveLevel
        <5> QED
          BY <1>6, <4>1, <5>1 DEF LevelLive
      <4>3. QED
        BY <1>1, <2>1, <4>1, <4>2 DEF InTimeOrder
    <3>3. QED
      BY <3>1, <3>2
  <2>2. QED
    BY <1>5, <2>1 DEF InTimeOrder
<1>13. QED
  BY <1>10, <1>11, <1>12 DEF Sound, n

-----------------------------------------------------------------------------
\* q is the queue old without its k-th element.
WithoutAt(q, old, k) ==
  /\ k \in 1..Len(old)
  /\ q \in Seq(OrderIds)
  /\ Len(q) = Len(old) - 1
  /\ \A j \in 1..Len(q) : q[j] = IF j < k THEN old[j] ELSE old[j + 1]

\* Taking one order out of its queue and out of the orders map, and the level
\* away with it when the queue is empty, keeps the book sound: what cancel_order
\* and a completely filled maker have in common.
LEMMA RemoveSound ==
  ASSUME NEW b, Sound(b), NEW s \in Sides, NEW p \in DOMAIN b.queues[s],
         NEW k, NEW q, WithoutAt(q, b.queues[s][p], k)
  PROVE  Sound([queues |-> WithLevel(b, s, p, q),
                orders |-> Drop(b.orders, b.queues[s][p][k])])
<1> DEFINE old == b.queues[s][p]
           id == old[k]
           W == WithLevel(b, s, p, q)
           O == Drop(b.orders, id)
           n == [queues |-> W, orders |-> O]
<1>1. IsBook(b) /\ Consistent(b) /\ InTimeOrder(b)
  BY DEF Sound
<1>0. /\ LevelsTyped(b) /\ OrdersTyped(b)
      /\ LevelsLive(b) /\ OrdersQueued(b)
  BY <1>1 DEF IsBook, Consistent
<1>2. p \in Positive /\ old \in Seq(OrderIds) /\ Len(old) \in Nat
  <2>1. p \in Positive /\ b.queues[s][p] \in Seq(OrderIds)
    BY <1>0 DEF LevelsTyped
  <2>2. QED
    BY <2>1
<1>3. n.queues = W /\ n.orders = O
  OBVIOUS
<1>4. /\ O = [x \in DOMAIN O |-> O[x]]
      /\ DOMAIN O = DOMAIN b.orders \ {id}
      /\ \A x \in DOMAIN O : O[x] = b.orders[x]
  BY DEF Drop
<1>5. /\ W = [side \in Sides |-> W[side]]
      /\ \A side \in Sides : W[side] = [x \in DOMAIN W[side] |-> W[side][x]]
      /\ q = <<>> => DOMAIN W[s] = DOMAIN b.queues[s] \ {p}
      /\ q # <<>> => DOMAIN W[s] = DOMAIN b.queues[s] \cup {p} /\ W[s][p] = q
      /\ \A x \in DOMAIN W[s] :
           x # p => x \in DOMAIN b.queues[s] /\ W[s][x] = b.queues[s][x]
      /\ \A side \in Sides : side # s => W[side] = b.queues[side]
  BY WithLevelFacts, <1>1, <1>2
<1>6. /\ k \in 1..Len(old) /\ old[k] = id
      /\ q \in Seq(OrderIds) /\ Len(q) \in Nat /\ Len(q) = Len(old) - 1
      /\ \A j \in 1..Len(q) : q[j] = IF j < k THEN old[j] ELSE old[j + 1]
  BY DEF WithoutAt
<1>7. \A i \in 1..Len(old) :
        /\ old[i] \in DOMAIN b.orders
        /\ b.orders[old[i]].side = s
        /\ b.orders[old[i]].price_ray = p
        /\ b.orders[old[i]].ticket \in Nat
  <2>1. \A i \in 1..Len(b.queues[s][p]) :
          /\ b.queues[s][p][i] \in DOMAIN b.orders
          /\ b.orders[b.queues[s][p][i]].side = s
          /\ b.orders[b.queues[s][p][i]].price_ray = p
    <3>1. LevelLive(b, s, p)
      BY <1>0, LiveLevel
    <3> QED
      BY <3>1 DEF LevelLive
  <2>2. \A x \in DOMAIN b.orders : b.orders[x].ticket \in Nat
    BY <1>0 DEF OrdersTyped, OrderRecord
  <2>3. QED
    BY <2>1, <2>2
<1>17. \A i, j \in 1..Len(old) :
         i < j => b.orders[old[i]].ticket < b.orders[old[j]].ticket
  BY <1>1 DEF InTimeOrder
<1>18. id \in DOMAIN b.orders /\ b.orders[id].side = s /\ b.orders[id].price_ray = p
  BY <1>6, <1>7
<1> HIDE DEF old, id, W, O, n
<1>8. \A i \in 1..Len(old) : old[i] = id => i = k
  <2>1. SUFFICES ASSUME NEW i \in 1..Len(old), old[i] = id, i # k
                 PROVE  FALSE
    OBVIOUS
  <2>2. i < k \/ k < i
    BY <1>2, <1>6, <2>1
  <2>3. b.orders[id].ticket < b.orders[id].ticket
    BY <1>6, <1>17, <2>1, <2>2
  <2>4. QED
    BY <1>6, <1>7, <2>3
<1>9. \A side \in Sides : \A x \in DOMAIN W[side] :
        ~(side = s /\ x = p) =>
          x \in DOMAIN b.queues[side] /\ W[side][x] = b.queues[side][x]
  BY <1>5
<1>10. \A x \in DOMAIN W[s] : x = p => q # <<>> /\ W[s][x] = q
  BY <1>5
<1>11. \A j \in 1..Len(q) :
         /\ j \in 1..Len(old) /\ j + 1 \in 1..Len(old)
         /\ q[j] # id
         /\ q[j] = IF j < k THEN old[j] ELSE old[j + 1]
  BY <1>2, <1>6, <1>8
<1>12. IsBook(n)
  <2>1. \A side \in Sides : \A x \in DOMAIN W[side] :
          x \in Positive /\ W[side][x] \in Seq(OrderIds)
    <3>1. ASSUME NEW side \in Sides, NEW x \in DOMAIN W[side]
          PROVE  x \in Positive /\ W[side][x] \in Seq(OrderIds)
      <4>1. CASE side = s /\ x = p
        BY <1>2, <1>6, <1>10, <4>1
      <4>2. CASE ~(side = s /\ x = p)
        <5>1. x \in DOMAIN b.queues[side] /\ W[side][x] = b.queues[side][x]
          BY <1>9, <4>2
        <5>2. QED
          BY <1>0, <5>1 DEF LevelsTyped
      <4>3. QED
        BY <4>1, <4>2
    <3>2. QED
      BY <3>1
  <2>2. \A x \in DOMAIN O : x \in OrderIds /\ O[x] \in OrderRecord
    BY <1>0, <1>4 DEF OrdersTyped
  <2>3. n = [queues |-> n.queues, orders |-> n.orders]
    BY DEF n
  <2>4. QED
    <3>1. LevelsTyped(n)
      BY <1>3, <1>5, <2>1 DEF LevelsTyped
    <3>2. OrdersTyped(n)
      BY <1>3, <1>4, <2>2 DEF OrdersTyped
    <3>3. QED
      BY <2>3, <3>1, <3>2 DEF IsBook
<1>13. \A side \in Sides : \A x \in DOMAIN b.queues[side] :
         \A i \in 1..Len(b.queues[side][x]) :
           b.queues[side][x][i] = id => side = s /\ x = p
  BY <1>0, <1>18 DEF LevelsLive
<1>14. Consistent(n)
  <2>1. ASSUME NEW side \in Sides, NEW x \in DOMAIN W[side]
        PROVE  /\ W[side][x] # <<>>
               /\ \A i \in 1..Len(W[side][x]) :
                    /\ W[side][x][i] \in DOMAIN O
                    /\ O[W[side][x][i]].side = side
                    /\ O[W[side][x][i]].price_ray = x
    <3>1. CASE side = s /\ x = p
      BY <1>4, <1>7, <1>10, <1>11, <3>1
    <3>2. CASE ~(side = s /\ x = p)
      <4>1. x \in DOMAIN b.queues[side] /\ W[side][x] = b.queues[side][x]
        BY <1>9, <3>2
      <4>2. \A i \in 1..Len(b.queues[side][x]) : b.queues[side][x][i] # id
        BY <1>13, <3>2, <4>1
      <4>3. QED
        <5>1. /\ b.queues[side][x] # <<>>
              /\ \A i \in 1..Len(b.queues[side][x]) :
                   /\ b.queues[side][x][i] \in DOMAIN b.orders
                   /\ b.orders[b.queues[side][x][i]].side = side
                   /\ b.orders[b.queues[side][x][i]].price_ray = x
          <6>1. LevelLive(b, side, x)
            BY <1>0, <4>1, LiveLevel
          <6> QED
            BY <6>1 DEF LevelLive
        <5>2. W[side][x] # <<>>
          BY <4>1, <5>1
        <5>3. ASSUME NEW i \in 1..Len(W[side][x])
              PROVE  /\ W[side][x][i] \in DOMAIN O
                     /\ O[W[side][x][i]].side = side
                     /\ O[W[side][x][i]].price_ray = x
          <6> DEFINE y == b.queues[side][x][i]
          <6>1. W[side][x][i] = y /\ y # id
            BY <4>1, <4>2
          <6>2. y \in DOMAIN b.orders /\ b.orders[y].side = side /\ b.orders[y].price_ray = x
            BY <4>1, <5>1
          <6> HIDE DEF y
          <6>3. y \in DOMAIN O /\ O[y] = b.orders[y]
            BY <1>4, <6>1, <6>2
          <6> QED
            BY <6>1, <6>2, <6>3
        <5>4. QED
          BY <5>2, <5>3
    <3>3. QED
      BY <3>1, <3>2
  <2>2. ASSUME NEW x \in DOMAIN O
        PROVE  /\ O[x].order_id = x
               /\ O[x].remaining > 0
               /\ O[x].price_ray \in DOMAIN W[O[x].side]
               /\ \E i \in 1..Len(W[O[x].side][O[x].price_ray]) :
                    W[O[x].side][O[x].price_ray][i] = x
    <3> DEFINE o == b.orders[x]
    <3>1. /\ O[x] = o /\ x # id /\ x \in DOMAIN b.orders
          /\ o.order_id = x
          /\ o.remaining > 0
          /\ o.side \in Sides
          /\ o.price_ray \in DOMAIN b.queues[o.side]
          /\ \E i \in 1..Len(b.queues[o.side][o.price_ray]) :
               b.queues[o.side][o.price_ray][i] = x
      <4>1. O[x] = o /\ x # id /\ x \in DOMAIN b.orders
        BY <1>4
      <4>2. o.side \in Sides
        BY <1>0, <4>1 DEF OrdersTyped, OrderRecord
      <4>3. QED
        BY <1>0, <4>1, <4>2 DEF OrdersQueued
    <3> HIDE DEF o
    <3>2. CASE o.side = s /\ o.price_ray = p
      <4>1. PICK i \in 1..Len(old) : old[i] = x
        BY <3>1, <3>2 DEF old
      <4>2. i # k
        BY <1>6, <3>1, <4>1
      <4>3. CASE i < k
        <5>1. i \in 1..Len(q) /\ q[i] = x
          BY <1>2, <1>6, <4>1, <4>3
        <5>2. q # <<>>
          BY <5>1
        <5>3. QED
          BY <1>5, <3>1, <3>2, <5>1, <5>2
      <4>4. CASE i > k
        <5>1. i - 1 \in 1..Len(q) /\ q[i - 1] = x
          BY <1>2, <1>6, <4>1, <4>4
        <5>2. q # <<>>
          BY <5>1
        <5>3. QED
          BY <1>5, <3>1, <3>2, <5>1, <5>2
      <4>5. QED
        BY <1>6, <4>2, <4>3, <4>4
    <3>3. CASE ~(o.side = s /\ o.price_ray = p)
      <4>1. o.price_ray \in DOMAIN W[o.side]
        BY <1>5, <3>1, <3>3
      <4>2. W[o.side][o.price_ray] = b.queues[o.side][o.price_ray]
        BY <1>9, <3>1, <3>3, <4>1
      <4>3. QED
        BY <3>1, <4>1, <4>2
    <3>4. QED
      BY <3>2, <3>3
  <2>3. QED
    <3>1. LevelsLive(n)
      BY <1>3, <2>1 DEF LevelsLive
    <3>2. OrdersQueued(n)
      BY <1>3, <2>2 DEF OrdersQueued
    <3>3. QED
      BY <3>1, <3>2 DEF Consistent
<1>15. InTimeOrder(n)
  <2>1. ASSUME NEW side \in Sides, NEW x \in DOMAIN W[side],
               NEW i \in 1..Len(W[side][x]), NEW j \in 1..Len(W[side][x]), i < j
        PROVE  O[W[side][x][i]].ticket < O[W[side][x][j]].ticket
    <3>1. CASE side = s /\ x = p
      <4>1. W[side][x] = q /\ i \in 1..Len(q) /\ j \in 1..Len(q)
        BY <1>10, <3>1
      <4> DEFINE i0 == IF i < k THEN i ELSE i + 1
                 j0 == IF j < k THEN j ELSE j + 1
      <4>2. q[i] = old[i0] /\ q[j] = old[j0] /\ q[i] # id /\ q[j] # id
        BY <1>11, <4>1
      <4>3. i0 \in 1..Len(old) /\ j0 \in 1..Len(old)
        BY <1>11, <4>1
      <4>4. i0 < j0
        BY <1>2, <1>6, <2>1, <4>1
      <4> HIDE DEF i0, j0
      <4>5. /\ old[i0] \in DOMAIN b.orders /\ old[j0] \in DOMAIN b.orders
            /\ b.orders[old[i0]].ticket < b.orders[old[j0]].ticket
        BY <1>7, <1>17, <4>3, <4>4
      <4>6. O[q[i]] = b.orders[old[i0]] /\ O[q[j]] = b.orders[old[j0]]
        BY <1>4, <4>2, <4>5
      <4>7. QED
        BY <4>1, <4>5, <4>6
    <3>2. CASE ~(side = s /\ x = p)
      <4>1. x \in DOMAIN b.queues[side] /\ W[side][x] = b.queues[side][x]
        BY <1>9, <3>2
      <4>2. W[side][x][i] \in DOMAIN b.orders /\ W[side][x][j] \in DOMAIN b.orders
        <5>1. LevelLive(b, side, x)
          BY <1>0, <4>1, LiveLevel
        <5> QED
          BY <4>1, <5>1 DEF LevelLive
      <4>3. W[side][x][i] # id /\ W[side][x][j] # id
        BY <1>13, <3>2, <4>1
      <4>4. O[W[side][x][i]] = b.orders[W[side][x][i]]
            /\ O[W[side][x][j]] = b.orders[W[side][x][j]]
        BY <1>4, <4>2, <4>3
      <4>5. QED
        BY <1>1, <2>1, <4>1, <4>4 DEF InTimeOrder
    <3>3. QED
      BY <3>1, <3>2
  <2>2. QED
    BY <1>3, <2>1 DEF InTimeOrder
<1>16. QED
  BY <1>12, <1>14, <1>15 DEF Sound, n, W, O, id, old

\* cancel_order of a live order keeps the book sound (orderbook.rs:67).
LEMMA CancelSound ==
  ASSUME NEW b, Sound(b), NEW id \in DOMAIN b.orders
  PROVE  Sound(CancelOrder(b, id))
<1> DEFINE o == b.orders[id]
           old == b.queues[o.side][o.price_ray]
           at == {i \in 1..Len(old) : old[i] = id}
           k == CHOOSE i \in at : TRUE
           q == RemoveAt(old, k)
<1>1. /\ o.side \in Sides
      /\ o.price_ray \in DOMAIN b.queues[o.side]
      /\ old \in Seq(OrderIds)
      /\ \E i \in 1..Len(old) : old[i] = id
  BY DEF Sound, IsBook, LevelsTyped, OrdersTyped, Consistent, LevelsLive, OrdersQueued, OrderRecord
<1>2. k \in 1..Len(old) /\ old[k] = id /\ at # {}
  BY <1>1
<1>3. CancelOrder(b, id) =
        [queues |-> WithLevel(b, o.side, o.price_ray, q), orders |-> Drop(b.orders, id)]
  BY <1>1, <1>2 DEF CancelOrder, Level
<1> HIDE DEF k
<1>4. /\ q \in Seq(OrderIds)
      /\ Len(q) = Len(old) - 1
      /\ \A j \in 1..(Len(old) - 1) : q[j] = IF j < k THEN old[j] ELSE old[j + 1]
  BY <1>1, <1>2, RemoveAtFacts
<1> HIDE DEF q, at
<1>5. WithoutAt(q, old, k)
  BY <1>2, <1>4 DEF WithoutAt
<1>6. Sound([queues |-> WithLevel(b, o.side, o.price_ray, q),
             orders |-> Drop(b.orders, old[k])])
  BY <1>1, <1>5, RemoveSound
<1>7. QED
  BY <1>2, <1>3, <1>6

-----------------------------------------------------------------------------
\* n holds no order and no level that b does not hold, and no ticket changes.
Shrinks(n, b) ==
  /\ DOMAIN n.orders \subseteq DOMAIN b.orders
  /\ \A id \in DOMAIN n.orders : n.orders[id].ticket = b.orders[id].ticket
  /\ \A side \in Sides : DOMAIN n.queues[side] \subseteq DOMAIN b.queues[side]

\* Cancelling only removes (orderbook.rs:67).
LEMMA CancelShrinks ==
  ASSUME NEW b, Sound(b), NEW id \in DOMAIN b.orders
  PROVE  Shrinks(CancelOrder(b, id), b)
<1> DEFINE o == b.orders[id]
           old == Level(b, o.side, o.price_ray)
           at == {i \in 1..Len(old) : old[i] = id}
           q == IF at = {} THEN old ELSE RemoveAt(old, CHOOSE i \in at : TRUE)
           W == WithLevel(b, o.side, o.price_ray, q)
           O == Drop(b.orders, id)
           n == CancelOrder(b, id)
<1>1. IsBook(b) /\ o.side \in Sides /\ o.price_ray \in DOMAIN b.queues[o.side]
  BY DEF Sound, IsBook, LevelsTyped, OrdersTyped, Consistent, LevelsLive, OrdersQueued, OrderRecord
<1>2. n.queues = W /\ n.orders = O
  BY DEF CancelOrder
<1>3. DOMAIN O \subseteq DOMAIN b.orders /\ \A x \in DOMAIN O : O[x] = b.orders[x]
  BY DEF Drop
<1> HIDE DEF q, W, O, n
<1>4. DOMAIN W[o.side] \subseteq DOMAIN b.queues[o.side]
  BY WithLevelFacts, <1>1 DEF W
<1>5. \A side \in Sides : side # o.side => W[side] = b.queues[side]
  BY WithLevelFacts, <1>1 DEF W
<1>6. QED
  BY <1>2, <1>3, <1>4, <1>5 DEF Shrinks, n

\* The order at the head of a level is a live order of that side and price, and
\* a trade with it moves at least one unit and no more than either side has.
LEMMA FrontFacts ==
  ASSUME NEW b, Sound(b), NEW in \in OrderRecord, in.remaining > 0,
         NEW best \in DOMAIN b.queues[Opposite(in.side)],
         NEW mo, mo = FrontOrder(b, in, best)
  PROVE  /\ mo \in OrderRecord
         /\ mo.order_id \in DOMAIN b.orders
         /\ mo = b.orders[mo.order_id]
         /\ mo.order_id = b.queues[Opposite(in.side)][best][1]
         /\ b.queues[Opposite(in.side)][best] \in Seq(OrderIds)
         /\ Len(b.queues[Opposite(in.side)][best]) \in Nat \ {0}
         /\ mo.side = Opposite(in.side)
         /\ mo.price_ray = best
         /\ TradeQty(b, in, best) \in Nat \ {0}
         /\ TradeQty(b, in, best) <= in.remaining
         /\ TradeQty(b, in, best) <= mo.remaining
<1> DEFINE s == Opposite(in.side)
           old == b.queues[s][best]
<1>1. IsBook(b) /\ Consistent(b) /\ s \in Sides
  BY DEF Sound, Opposite, Sides
<1>0. LevelsTyped(b) /\ OrdersTyped(b) /\ LevelsLive(b) /\ OrdersQueued(b) /\ s \in Sides
  BY <1>1 DEF IsBook, Consistent
<1>2. in.remaining \in Nat
  BY DEF OrderRecord
<1>3. old \in Seq(OrderIds) /\ old # <<>>
  <2> HIDE DEF s
  <2>1. old \in Seq(OrderIds)
    BY <1>0 DEF LevelsTyped, s
  <2>2. old # <<>>
    BY <1>0 DEF LevelsLive, s
  <2>3. QED
    BY <2>1, <2>2
<1>4. Len(old) \in Nat \ {0} /\ Head(old) = old[1] /\ 1 \in 1..Len(old)
  BY <1>3
<1>5. /\ old[1] \in DOMAIN b.orders
      /\ b.orders[old[1]].side = s
      /\ b.orders[old[1]].price_ray = best
  <2>1. \A i \in 1..Len(b.queues[s][best]) :
          /\ b.queues[s][best][i] \in DOMAIN b.orders
          /\ b.orders[b.queues[s][best][i]].side = s
          /\ b.orders[b.queues[s][best][i]].price_ray = best
    <3>1. LevelLive(b, s, best)
      BY <1>0, LiveLevel
    <3> QED
      BY <3>1 DEF LevelLive
  <2>2. QED
    BY <1>4, <2>1
<1>6. mo = b.orders[old[1]]
  BY <1>4 DEF FrontOrder
<1> HIDE DEF old, s
<1>7. /\ mo \in OrderRecord
      /\ mo.order_id = old[1]
      /\ mo.remaining > 0
  <2>1. mo \in OrderRecord
    BY <1>0, <1>5, <1>6 DEF OrdersTyped
  <2>2. mo.order_id = old[1] /\ mo.remaining > 0
    BY <1>0, <1>5, <1>6 DEF OrdersQueued
  <2>3. QED
    BY <2>1, <2>2
<1>8. mo.remaining \in Nat
  BY <1>7 DEF OrderRecord
<1>9. TradeQty(b, in, best) = IF in.remaining < mo.remaining
                              THEN in.remaining ELSE mo.remaining
  BY DEF TradeQty, MinU256
<1>10. /\ TradeQty(b, in, best) \in Nat \ {0}
       /\ TradeQty(b, in, best) <= in.remaining
       /\ TradeQty(b, in, best) <= mo.remaining
  <2> DEFINE n == in.remaining
             m == mo.remaining
  <2>1. n \in Nat /\ n > 0 /\ m \in Nat /\ m > 0
    BY <1>2, <1>7, <1>8
  <2>2. TradeQty(b, in, best) = IF n < m THEN n ELSE m
    BY <1>9
  <2> HIDE DEF n, m
  <2>3. /\ TradeQty(b, in, best) \in Nat \ {0}
        /\ TradeQty(b, in, best) <= n
        /\ TradeQty(b, in, best) <= m
    BY <2>1, <2>2
  <2>4. QED
    BY <2>3 DEF n, m
<1>11. mo.order_id \in DOMAIN b.orders /\ mo = b.orders[mo.order_id]
  BY <1>5, <1>6, <1>7
<1>12. mo.side = s /\ mo.price_ray = best
  BY <1>5, <1>6
<1>13. old = b.queues[Opposite(in.side)][best] /\ s = Opposite(in.side)
  BY DEF old, s
<1>14. /\ b.queues[Opposite(in.side)][best] \in Seq(OrderIds)
       /\ Len(b.queues[Opposite(in.side)][best]) \in Nat \ {0}
       /\ mo.order_id = b.queues[Opposite(in.side)][best][1]
       /\ mo.side = Opposite(in.side)
  BY <1>3, <1>4, <1>7, <1>12, <1>13
<1>15. QED
  BY <1>7, <1>10, <1>11, <1>12, <1>14

\* Lowering what one live order has left, but not to zero, keeps a book sound.
LEMMA LowerSound ==
  ASSUME NEW b, Sound(b), NEW id \in DOMAIN b.orders, NEW left \in Nat \ {0},
         NEW n,
         n = [queues |-> b.queues,
              orders |-> Put(b.orders, id, [b.orders[id] EXCEPT !.remaining = left])]
  PROVE  Sound(n) /\ Shrinks(n, b)
<1> DEFINE O == Put(b.orders, id, [b.orders[id] EXCEPT !.remaining = left])
<1>1. IsBook(b) /\ Consistent(b) /\ InTimeOrder(b)
  BY DEF Sound
<1>0. /\ LevelsTyped(b) /\ OrdersTyped(b)
      /\ LevelsLive(b) /\ OrdersQueued(b)
  BY <1>1 DEF IsBook, Consistent
<1>2. n.queues = b.queues /\ n.orders = O /\ n = [queues |-> n.queues, orders |-> n.orders]
  OBVIOUS
<1>3. DOMAIN O = DOMAIN b.orders /\ O = [x \in DOMAIN O |-> O[x]]
  BY DEF Put
<1>4. \A x \in DOMAIN b.orders : x # id => O[x] = b.orders[x]
  BY DEF Put
<1>5. O[id] = [b.orders[id] EXCEPT !.remaining = left]
  BY DEF Put
<1>6. b.orders[id] \in OrderRecord
  BY <1>0 DEF OrdersTyped
<1>7. /\ O[id] \in OrderRecord
      /\ O[id].order_id = b.orders[id].order_id
      /\ O[id].side = b.orders[id].side
      /\ O[id].price_ray = b.orders[id].price_ray
      /\ O[id].ticket = b.orders[id].ticket
      /\ O[id].remaining > 0
  BY <1>5, <1>6 DEF OrderRecord
<1> HIDE DEF O
<1>8. \A x \in DOMAIN b.orders :
         /\ O[x] \in OrderRecord
         /\ O[x].order_id = b.orders[x].order_id
         /\ O[x].side = b.orders[x].side
         /\ O[x].price_ray = b.orders[x].price_ray
         /\ O[x].ticket = b.orders[x].ticket
         /\ O[x].remaining > 0
  <2>1. ASSUME NEW x \in DOMAIN b.orders, x # id
        PROVE  b.orders[x] \in OrderRecord /\ b.orders[x].remaining > 0
    BY <1>0 DEF OrdersTyped, OrdersQueued
  <2>2. QED
    BY <1>4, <1>7, <2>1
<1>9. IsBook(n)
  <2>1. LevelsTyped(n)
    BY <1>0, <1>2 DEF LevelsTyped
  <2>2. OrdersTyped(n)
    BY <1>0, <1>2, <1>3, <1>8 DEF OrdersTyped
  <2>3. QED
    BY <1>2, <2>1, <2>2 DEF IsBook
<1>10. Consistent(n)
  <2>1. \A side \in Sides : \A p \in DOMAIN b.queues[side] :
          /\ b.queues[side][p] # <<>>
          /\ \A i \in 1..Len(b.queues[side][p]) :
               /\ b.queues[side][p][i] \in DOMAIN O
               /\ O[b.queues[side][p][i]].side = side
               /\ O[b.queues[side][p][i]].price_ray = p
    <3>1. ASSUME NEW side \in Sides, NEW p \in DOMAIN b.queues[side]
          PROVE  /\ b.queues[side][p] # <<>>
                 /\ \A i \in 1..Len(b.queues[side][p]) :
                      /\ b.queues[side][p][i] \in DOMAIN b.orders
                      /\ b.orders[b.queues[side][p][i]].side = side
                      /\ b.orders[b.queues[side][p][i]].price_ray = p
      <4>1. LevelLive(b, side, p)
        BY <1>0, LiveLevel
      <4> QED
        BY <4>1 DEF LevelLive
    <3>2. QED
      BY <1>3, <1>8, <3>1
  <2>2. \A x \in DOMAIN O :
          /\ O[x].order_id = x
          /\ O[x].remaining > 0
          /\ O[x].price_ray \in DOMAIN b.queues[O[x].side]
          /\ \E i \in 1..Len(b.queues[O[x].side][O[x].price_ray]) :
               b.queues[O[x].side][O[x].price_ray][i] = x
    <3>1. ASSUME NEW x \in DOMAIN b.orders
          PROVE  /\ b.orders[x].order_id = x
                 /\ b.orders[x].price_ray \in DOMAIN b.queues[b.orders[x].side]
                 /\ \E i \in 1..Len(b.queues[b.orders[x].side][b.orders[x].price_ray]) :
                      b.queues[b.orders[x].side][b.orders[x].price_ray][i] = x
      BY <1>0 DEF OrdersQueued
    <3>2. ASSUME NEW x \in DOMAIN O
          PROVE  /\ O[x].order_id = x
                 /\ O[x].remaining > 0
                 /\ O[x].price_ray \in DOMAIN b.queues[O[x].side]
                 /\ \E i \in 1..Len(b.queues[O[x].side][O[x].price_ray]) :
                      b.queues[O[x].side][O[x].price_ray][i] = x
      <4>1. x \in DOMAIN b.orders
        BY <1>3
      <4>2. /\ O[x].order_id = b.orders[x].order_id
            /\ O[x].side = b.orders[x].side
            /\ O[x].price_ray = b.orders[x].price_ray
            /\ O[x].remaining > 0
        BY <1>8, <4>1
      <4>3. QED
        BY <3>1, <4>1, <4>2
    <3>3. QED
      BY <3>2
  <2>3. QED
    <3>1. LevelsLive(n)
      BY <1>2, <2>1 DEF LevelsLive
    <3>2. OrdersQueued(n)
      <4>1. ASSUME NEW x \in DOMAIN n.orders
            PROVE  /\ n.orders[x].order_id = x
                   /\ n.orders[x].remaining > 0
                   /\ n.orders[x].price_ray \in DOMAIN n.queues[n.orders[x].side]
                   /\ \E i \in 1..Len(n.queues[n.orders[x].side][n.orders[x].price_ray]) :
                        n.queues[n.orders[x].side][n.orders[x].price_ray][i] = x
        BY <1>2, <2>2
      <4>2. QED
        BY <4>1 DEF OrdersQueued
    <3>3. QED
      BY <3>1, <3>2 DEF Consistent
<1>11. InTimeOrder(n)
  <2>1. ASSUME NEW side \in Sides, NEW p \in DOMAIN b.queues[side],
               NEW i \in 1..Len(b.queues[side][p]),
               NEW j \in 1..Len(b.queues[side][p]), i < j
        PROVE  O[b.queues[side][p][i]].ticket < O[b.queues[side][p][j]].ticket
    <3>1. /\ b.queues[side][p][i] \in DOMAIN b.orders
          /\ b.queues[side][p][j] \in DOMAIN b.orders
      BY <1>0 DEF LevelsLive
    <3>2. b.orders[b.queues[side][p][i]].ticket < b.orders[b.queues[side][p][j]].ticket
      BY <1>1, <2>1 DEF InTimeOrder
    <3>3. QED
      BY <1>8, <3>1, <3>2
  <2>2. QED
    BY <1>2, <2>1 DEF InTimeOrder
<1>12. QED
  BY <1>2, <1>3, <1>8, <1>9, <1>10, <1>11 DEF Sound, Shrinks

\* One turn of the matching loop keeps the book sound and adds nothing to it
\* (matching.rs:153-204, 240-291).
LEMMA MatchSound ==
  ASSUME NEW b, Sound(b), NEW in \in OrderRecord, in.remaining > 0,
         NEW best \in DOMAIN b.queues[Opposite(in.side)]
  PROVE  Sound(MatchFront(b, in, best)) /\ Shrinks(MatchFront(b, in, best), b)
<1> DEFINE s == Opposite(in.side)
           old == b.queues[s][best]
           mo == FrontOrder(b, in, best)
           left == mo.remaining - TradeQty(b, in, best)
           n == MatchFront(b, in, best)
<1>1. /\ mo \in OrderRecord
      /\ mo.order_id \in DOMAIN b.orders
      /\ mo = b.orders[mo.order_id]
      /\ mo.order_id = old[1]
      /\ old \in Seq(OrderIds)
      /\ Len(old) \in Nat \ {0}
      /\ TradeQty(b, in, best) \in Nat \ {0}
      /\ TradeQty(b, in, best) <= mo.remaining
  BY FrontFacts
<1>2. s \in Sides /\ mo.remaining \in Nat /\ IsBook(b)
  BY <1>1 DEF Opposite, Sides, OrderRecord, Sound
<1>3. CASE left = 0
  <2>1. n = [queues |-> WithLevel(b, s, best, Tail(old)),
             orders |-> Drop(b.orders, old[1])]
    BY <1>1, <1>3 DEF MatchFront
  <2>2. WithoutAt(Tail(old), old, 1)
    BY <1>1 DEF WithoutAt
  <2>3. Sound([queues |-> WithLevel(b, s, best, Tail(old)),
               orders |-> Drop(b.orders, old[1])])
    BY <1>2, <2>2, RemoveSound
  <2> DEFINE W == WithLevel(b, s, best, Tail(old))
             O == Drop(b.orders, old[1])
  <2>4. n.queues = W /\ n.orders = O
    BY <2>1
  <2>5. DOMAIN O \subseteq DOMAIN b.orders /\ \A x \in DOMAIN O : O[x] = b.orders[x]
    BY DEF Drop
  <2> HIDE DEF W, O, n, s
  <2>6. DOMAIN W[s] \subseteq DOMAIN b.queues[s]
    BY WithLevelFacts, <1>2 DEF W, s
  <2>7. \A side \in Sides : side # s => W[side] = b.queues[side]
    BY WithLevelFacts, <1>2 DEF W, s
  <2>8. Shrinks(n, b)
    BY <2>4, <2>5, <2>6, <2>7 DEF Shrinks
  <2>9. QED
    BY <2>1, <2>3, <2>8 DEF n, s
<1>4. CASE left # 0
  <2>1. n = [queues |-> b.queues,
             orders |-> Put(b.orders, mo.order_id,
                            [b.orders[mo.order_id] EXCEPT !.remaining = left])]
    BY <1>1, <1>4 DEF MatchFront
  <2>2. left \in Nat \ {0}
    BY <1>1, <1>2, <1>4
  <2>3. QED
    BY <1>1, <2>1, <2>2, LowerSound
<1>5. QED
  BY <1>3, <1>4

-----------------------------------------------------------------------------
UncrossedBook(b) ==
  \A p \in DOMAIN b.queues["Buy"], q \in DOMAIN b.queues["Sell"] : p < q

\* An order that may no longer trade rests without crossing the book.
LEMMA InsertUncrossed ==
  ASSUME NEW b, Sound(b), UncrossedBook(b), NEW in \in OrderRecord,
         in.remaining > 0, ~CanTrade(b, in)
  PROVE  UncrossedBook(InsertLimitOrder(b, in))
<1> DEFINE s == in.side
           p == in.price_ray
           old == Level(b, s, p)
           q == Append(old, in.order_id)
           W == WithLevel(b, s, p, q)
           n == InsertLimitOrder(b, in)
<1>1. /\ IsBook(b) /\ s \in Sides /\ in.order_id \in OrderIds
      /\ p \in Nat
  BY DEF Sound, OrderRecord, Positive
<1>2. n.queues = W
  BY DEF InsertLimitOrder
<1>3. q # <<>>
  <2>1. old \in Seq(OrderIds)
    BY <1>1, LevelIsQueue
  <2> HIDE DEF old
  <2>2. QED
    BY <1>1, <2>1
<1> HIDE DEF q, p, s
<1>4. /\ DOMAIN W[s] = DOMAIN b.queues[s] \cup {p} /\ W[s][p] = q
      /\ \A side \in Sides : side # s => W[side] = b.queues[side]
  BY WithLevelFacts, <1>1, <1>3
<1> HIDE DEF W, n, old
<1>5. W[Opposite(s)] = b.queues[Opposite(s)]
  BY <1>1, <1>4 DEF Opposite, Sides
<1>6. \A x \in DOMAIN b.queues[Opposite(s)] : ~NoWorse(s, p, x) /\ x \in Nat
  BY <1>1 DEF CanTrade, Crosses, IsBook, LevelsTyped, OrdersTyped, Opposite, Sides, Positive, s, p
<1>7. CASE s = "Buy"
  BY <1>1, <1>2, <1>4, <1>5, <1>6, <1>7 DEF UncrossedBook, NoWorse, Opposite, n
<1>8. CASE s = "Sell"
  BY <1>1, <1>2, <1>4, <1>5, <1>6, <1>8 DEF UncrossedBook, NoWorse, Opposite, n
<1>9. QED
  BY <1>1, <1>7, <1>8 DEF Sides

LEMMA ShrinkUncrossed ==
  ASSUME NEW b, NEW n, UncrossedBook(b), Shrinks(n, b)
  PROVE  UncrossedBook(n)
BY DEF UncrossedBook, Shrinks, Sides
=============================================================================
