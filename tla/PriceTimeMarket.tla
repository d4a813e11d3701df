--------------------------- MODULE PriceTimeMarket ---------------------------
(***************************************************************************)
(* What a matching engine promises its callers, with no queues, levels,    *)
(* maps, callers or locks: each company has a set of resting orders and at *)
(* most one order being matched, and that order trades with the resting    *)
(* order that price and time put first until nothing it may trade with is  *)
(* left.  MatchEngine implements this specification.                       *)
(***************************************************************************)
EXTENDS Integers, FiniteSets

CONSTANTS Companies, Orders, NoOrder

VARIABLES
  resting,  \* company -> its resting orders
  taker     \* company -> the order being matched, or NoOrder

vars == <<resting, taker>>

Better(o, p) ==
  \/ IF o.side = "Buy" THEN o.price_ray > p.price_ray
                       ELSE o.price_ray < p.price_ray
  \/ o.price_ray = p.price_ray /\ o.ticket < p.ticket

Acceptable(in, o) ==
  /\ o.side # in.side
  /\ IF in.side = "Buy" THEN o.price_ray <= in.price_ray
                        ELSE o.price_ray >= in.price_ray

\* The resting orders that price-time priority lets `in` trade with: one or none.
First(in, R) ==
  {o \in R : /\ Acceptable(in, o)
             /\ \A p \in R : Acceptable(in, p) => p = o \/ Better(o, p)}

WithRemaining(o, n) == [o EXCEPT !.remaining = n]
Least(a, b) == IF a < b THEN a ELSE b

\* An order that may come to company c: later than all that rest there.
IsNew(o, c) ==
  /\ o \in Orders
  /\ o.company_id = c
  /\ o.remaining > 0
  /\ \A p \in resting[c] : p.ticket < o.ticket

Init ==
  /\ resting = [c \in Companies |-> {}]
  /\ taker = [c \in Companies |-> NoOrder]

Arrive(c) ==
  /\ taker[c] = NoOrder
  /\ IsNew(taker'[c], c)
  /\ taker' = [taker EXCEPT ![c] = taker'[c]]
  /\ UNCHANGED resting

Trade(c) ==
  /\ taker[c] # NoOrder
  /\ taker[c].remaining > 0
  /\ \E o \in First(taker[c], resting[c]) :
       LET qty == Least(taker[c].remaining, o.remaining)
           rest == {WithRemaining(o, o.remaining - qty)}
       IN /\ taker' = [taker EXCEPT ![c].remaining = @ - qty]
          /\ resting' = [resting EXCEPT ![c] =
               (@ \ {o}) \cup {r \in rest : r.remaining > 0}]

\* Matching is over: the remainder rests, if there is one and its id is free.
Rest(c) ==
  /\ taker[c] # NoOrder
  /\ \/ taker[c].remaining = 0
     \/ \A o \in resting[c] : ~Acceptable(taker[c], o)
  /\ resting' = [resting EXCEPT ![c] = @ \cup
       {o \in {taker[c]} : /\ o.remaining > 0
                           /\ \A p \in resting[c] : p.order_id # o.order_id}]
  /\ taker' = [taker EXCEPT ![c] = NoOrder]

\* An order that is only recorded, and a cancelled order.
Post(c) ==
  /\ taker[c] = NoOrder
  /\ \E o \in resting'[c] :
       /\ IsNew(o, c)
       /\ \A p \in resting[c] : p.order_id # o.order_id
       /\ resting' = [resting EXCEPT ![c] = @ \cup {o}]
  /\ UNCHANGED taker

Cancel(c) ==
  /\ taker[c] = NoOrder
  /\ \E o \in resting[c] : resting' = [resting EXCEPT ![c] = @ \ {o}]
  /\ UNCHANGED taker

Next ==
  \E c \in Companies :
    Arrive(c) \/ Trade(c) \/ Rest(c) \/ Post(c) \/ Cancel(c)

Safety == Init /\ [][Next]_vars

\* An order that is being matched is matched to the end.
Spec ==
  /\ Safety
  /\ \A c \in Companies : WF_vars(Trade(c) \/ Rest(c))
=============================================================================
