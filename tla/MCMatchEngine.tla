--------------------------- MODULE MCMatchEngine ---------------------------
(***************************************************************************)
(* Small instances of MatchEngine for TLC.                                 *)
(***************************************************************************)
EXTENDS MatchEngine

CONSTANTS t1, t2, m1, m2

MCCallers == {t1, t2}
MCMakers == {m1, m2}
MCIds == 1..4

Req(id, c, side, price, qty) ==
  [order_id |-> id, company_id |-> c, side |-> side, price_ray |-> price,
   remaining |-> qty, maker |-> IF id = 1 THEN m1 ELSE m2]

CallerSymmetry == Permutations(MCCallers)

\* Prices and sizes that make fills partial on both sides, two levels, two orders
\* of one level, and an id that comes back.
DeepRequests ==
  {Req(id, 1, side, p, q) : id \in {1}, side \in Sides, p \in 1..2, q \in {1}}
    \cup {Req(id, 1, "Sell", p, 2) : id \in {2, 3}, p \in 1..2}
    \cup {Req(id, 1, "Buy", 2, q) : id \in {2, 4}, q \in {1, 3}}

\* The same ids in two companies.
TwoBookRequests ==
  {Req(1, c, side, p, q) : c \in {1, 2}, side \in Sides, p \in 1..2, q \in {1, 2}}
    \cup {Req(2, c, "Buy", 2, 2) : c \in {1, 2}}
=============================================================================
