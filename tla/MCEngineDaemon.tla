--------------------------- MODULE MCEngineDaemon ---------------------------
(***************************************************************************)
(* Small instances of EngineDaemon for TLC.                                *)
(***************************************************************************)
EXTENDS EngineDaemon

CONSTANTS m1, m2

MCCallers == {Runner}
MCMakers == {m1, m2}
MCIds == 1..4

Req(id, side, qty) ==
  [order_id |-> id, company_id |-> 1, side |-> side, price_ray |-> 1,
   remaining |-> qty, maker |-> IF side = "Buy" THEN m1 ELSE m2]

\* Orders that others exhaust in one fill or in several, from either side.
FourOrders ==
  {Req(1, "Sell", 2), Req(1, "Sell", 3), Req(2, "Buy", 1), Req(3, "Buy", 2),
   Req(4, "Sell", 1)}
=============================================================================
