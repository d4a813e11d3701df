---------------------------- MODULE SettlementPath ----------------------------
(***************************************************************************)
(* What the daemon promises to those who trade on chain, with no engine,   *)
(* queues, batches, transactions or retries: fills are made between placed *)
(* orders and never for more than was placed, they are done with in the    *)
(* order in which they were made, and a settlement is executed in its turn *)
(* or later, never before one of an earlier fill that is still to be       *)
(* executed, and never once it is reported as confirmed.  A settlement     *)
(* that failed may yet be executed, and executed again: EngineDaemon, which *)
(* implements this specification, can promise no more.                     *)
(***************************************************************************)
EXTENDS Sums, Sequences

CONSTANTS
  Requests,  \* the orders that traders may place
  Fill,      \* the fills that there can be
  Fills      \* their numbers

VARIABLES
  market,    \* id -> order, what remains of it, whether it is active
  made,      \* the fills, in the order in which they were made
  resolved,  \* fill -> "open", "skipped", "confirmed" or "failed"
  applied    \* fill -> times that its settlement was executed

vars == <<market, made, resolved, applied>>

Parties(f) == {f.maker_order_id, f.taker_order_id}

\* What the fills q take from an order.
Taken(q, id) ==
  SumTo([k \in 1..Len(q) |-> IF id \in Parties(q[k]) THEN q[k].vstk_amount ELSE 0], Len(q))

\* All fills before the k-th are done with.
InTurn(k) == \A j \in 1..(k - 1) : resolved[j] # "open"

Init ==
  /\ DOMAIN market = {}
  /\ made = <<>>
  /\ resolved = [k \in Fills |-> "open"]
  /\ applied = [k \in Fills |-> 0]

Place ==
  \E r \in Requests :
    /\ r.order_id \notin DOMAIN market
    /\ market' = [id \in DOMAIN market \cup {r.order_id} |->
         IF id = r.order_id THEN [order |-> r, remaining |-> r.remaining, active |-> TRUE]
                            ELSE market[id]]
    /\ UNCHANGED <<made, resolved, applied>>

Cancel ==
  /\ \E id \in DOMAIN market :
       market[id].active /\ market' = [market EXCEPT ![id].active = FALSE]
  /\ UNCHANGED <<made, resolved, applied>>

\* New fills, of orders that have as much, counted over all fills there were.
Make ==
  /\ Len(made') > Len(made)
  /\ \A k \in 1..Len(made) : made'[k] = made[k]
  /\ \A k \in (Len(made) + 1)..Len(made') :
       /\ k \in Fills
       /\ made'[k] \in Fill
       /\ made'[k].vstk_amount > 0
       /\ Parties(made'[k]) \subseteq DOMAIN market
  /\ \A id \in DOMAIN market : Taken(made', id) <= market[id].order.remaining
  /\ UNCHANGED <<market, resolved, applied>>

\* The next fill's settlement has ended, as far as the daemon can tell.
Resolve ==
  /\ \E k \in 1..Len(made) : \E outcome \in {"confirmed", "failed"} :
       /\ InTurn(k)
       /\ resolved[k] = "open"
       /\ resolved' = [resolved EXCEPT ![k] = outcome]
  /\ UNCHANGED <<market, made, applied>>

\* The next fills, up to the n-th, are not to be settled at all.
Skip ==
  /\ \E n \in 1..Len(made) :
       /\ resolved[n] = "open"
       /\ resolved' = [k \in Fills |-> IF k <= n /\ resolved[k] = "open"
                                         THEN "skipped" ELSE resolved[k]]
  /\ UNCHANGED <<market, made, applied>>

LessTraded(o, qty) ==
  [o EXCEPT !.remaining = @ - qty, !.active = @ /\ o.remaining > qty]

Execute ==
  /\ \E k \in 1..Len(made) :
       /\ InTurn(k)
       /\ resolved[k] \in {"open", "failed"}
       /\ \A j \in Fills : j > k => applied[j] = 0
       /\ \A id \in Parties(made[k]) :
            market[id].active /\ market[id].remaining >= made[k].vstk_amount
       /\ market' = [id \in DOMAIN market |->
            IF id \in Parties(made[k]) THEN LessTraded(market[id], made[k].vstk_amount)
                                       ELSE market[id]]
       /\ applied' = [applied EXCEPT ![k] = @ + 1]
  /\ UNCHANGED <<made, resolved>>

Next == Place \/ Cancel \/ Make \/ Resolve \/ Skip \/ Execute

Safety == Init /\ [][Next]_vars

\* Every fill that was made is done with in the end.
Spec == Safety /\ WF_vars(Resolve \/ Skip)
=============================================================================
