-------------------------- MODULE EngineDaemon_proofs --------------------------
(***************************************************************************)
(* Safety of the daemon's settlement path for any orders, capacities,      *)
(* batch sizes and numbers of attempts.  The runner is one caller of the   *)
(* engine, so what is proved of the engine holds in the daemon; on top of  *)
(* that stand the order of the fills in the pipeline, the counter of       *)
(* pending settlements and the pause after failures.                       *)
(***************************************************************************)
EXTENDS EngineDaemon, MatchEngine_proofs

-----------------------------------------------------------------------------
(* The daemon drives the engine by the engine's own steps. *)

EngineInv == IInv /\ Accounted /\ NoFillsBefore /\ FillsAddUp

LEMMA RunnerCalls == Runner \in Callers
  BY DaemonAssumption

\* The head of a queue of typed elements.
LEMMA HeadTyped ==
  ASSUME NEW S, NEW q \in Seq(S), q # <<>>
  PROVE  /\ Head(q) \in S /\ Tail(q) \in Seq(S)
         /\ Len(q) \in Nat \ {0} /\ Len(Tail(q)) = Len(q) - 1
         /\ Head(q) = q[1]
         /\ \A i \in 1..Len(Tail(q)) : Tail(q)[i] = q[i + 1]
  OBVIOUS

LEMMA AppendAssociates ==
  ASSUME NEW q \in Seq(Fill), NEW r \in Seq(Fill), NEW x \in Fill
  PROVE  q \o Append(r, x) = Append(q \o r, x)
  OBVIOUS

\* Whatever pauses the engine in the settler is its pause_matching.
LEMMA CallFailsPauses ==
  ASSUME CallFails, UNCHANGED engineRest
  PROVE  PauseMatching \/ UNCHANGED vars
  BY DEF CallFails, PauseAfter, PauseMatching, engineRest, vars, historyVars

LEMMA EngineStep ==
  ASSUME events \in Seq(Event), [DaemonNext]_allVars
  PROVE  [PlacementNext]_vars
<1>0. Runner \in Callers
  BY RunnerCalls
<1>1. ASSUME NEW k, RunnerReady(k) PROVE Head(events).order \in Requests
  <2>1. Head(events) \in Event
    BY <1>1, HeadTyped DEF RunnerReady
  <2> QED
    BY <2>1 DEF Event
<1>2. CASE TakePlaced
  BY <1>0, <1>1, <1>2 DEF TakePlaced, PlacementNext, Placement, Admit
<1>3. CASE TakeCancelled
  <2>1. Head(events).order \in Requests
    BY <1>1, <1>3 DEF TakeCancelled
  <2>2. Head(events).order.company_id \in Companies /\ Head(events).order.order_id \in OrderIds
    BY <2>1, RequestsAssumption
  <2>3. IngestCancel(Runner)
    BY <1>3, <2>2 DEF TakeCancelled, IngestCancel
  <2> QED
    BY <1>0, <2>3 DEF PlacementNext
<1>4. CASE Match \/ EndMatch
  BY <1>0, <1>4 DEF Match, EndMatch, PlacementNext, Placement
<1>5. CASE GasPriceFails \/ ReceiptFails
  BY <1>5, CallFailsPauses DEF GasPriceFails, ReceiptFails, PlacementNext
<1>6. CASE SendFails
  <2>1. (CallFails /\ UNCHANGED engineRest) \/ UNCHANGED vars
    BY <1>6 DEF SendFails, engineRest, vars, historyVars
  <2> QED
    BY <2>1, CallFailsPauses DEF PlacementNext
<1>7. CASE PlaceOrder \/ CancelOnChain \/ CountFill \/ SendFill \/ ReceiveFill
           \/ FlushInterval \/ SendSucceeds \/ ReceiptArrives \/ Include
  BY <1>7 DEF PlaceOrder, CancelOnChain, CountFill, SendFill, ReceiveFill,
              FlushInterval, SendSucceeds, ReceiptArrives, Include
<1>8. CASE UNCHANGED allVars
  BY <1>8 DEF allVars
<1> QED
  BY <1>2, <1>3, <1>4, <1>5, <1>6, <1>7, <1>8 DEF DaemonNext, RunnerStep, SettlerStep

LEMMA EngineKept ==
  ASSUME EngineInv, events \in Seq(Event), [DaemonNext]_allVars
  PROVE  EngineInv'
<1>1. [Next]_vars
  BY EngineStep DEF Next
<1> QED
  BY <1>1, NextIInv, NextAccounted, FillsStep DEF EngineInv

LEMMA EngineStarts == DaemonInit => EngineInv
  BY InitIInv, InitAccounted DEF DaemonInit, EngineInv, Init, NoFillsBefore, FillsAddUp

-----------------------------------------------------------------------------
(* Queues of consecutive numbers. *)

Consecutive(q, n) == \A i \in 1..Len(q) : q[i] = n + i

LEMMA ConsecutiveAppend ==
  ASSUME NEW S, NEW q \in Seq(S), NEW n \in Nat, Consecutive(q, n)
  PROVE  Consecutive(Append(q, n + Len(q) + 1), n)
<1> DEFINE x == n + Len(q) + 1
<1>1. /\ Len(Append(q, x)) = Len(q) + 1 /\ Len(q) \in Nat
      /\ Append(q, x)[Len(q) + 1] = x
      /\ \A i \in 1..Len(q) : Append(q, x)[i] = q[i]
  OBVIOUS
<1>2. \A i \in 1..(Len(q) + 1) : i \in 1..Len(q) \/ i = Len(q) + 1
  BY <1>1
<1>3. x = n + (Len(q) + 1)
  BY <1>1
<1> HIDE DEF x
<1> QED
  BY <1>1, <1>2, <1>3 DEF Consecutive, x

LEMMA ConsecutiveTail ==
  ASSUME NEW S, NEW q \in Seq(S), q # <<>>, NEW n \in Nat, Consecutive(q, n)
  PROVE  Head(q) = n + 1 /\ Consecutive(Tail(q), n + 1)
<1>1. /\ Len(q) \in Nat \ {0} /\ Len(Tail(q)) = Len(q) - 1 /\ Head(q) = q[1]
      /\ \A i \in 1..Len(Tail(q)) : Tail(q)[i] = q[i + 1]
  BY HeadTyped
<1>2. \A i \in 1..Len(Tail(q)) : i + 1 \in 1..Len(q) /\ n + (i + 1) = (n + 1) + i
  BY <1>1
<1> QED
  BY <1>1, <1>2 DEF Consecutive

LEMMA ConsecutiveJoin ==
  ASSUME NEW S, NEW p \in Seq(S), NEW q \in Seq(S), NEW n \in Nat,
         Consecutive(p, n), Consecutive(q, n + Len(p))
  PROVE  /\ p \o q \in Seq(S) /\ Len(p \o q) = Len(p) + Len(q)
         /\ Consecutive(p \o q, n)
<1>1. /\ p \o q \in Seq(S) /\ Len(p \o q) = Len(p) + Len(q)
      /\ Len(p) \in Nat /\ Len(q) \in Nat
      /\ \A i \in 1..(Len(p) + Len(q)) :
           (p \o q)[i] = IF i <= Len(p) THEN p[i] ELSE q[i - Len(p)]
  OBVIOUS
<1>2. ASSUME NEW i \in 1..(Len(p) + Len(q)) PROVE (p \o q)[i] = n + i
  <2>1. CASE i <= Len(p)
    BY <1>1, <2>1 DEF Consecutive
  <2>2. CASE i > Len(p)
    <3>1. i - Len(p) \in 1..Len(q) /\ (n + Len(p)) + (i - Len(p)) = n + i
      BY <1>1, <2>2
    <3> QED
      BY <1>1, <2>2, <3>1 DEF Consecutive
  <2> QED
    BY <1>1, <2>1, <2>2
<1> QED
  BY <1>1, <1>2 DEF Consecutive

LEMMA ConsecutiveSet ==
  ASSUME NEW S, NEW q \in Seq(S), NEW n \in Nat, Consecutive(q, n)
  PROVE  ToSet(q) = (n + 1)..(n + Len(q))
<1>1. DOMAIN q = 1..Len(q) /\ Len(q) \in Nat
  OBVIOUS
<1>2. ASSUME NEW x \in ToSet(q) PROVE x \in (n + 1)..(n + Len(q))
  BY <1>1 DEF ToSet, Consecutive
<1>3. ASSUME NEW x \in (n + 1)..(n + Len(q)) PROVE x \in ToSet(q)
  <2>1. x - n \in 1..Len(q) /\ n + (x - n) = x
    BY <1>1
  <2>2. q[x - n] = x
    BY <2>1 DEF Consecutive
  <2> QED
    BY <1>1, <2>1, <2>2 DEF ToSet
<1> QED
  BY <1>2, <1>3

-----------------------------------------------------------------------------
(***************************************************************************)
(* One turn of the matching loop, seen by order: qty is taken from the     *)
(* taker `in` and from the resting order mo, and it exhausts one of them.  *)
(***************************************************************************)
OneFill(t, in, mo, qty, f) ==
  /\ mo \in OrderRecord /\ in \in OrderRecord /\ f \in Fill
  /\ mo.order_id \in DOMAIN books[in.company_id].orders
  /\ mo = books[in.company_id].orders[mo.order_id]
  /\ qty \in Nat \ {0} /\ qty <= in.remaining /\ qty <= mo.remaining
  /\ qty = in.remaining \/ qty = mo.remaining
  /\ f.maker_order_id = mo.order_id /\ f.taker_order_id = in.order_id
  /\ f.vstk_amount = qty
  /\ in.ticket \in 1..arrivals /\ mo.ticket \in 1..arrivals /\ in.ticket # mo.ticket
  /\ traded[in.ticket] + in.remaining = size[in.ticket]
  /\ traded[mo.ticket] + mo.remaining = size[mo.ticket]
  /\ traded'[in.ticket] = traded[in.ticket] + qty
  /\ traded'[mo.ticket] = traded[mo.ticket] + qty
  /\ \A k \in Tickets : k # mo.ticket /\ k # in.ticket => traded'[k] = traded[k]
  /\ fills'[t] = Append(fills[t], f)
  /\ incoming'[t] = [in EXCEPT !.remaining = in.remaining - qty]
  /\ \A c \in Companies :
       /\ DOMAIN books'[c].orders \subseteq DOMAIN books[c].orders
       /\ \A id \in DOMAIN books'[c].orders :
            IF c = in.company_id /\ id = mo.order_id
              THEN books'[c].orders[id] = [mo EXCEPT !.remaining = mo.remaining - qty]
              ELSE books'[c].orders[id] = books[c].orders[id]
  /\ pc[t] = "matching" /\ UNCHANGED <<pc, arrivals, size, gone>>

LEMMA MatchStepFills ==
  ASSUME IInv, Accounted, NEW t \in Callers, MatchStep(t)
  PROVE  \E mo, qty, f : OneFill(t, incoming[t], mo, qty, f)
<1> DEFINE in == incoming[t]
           c == in.company_id
           b == books[c]
<1>1. pc[t] = "matching" /\ in.remaining > 0 /\ UNCHANGED <<pc, arrivals, size, gone>>
  BY DEF MatchStep
<1>2. PICK best \in DOMAIN b.queues[Opposite(in.side)] :
        /\ books' = [books EXCEPT ![c] = MatchFront(b, in, best)]
        /\ incoming' = [incoming EXCEPT ![t].remaining = @ - TradeQty(b, in, best)]
        /\ fills' = [fills EXCEPT ![t] = Append(@, FillOf(b, in, best))]
        /\ traded' = [traded EXCEPT
                        ![FrontOrder(b, in, best).ticket] = @ + TradeQty(b, in, best),
                        ![in.ticket] = @ + TradeQty(b, in, best)]
  BY DEF MatchStep
<1>3. /\ in \in OrderRecord /\ c \in Companies /\ in.remaining \in Nat
      /\ in.ticket \in 1..arrivals /\ in.ticket \in Tickets
  BY <1>1, MatchingHolds
<1>4. /\ BooksTyped /\ SoundBooks /\ CallsTyped /\ HistoryTyped /\ TicketsGiven
      /\ RestingAccounted /\ TakersAccounted /\ RestingOrTaken
  BY DEF IInv, TypeOK, Accounted
<1>5. Sound(b)
  BY <1>3, <1>4 DEF SoundBooks
<1> DEFINE n == MatchFront(b, in, best)
           qty == TradeQty(b, in, best)
           mo == FrontOrder(b, in, best)
           f == FillOf(b, in, best)
<1>6. /\ mo.order_id \in DOMAIN b.orders /\ mo = b.orders[mo.order_id]
      /\ mo \in OrderRecord
      /\ qty \in Nat \ {0} /\ qty <= in.remaining /\ qty <= mo.remaining
  BY <1>1, <1>3, <1>5, FrontFacts
<1>7. qty = in.remaining \/ qty = mo.remaining
  BY DEF TradeQty, MinU256
<1>8. f \in Fill /\ f.vstk_amount = qty
  BY <1>1, <1>3, <1>5, FillType DEF FillOf
<1>9. f.maker_order_id = mo.order_id /\ f.taker_order_id = in.order_id
  BY DEF FillOf
<1>10. /\ DOMAIN n.orders = IF mo.remaining - qty = 0
                            THEN DOMAIN b.orders \ {mo.order_id} ELSE DOMAIN b.orders
       /\ \A id \in DOMAIN n.orders :
            n.orders[id] = IF id = mo.order_id
                           THEN [mo EXCEPT !.remaining = mo.remaining - qty]
                           ELSE b.orders[id]
  BY <1>1, <1>3, <1>5, MatchOrders
<1> HIDE DEF n, qty, mo, f
<1>11. \A d \in Companies : books'[d] = IF d = c THEN n ELSE books[d]
  BY <1>2, <1>3, <1>4 DEF BooksTyped, n
<1>12. \A d \in Companies :
         /\ DOMAIN books'[d].orders \subseteq DOMAIN books[d].orders
         /\ \A id \in DOMAIN books'[d].orders :
              IF d = c /\ id = mo.order_id
                THEN books'[d].orders[id] = [mo EXCEPT !.remaining = mo.remaining - qty]
                ELSE books'[d].orders[id] = books[d].orders[id]
  BY <1>10, <1>11
<1>13. incoming'[t] = [in EXCEPT !.remaining = in.remaining - qty]
  BY <1>2, <1>4 DEF CallsTyped, qty
<1>14. fills'[t] = Append(fills[t], f)
  BY <1>2, <1>4 DEF CallsTyped, f
<1>15. mo.ticket \in 1..arrivals /\ mo.ticket \in Tickets /\ mo.ticket # in.ticket
  <2>1. mo.ticket \in 1..arrivals
    BY <1>3, <1>4, <1>6 DEF TicketsGiven
  <2>2. mo.ticket # in.ticket
    BY <1>1, <1>3, <1>4, <1>6 DEF RestingOrTaken
  <2> QED
    BY <1>4, <2>1, <2>2, BoundAssumption DEF HistoryTyped, Tickets
<1>16. traded' = [traded EXCEPT ![mo.ticket] = @ + qty, ![in.ticket] = @ + qty]
  BY <1>2 DEF mo, qty
<1>17. /\ traded'[in.ticket] = traded[in.ticket] + qty
       /\ traded'[mo.ticket] = traded[mo.ticket] + qty
       /\ \A k \in Tickets : k # mo.ticket /\ k # in.ticket => traded'[k] = traded[k]
  <2>1. traded \in [Tickets -> Nat]
    BY <1>4 DEF HistoryTyped
  <2> HIDE DEF in
  <2> QED
    BY <1>3, <1>15, <1>16, <2>1
<1>18. /\ traded[in.ticket] + in.remaining = size[in.ticket]
       /\ traded[mo.ticket] + mo.remaining = size[mo.ticket]
  BY <1>1, <1>3, <1>4, <1>6 DEF TakersAccounted, RestingAccounted
<1>19. OneFill(t, in, mo, qty, f)
  <2> HIDE DEF in
  <2> QED
    BY <1>1, <1>3, <1>6, <1>7, <1>8, <1>9, <1>12, <1>13, <1>14, <1>15, <1>17, <1>18
       DEF OneFill, in, b, c
<1> QED
  BY <1>19

-----------------------------------------------------------------------------
(***************************************************************************)
(* Every fill exhausts an order that no earlier fill has exhausted, so     *)
(* there are no more fills than orders.                                    *)
(***************************************************************************)
Exhausted == {k \in 1..arrivals : traded[k] = size[k]}
FillsEver == Len(made) + (IF pc[Runner] = "matching" THEN Len(fills[Runner]) ELSE 0)
FillsExhaust == FillsEver <= Cardinality(Exhausted)

LEMMA MatchExhausts ==
  ASSUME IInv, Accounted, MatchStep(Runner)
  PROVE  Exhausted \subseteq Exhausted' /\ Exhausted' # Exhausted
<1>1. PICK mo, qty, f : OneFill(Runner, incoming[Runner], mo, qty, f)
  BY MatchStepFills, RunnerCalls
<1> DEFINE in == incoming[Runner]
<1>2. /\ arrivals' = arrivals /\ size' = size
      /\ in.ticket \in 1..arrivals /\ mo.ticket \in 1..arrivals
      /\ qty \in Nat \ {0}
      /\ qty = in.remaining \/ qty = mo.remaining
      /\ in.remaining \in Nat /\ mo.remaining \in Nat
      /\ qty <= in.remaining /\ qty <= mo.remaining
      /\ traded[in.ticket] + in.remaining = size[in.ticket]
      /\ traded[mo.ticket] + mo.remaining = size[mo.ticket]
      /\ traded'[in.ticket] = traded[in.ticket] + qty
      /\ traded'[mo.ticket] = traded[mo.ticket] + qty
      /\ \A k \in Tickets : k # mo.ticket /\ k # in.ticket => traded'[k] = traded[k]
  BY <1>1 DEF OneFill, OrderRecord
<1>3. /\ \A k \in 1..arrivals : k \in Tickets
      /\ \A k \in 1..arrivals : traded[k] \in Nat /\ size[k] \in Nat
  BY BoundAssumption DEF IInv, TypeOK, HistoryTyped, Tickets
<1> HIDE DEF in
<1>4. in.ticket \notin Exhausted /\ mo.ticket \notin Exhausted
  <2>1. in.remaining # 0 /\ mo.remaining # 0
    BY <1>2
  <2>2. traded[in.ticket] # size[in.ticket]
    BY <1>2, <1>3, <2>1
  <2>3. traded[mo.ticket] # size[mo.ticket]
    BY <1>2, <1>3, <2>1
  <2> QED
    BY <2>2, <2>3 DEF Exhausted
<1>5. in.ticket \in Exhausted' \/ mo.ticket \in Exhausted'
  BY <1>2, <1>3 DEF Exhausted
<1>6. ASSUME NEW k \in Exhausted PROVE k \in Exhausted'
  <2>1. k # mo.ticket /\ k # in.ticket /\ k \in 1..arrivals /\ traded[k] = size[k]
    BY <1>4 DEF Exhausted
  <2> QED
    BY <1>2, <1>3, <2>1 DEF Exhausted
<1> QED
  BY <1>4, <1>5, <1>6

LEMMA SmallerSet ==
  ASSUME NEW S, IsFiniteSet(S), NEW T, T \subseteq S
  PROVE  /\ IsFiniteSet(T) /\ Cardinality(T) \in Nat /\ Cardinality(S) \in Nat
         /\ Cardinality(T) <= Cardinality(S)
         /\ T # S => Cardinality(T) + 1 <= Cardinality(S)
<1>1. /\ IsFiniteSet(T) /\ Cardinality(T) <= Cardinality(S)
      /\ Cardinality(S) = Cardinality(T) => S = T
  BY FS_Subset
<1>2. Cardinality(T) \in Nat /\ Cardinality(S) \in Nat
  BY <1>1, FS_CardinalityType
<1> QED
  BY <1>1, <1>2

LEMMA ExhaustedFinite ==
  ASSUME HistoryTyped
  PROVE  IsFiniteSet(Exhausted) /\ Cardinality(Exhausted) \in Nat
         /\ Cardinality(Exhausted) <= MaxArrivals
<1>1. arrivals \in Nat /\ arrivals <= MaxArrivals /\ 1..arrivals \subseteq 1..MaxArrivals
  BY BoundAssumption DEF HistoryTyped
<1>2. IsFiniteSet(1..MaxArrivals) /\ Cardinality(1..MaxArrivals) = MaxArrivals
  BY FS_Interval, BoundAssumption
<1>3. Exhausted \subseteq 1..MaxArrivals
  BY <1>1 DEF Exhausted
<1> QED
  BY <1>2, <1>3, FS_Subset, FS_CardinalityType

LEMMA ExhaustStep ==
  ASSUME EngineInv, EngineInv', made \in Seq(Fill), FillsExhaust, unsent # <<>> => pc[Runner] = "idle",
         [DaemonNext]_allVars
  PROVE  FillsExhaust' /\ made' \in Seq(Fill)
<1>1. /\ HistoryTyped /\ HistoryTyped' /\ CallsTyped /\ NoFillsBefore /\ CallsTyped'
      /\ IInv /\ Accounted
  BY DEF EngineInv, IInv, TypeOK
<1>2. /\ fills[Runner] \in Seq(Fill) /\ fills'[Runner] \in Seq(Fill)
      /\ Runner \in Callers /\ pc \in [Callers -> {"idle", "admitted", "matching"}]
  BY <1>1, RunnerCalls DEF CallsTyped
<1>3. IsFiniteSet(Exhausted') /\ Cardinality(Exhausted') \in Nat
  <2>1. Exhausted' \subseteq 1..MaxArrivals
    BY <1>1, BoundAssumption DEF HistoryTyped, Exhausted
  <2>2. IsFiniteSet(1..MaxArrivals)
    BY FS_Interval, BoundAssumption
  <2> QED
    BY <2>1, <2>2, SmallerSet
<1>4. IsFiniteSet(Exhausted) /\ Cardinality(Exhausted) \in Nat
  BY <1>1, ExhaustedFinite
<1>5. ASSUME Exhausted \subseteq Exhausted' PROVE Cardinality(Exhausted) <= Cardinality(Exhausted')
  BY <1>3, <1>5, SmallerSet
<1>6. CASE EndMatch
  <2>1. /\ made' = made \o fills'[Runner] /\ pc[Runner] = "matching"
        /\ pc' = [pc EXCEPT ![Runner] = "idle"]
        /\ fills' = fills \/ fills' = [fills EXCEPT ![Runner] = <<>>]
        /\ UNCHANGED <<arrivals, size, traded>>
    BY <1>6 DEF EndMatch, Return
  <2>2. Len(fills'[Runner]) <= Len(fills[Runner]) /\ pc'[Runner] = "idle"
    BY <1>1, <1>2, <2>1 DEF CallsTyped
  <2>3. made' \in Seq(Fill) /\ Len(made') = Len(made) + Len(fills'[Runner])
    BY <1>2, <2>1
  <2>4. Exhausted' = Exhausted
    BY <2>1 DEF Exhausted
  <2> QED
    BY <1>2, <1>4, <2>1, <2>2, <2>3, <2>4 DEF FillsExhaust, FillsEver
<1>7. CASE Match /\ Acquire(Runner)
  <2>1. /\ made' = made /\ pc[Runner] = "admitted" /\ pc' = [pc EXCEPT ![Runner] = "matching"]
        /\ UNCHANGED <<fills, traded>> /\ arrivals' = arrivals + 1
        /\ size' = [size EXCEPT ![arrivals'] = incoming[Runner].remaining]
    BY <1>7 DEF Match, Acquire, daemonVars, runnerVars
  <2>2. fills'[Runner] = <<>> /\ pc'[Runner] = "matching"
    BY <1>1, <1>2, <2>1 DEF NoFillsBefore
  <2>3. Exhausted \subseteq Exhausted'
    BY <1>1, <2>1 DEF Exhausted, HistoryTyped
  <2> QED
    BY <1>2, <1>3, <1>4, <1>5, <2>1, <2>2, <2>3 DEF FillsExhaust, FillsEver
<1>8. CASE Match /\ MatchStep(Runner)
  <2>1. PICK mo, qty, f : OneFill(Runner, incoming[Runner], mo, qty, f)
    BY <1>1, <1>8, MatchStepFills, RunnerCalls
  <2>2. made' = made /\ pc[Runner] = "matching" /\ pc' = pc
        /\ f \in Fill /\ fills'[Runner] = Append(fills[Runner], f)
    BY <1>8, <2>1 DEF Match, OneFill, daemonVars, runnerVars
  <2>3. Len(fills'[Runner]) = Len(fills[Runner]) + 1 /\ Len(fills[Runner]) \in Nat
    BY <1>2, <2>2
  <2>4. Exhausted \subseteq Exhausted' /\ Exhausted # Exhausted'
    BY <1>1, <1>8, MatchExhausts
  <2>6. Cardinality(Exhausted) + 1 <= Cardinality(Exhausted')
    BY <1>3, <2>4, SmallerSet
  <2> QED
    BY <1>3, <1>4, <2>2, <2>3, <2>6 DEF FillsExhaust, FillsEver
<1>9. ASSUME UNCHANGED <<made, arrivals, size, traded>>,
             pc'[Runner] = "matching" => pc[Runner] = "matching" /\ fills'[Runner] = fills[Runner]
      PROVE  FillsExhaust' /\ made' \in Seq(Fill)
  <2>1. Exhausted' = Exhausted
    BY <1>9 DEF Exhausted
  <2>2. Len(fills[Runner]) \in Nat /\ Len(made) \in Nat
    BY <1>2
  <2> QED
    BY <1>4, <1>9, <2>1, <2>2 DEF FillsExhaust, FillsEver
<1>10. CASE TakePlaced
  <2>1. CASE UNCHANGED vars
    BY <1>9, <1>10, <2>1 DEF TakePlaced, vars
  <2>2. CASE ~UNCHANGED vars
    <3>1. /\ pc' = [pc EXCEPT ![Runner] = "admitted"]
          /\ UNCHANGED <<made, arrivals, size, traded>>
      BY <1>10, <2>2 DEF TakePlaced, Submit, historyVars
    <3> QED
      BY <1>2, <1>9, <3>1
  <2> QED
    BY <2>1, <2>2
<1>11. CASE TakeCancelled
  <2>1. /\ pc[Runner] = "idle" /\ UNCHANGED <<pc, made, arrivals, size, traded>>
    BY <1>11 DEF TakeCancelled, CancelResting
  <2> QED
    BY <1>9, <2>1
<1>12. CASE GasPriceFails \/ SendFails \/ ReceiptFails
  <2>1. UNCHANGED <<made, arrivals, size, traded, pc, fills>>
    BY <1>12 DEF GasPriceFails, SendFails, ReceiptFails, engineRest, historyVars, runnerVars
  <2> QED
    BY <1>9, <2>1
<1>13. CASE PlaceOrder \/ CancelOnChain \/ CountFill \/ SendFill \/ ReceiveFill
           \/ FlushInterval \/ SendSucceeds \/ ReceiptArrives \/ Include \/ UNCHANGED allVars
  <2>1. UNCHANGED <<made, arrivals, size, traded, pc, fills>>
    BY <1>13 DEF PlaceOrder, CancelOnChain, CountFill, SendFill, ReceiveFill,
              FlushInterval, SendSucceeds, ReceiptArrives, Include, vars, runnerVars,
              allVars, daemonVars
  <2> QED
    BY <1>9, <2>1
<1> QED
  BY <1>6, <1>7, <1>8, <1>10, <1>11, <1>12, <1>13
     DEF DaemonNext, RunnerStep, SettlerStep, Match

-----------------------------------------------------------------------------
(***************************************************************************)
(* The tasks and their queues.                                             *)
(***************************************************************************)
QueuesTyped ==
  /\ unsent \in Seq(Nat) /\ fill_queue \in Seq(Nat)
  /\ batch \in Seq(Nat) /\ calls \in Seq(Nat)
  /\ counted \in BOOLEAN /\ match_paused \in BOOLEAN /\ signer \in BOOLEAN
  /\ resolved \in [Fills -> {"open", "skipped", "confirmed", "failed"}]
  /\ pending_settlements \in Int /\ settlement_fail_streak \in Nat
  /\ Len(fill_queue) <= FillCapacity

\* The settler collects a batch or works on one, never both, and the runner
\* takes nothing up while it has fills to send.
TasksTakeTurns ==
  /\ settler \in {"collecting", "sending", "waiting"}
  /\ (settler = "collecting") <=> (calls = <<>>)
  /\ calls # <<>> => batch = <<>>
  /\ Len(batch) < BatchSize
  /\ attempt \in 0..(MaxAttempts - 1)
  /\ counted => unsent # <<>>
  /\ unsent # <<>> => pc[Runner] = "idle"

pipeline == <<made, unsent, counted, fill_queue, batch, calls, resolved,
              pending_settlements, settlement_fail_streak>>

\* The first call of the batch ends with the outcome r.
CallEnds(r) ==
  /\ calls # <<>>
  /\ calls' = Tail(calls)
  /\ resolved' = [resolved EXCEPT ![Head(calls)] = r]
  /\ settlement_fail_streak' = IF r = "failed" THEN settlement_fail_streak + 1 ELSE 0
  /\ pending_settlements' = IF r = "failed" THEN pending_settlements
                                            ELSE pending_settlements - 1
  /\ r = "failed" => PauseAfter(settlement_fail_streak')
  /\ r # "failed" => UNCHANGED match_paused
  /\ attempt' = 0
  /\ settler' = IF Len(calls) = 1 THEN "collecting" ELSE "sending"
  /\ UNCHANGED <<made, unsent, counted, fill_queue, batch, pc, signer>>

\* Nothing in the pipeline moves.
PipelineRests ==
  /\ UNCHANGED <<pipeline, match_paused, signer>>
  /\ (settler = "sending" /\ settler' = "waiting") \/ settler' = settler
  /\ attempt' = attempt \/ (attempt' = attempt + 1 /\ attempt' < MaxAttempts)
  /\ pc' = pc \/ unsent = <<>>

LEMMA PipelineMoves ==
  ASSUME TasksTakeTurns, CallsTyped, [DaemonNext]_allVars
  PROVE  \/ PipelineRests
         \/ EndMatch \/ CountFill \/ SendFill \/ ReceiveFill \/ FlushInterval
         \/ CallEnds("failed") \/ CallEnds("confirmed")
<1>1. CASE PlaceOrder \/ CancelOnChain \/ SendSucceeds \/ Include \/ UNCHANGED allVars
  <2>1. PipelineRests
    BY <1>1 DEF PlaceOrder, CancelOnChain, SendSucceeds, Include, PipelineRests, pipeline,
              vars, allVars, daemonVars, chainVars, runnerVars, settlerVars
  <2> QED
    BY <2>1
<1>2. CASE TakePlaced \/ TakeCancelled
  <2>1. unsent = <<>> /\ UNCHANGED <<pipeline, match_paused, signer, settler, attempt>>
    BY <1>2 DEF TakePlaced, TakeCancelled, RunnerReady, pipeline, settlerVars
  <2> QED
    BY <2>1 DEF PipelineRests
<1>3. CASE Match
  <2>1. pc[Runner] # "idle"
    BY <1>3 DEF Match, Acquire, MatchStep
  <2>2. UNCHANGED <<pipeline, match_paused, signer, settler, attempt>>
    BY <1>3 DEF Match, daemonVars, runnerVars, settlerVars, pipeline
  <2> QED
    BY <2>1, <2>2 DEF PipelineRests, TasksTakeTurns
<1>4. ASSUME CallFails, settler \in {"sending", "waiting"},
             UNCHANGED <<made, unsent, counted, fill_queue, batch, pc, signer>>
      PROVE  CallEnds("failed")
  BY <1>4 DEF CallFails, NextCall, CallEnds, TasksTakeTurns
<1>5. CASE GasPriceFails
  BY <1>4, <1>5 DEF GasPriceFails, engineRest, runnerVars
<1>6. CASE ReceiptFails
  BY <1>4, <1>6 DEF ReceiptFails, engineRest, runnerVars
<1>7. CASE SendFails
  <2>1. settler = "sending" /\ UNCHANGED <<made, unsent, counted, fill_queue, batch, pc, signer>>
    BY <1>7 DEF SendFails, engineRest, runnerVars
  <2>2. CASE CallFails
    BY <1>4, <2>1, <2>2
  <2>3. CASE ~CallFails
    <3>1. /\ attempt + 1 < MaxAttempts /\ attempt' = attempt + 1
          /\ UNCHANGED <<match_paused, pending_settlements, calls,
                       settler, settlement_fail_streak, resolved>>
      BY <1>7, <2>3 DEF SendFails
    <3> QED
      BY <2>1, <3>1 DEF PipelineRests, pipeline
  <2> QED
    BY <2>2, <2>3
<1>8. CASE ReceiptArrives
  <2>1. CallEnds("confirmed")
    BY <1>8 DEF ReceiptArrives, CallSucceeds, NextCall, CallEnds, TasksTakeTurns,
              vars, runnerVars
  <2> QED
    BY <2>1
<1> QED
  BY <1>1, <1>2, <1>3, <1>5, <1>6, <1>7, <1>8 DEF DaemonNext, RunnerStep, SettlerStep

\* What a flush of the queue q does, by whether there is a signer.
FlushTo(q) ==
  /\ batch' = <<>>
  /\ \/ /\ signer /\ calls' = q /\ settler' = "sending"
        /\ UNCHANGED <<pending_settlements, resolved>>
     \/ /\ ~signer /\ pending_settlements' = pending_settlements - Len(q)
        /\ resolved' = [k \in Fills |-> IF k \in ToSet(q) THEN "skipped" ELSE resolved[k]]
        /\ UNCHANGED <<calls, settler>>
  /\ UNCHANGED <<made, unsent, counted, settlement_fail_streak, pc, signer, match_paused, attempt>>

LEMMA Flushes ==
  ASSUME ReceiveFill \/ FlushInterval, TasksTakeTurns, QueuesTyped
  PROVE  /\ settler = "collecting" /\ calls = <<>>
         /\ \/ /\ batch # <<>> /\ fill_queue' = fill_queue /\ FlushTo(batch)
            \/ /\ fill_queue # <<>> /\ fill_queue' = Tail(fill_queue)
               /\ FlushTo(Append(batch, Head(fill_queue)))
            \/ /\ fill_queue # <<>> /\ fill_queue' = Tail(fill_queue)
               /\ batch' = Append(batch, Head(fill_queue))
               /\ Len(batch') < BatchSize
               /\ UNCHANGED <<made, unsent, counted, calls, resolved, pending_settlements,
                              settlement_fail_streak, settler, attempt, pc, signer, match_paused>>
<1>1. CASE FlushInterval
  BY <1>1 DEF FlushInterval, Flush, FlushTo, TasksTakeTurns, vars, runnerVars
<1>2. CASE ReceiveFill
  <2>1. CASE Flush(Append(batch, Head(fill_queue)))
    BY <1>2, <2>1 DEF ReceiveFill, Flush, FlushTo, TasksTakeTurns, vars, runnerVars
  <2>2. CASE ~Flush(Append(batch, Head(fill_queue)))
    BY <1>2, <2>2 DEF ReceiveFill, TasksTakeTurns, vars, runnerVars
  <2> QED
    BY <2>1, <2>2
<1> QED
  BY <1>1, <1>2

LEMMA TasksStep ==
  ASSUME TasksTakeTurns, QueuesTyped, CallsTyped, CallsTyped',
         made \in Seq(Fill), [DaemonNext]_allVars
  PROVE  TasksTakeTurns' /\ QueuesTyped'
<1>0. {FillCapacity, BatchSize, MaxAttempts, FailureLimit} \subseteq Nat \ {0}
  BY DaemonAssumption DEF Positive
<1>1. CASE PipelineRests
  <2>1. QueuesTyped'
    BY <1>1 DEF PipelineRests, pipeline, QueuesTyped
  <2>2. /\ UNCHANGED <<calls, batch, counted, unsent>>
        /\ (settler = "sending" /\ settler' = "waiting") \/ settler' = settler
        /\ attempt' = attempt \/ (attempt' = attempt + 1 /\ attempt' < MaxAttempts)
        /\ pc' = pc \/ unsent = <<>>
    BY <1>1 DEF PipelineRests, pipeline
  <2>3. attempt' \in 0..(MaxAttempts - 1)
    BY <1>0, <2>2 DEF TasksTakeTurns
  <2>4. TasksTakeTurns'
    BY <2>2, <2>3 DEF TasksTakeTurns
  <2> QED
    BY <2>1, <2>4
<1>2. CASE EndMatch
  <2>1. /\ pc[Runner] = "matching" /\ pc' = [pc EXCEPT ![Runner] = "idle"]
        /\ unsent' = Serials(fills'[Runner])
        /\ UNCHANGED <<counted, match_paused, signer, fill_queue, batch, calls, resolved,
                       settler, attempt, pending_settlements, settlement_fail_streak>>
    BY <1>2 DEF EndMatch, Return, settlerVars
  <2>2. pc'[Runner] = "idle" /\ fills'[Runner] \in Seq(Fill)
    BY <2>1, RunnerCalls DEF CallsTyped
  <2>3. Len(fills'[Runner]) \in Nat /\ Len(made) \in Nat
    BY <2>2
  <2>4. unsent' \in Seq(Nat)
    BY <2>1, <2>3 DEF Serials
  <2>5. counted' = FALSE
    BY <2>1 DEF TasksTakeTurns, QueuesTyped
  <2> QED
    BY <2>1, <2>2, <2>4, <2>5 DEF TasksTakeTurns, QueuesTyped
<1>3. CASE CountFill
  BY <1>3 DEF CountFill, vars, settlerVars, TasksTakeTurns, QueuesTyped
<1>4. CASE SendFill
  <2>1. /\ unsent # <<>> /\ Len(fill_queue) < FillCapacity
        /\ fill_queue' = Append(fill_queue, Head(unsent)) /\ unsent' = Tail(unsent)
        /\ counted' = FALSE
        /\ UNCHANGED <<match_paused, signer, batch, calls, resolved, pc,
                       settler, attempt, pending_settlements, settlement_fail_streak>>
    BY <1>4 DEF SendFill, TasksTakeTurns, vars, settlerVars
  <2>2. Head(unsent) \in Nat /\ Tail(unsent) \in Seq(Nat)
    BY <2>1, HeadTyped DEF QueuesTyped
  <2>3. fill_queue' \in Seq(Nat) /\ Len(fill_queue') = Len(fill_queue) + 1
        /\ Len(fill_queue) \in Nat
    BY <2>1, <2>2 DEF QueuesTyped
  <2>6. Len(fill_queue') <= FillCapacity
    BY <1>0, <2>1, <2>3
  <2>4. QueuesTyped'
    BY <2>1, <2>2, <2>3, <2>6 DEF QueuesTyped
  <2>5. TasksTakeTurns'
    BY <2>1 DEF TasksTakeTurns
  <2> QED
    BY <2>4, <2>5
<1>5. CASE ReceiveFill \/ FlushInterval
  <2>2. ASSUME fill_queue # <<>>, fill_queue' = Tail(fill_queue)
        PROVE  /\ fill_queue' \in Seq(Nat) /\ Len(fill_queue') <= FillCapacity
               /\ Append(batch, Head(fill_queue)) \in Seq(Nat)
               /\ Append(batch, Head(fill_queue)) # <<>>
    <3>1. /\ Head(fill_queue) \in Nat /\ Tail(fill_queue) \in Seq(Nat)
          /\ Len(Tail(fill_queue)) = Len(fill_queue) - 1 /\ Len(fill_queue) \in Nat
      BY <2>2, HeadTyped DEF QueuesTyped
    <3>2. Len(Append(batch, Head(fill_queue))) = Len(batch) + 1 /\ Len(batch) \in Nat
      BY DEF QueuesTyped
    <3>3. Append(batch, Head(fill_queue)) \in Seq(Nat)
          /\ Append(batch, Head(fill_queue)) # <<>>
      <4>1. \A q \in Seq(Nat) : \A x \in Nat : Append(q, x) \in Seq(Nat) /\ Append(q, x) # <<>>
        OBVIOUS
      <4> QED
        BY <3>1, <4>1 DEF QueuesTyped
    <3>4. Len(fill_queue) <= FillCapacity
      BY DEF QueuesTyped
    <3>5. Len(fill_queue) - 1 <= FillCapacity
      BY <1>0, <3>1, <3>4
    <3>6. Len(fill_queue') <= FillCapacity
      BY <2>2, <3>1, <3>5
    <3> QED
      BY <2>2, <3>1, <3>3, <3>6
  <2>3. ASSUME NEW q \in Seq(Nat), q # <<>>, FlushTo(q), calls = <<>>,
               fill_queue' \in Seq(Nat), Len(fill_queue') <= FillCapacity
        PROVE  TasksTakeTurns' /\ QueuesTyped'
    <3>1. Len(q) \in Nat
      OBVIOUS
    <3>5. batch' \in Seq(Nat) /\ calls' \in Seq(Nat)
      BY <2>3 DEF FlushTo, QueuesTyped
    <3>6. resolved' \in [Fills -> {"open", "skipped", "confirmed", "failed"}]
      BY <2>3 DEF FlushTo, QueuesTyped
    <3>7. pending_settlements' \in Int
      BY <2>3, <3>1 DEF FlushTo, QueuesTyped
    <3>2. /\ batch' \in Seq(Nat) /\ calls' \in Seq(Nat)
          /\ resolved' \in [Fills -> {"open", "skipped", "confirmed", "failed"}]
          /\ pending_settlements' \in Int
      BY <3>5, <3>6, <3>7
    <3>4. QueuesTyped'
      BY <2>3, <3>2 DEF FlushTo, QueuesTyped
    <3>3. TasksTakeTurns'
      BY <1>0, <2>3 DEF FlushTo, TasksTakeTurns
    <3> QED
      BY <3>3, <3>4
  <2>4. ASSUME fill_queue # <<>>, fill_queue' = Tail(fill_queue),
               batch' = Append(batch, Head(fill_queue)), Len(batch') < BatchSize,
               calls = <<>>,
               UNCHANGED <<made, unsent, counted, calls, resolved, pending_settlements,
                           settlement_fail_streak, settler, attempt, pc, signer, match_paused>>
        PROVE  TasksTakeTurns' /\ QueuesTyped'
    BY <2>2, <2>4 DEF TasksTakeTurns, QueuesTyped
  <2>5. calls = <<>>
    BY <1>5, Flushes
  <2>6. CASE batch # <<>> /\ fill_queue' = fill_queue /\ FlushTo(batch)
    <3>1. batch \in Seq(Nat) /\ Len(fill_queue) <= FillCapacity /\ fill_queue \in Seq(Nat)
      BY DEF QueuesTyped
    <3> QED
      BY <2>3, <2>5, <2>6, <3>1
  <2>7. CASE /\ fill_queue # <<>> /\ fill_queue' = Tail(fill_queue)
             /\ FlushTo(Append(batch, Head(fill_queue)))
    BY <2>2, <2>3, <2>5, <2>7
  <2> QED
    BY <1>5, <2>4, <2>5, <2>6, <2>7, Flushes
<1>6. ASSUME NEW r \in {"failed", "confirmed"}, CallEnds(r)
      PROVE  TasksTakeTurns' /\ QueuesTyped'
  <2>1. Head(calls) \in Nat /\ Tail(calls) \in Seq(Nat) /\ Len(calls) \in Nat \ {0}
        /\ Len(Tail(calls)) = Len(calls) - 1
    BY <1>6, HeadTyped DEF CallEnds, QueuesTyped
  <2>2. calls' = <<>> <=> Len(calls) = 1
    <3>1. \A q \in Seq(Nat) : q = <<>> <=> Len(q) = 0
      OBVIOUS
    <3>2. calls' = Tail(calls)
      BY <1>6 DEF CallEnds
    <3>3. calls' = <<>> <=> Len(Tail(calls)) = 0
      BY <2>1, <3>1, <3>2
    <3> QED
      BY <2>1, <3>3
  <2>3. match_paused' \in BOOLEAN
    BY <1>6 DEF CallEnds, PauseAfter, QueuesTyped
  <2>7. pending_settlements' \in Int /\ settlement_fail_streak' \in Nat
    BY <1>6 DEF CallEnds, QueuesTyped
  <2>6. resolved' \in [Fills -> {"open", "skipped", "confirmed", "failed"}]
    BY <1>6 DEF CallEnds, QueuesTyped
  <2>4. QueuesTyped'
    BY <1>6, <2>1, <2>3, <2>6, <2>7 DEF CallEnds, QueuesTyped
  <2>5. TasksTakeTurns'
    BY <1>0, <1>6, <2>2 DEF CallEnds, TasksTakeTurns
  <2> QED
    BY <2>4, <2>5
<1> QED
  BY <1>1, <1>2, <1>3, <1>4, <1>5, <1>6, PipelineMoves

-----------------------------------------------------------------------------
(***************************************************************************)
(* The order of the fills.  Done fills have left the pipeline; the stages, *)
(* from the calls back to the runner, hold the numbers after that.         *)
(***************************************************************************)
Done == Len(made) - Len(unsent) - Len(fill_queue) - Len(batch) - Len(calls)

Numbered ==
  /\ Done \in Nat
  /\ Consecutive(calls, Done)
  /\ Consecutive(batch, Done + Len(calls))
  /\ Consecutive(fill_queue, Done + Len(calls) + Len(batch))
  /\ Consecutive(unsent, Done + Len(calls) + Len(batch) + Len(fill_queue))
OpenAfterDone == \A k \in Fills : resolved[k] = "open" <=> k > Done

PipelineInv ==
  /\ QueuesTyped /\ TasksTakeTurns /\ Numbered /\ OpenAfterDone
  /\ made \in Seq(Fill) /\ Len(made) <= MaxArrivals

LEMMA Lengths ==
  ASSUME PipelineInv
  PROVE  /\ Len(made) \in Nat /\ Len(unsent) \in Nat /\ Len(fill_queue) \in Nat
         /\ Len(batch) \in Nat /\ Len(calls) \in Nat /\ Done \in Nat
         /\ Done + Len(calls) + Len(batch) + Len(fill_queue) + Len(unsent) = Len(made)
         /\ \A k \in 1..Len(made) : k \in Fills
<1>1. /\ Len(made) \in Nat /\ Len(unsent) \in Nat /\ Len(fill_queue) \in Nat
      /\ Len(batch) \in Nat /\ Len(calls) \in Nat /\ Done \in Nat
  BY DEF PipelineInv, QueuesTyped, Numbered
<1>2. \A k \in 1..Len(made) : k \in Fills
  BY <1>1, BoundAssumption DEF PipelineInv, Fills
<1> QED
  BY <1>1, <1>2 DEF Done

LEMMA EmptyConsecutive == \A n : Consecutive(<<>>, n)
  BY DEF Consecutive

LEMMA CallEndsFacts ==
  ASSUME PipelineInv, NEW r \in {"failed", "confirmed"}, CallEnds(r)
  PROVE  /\ Done' = Done + 1 /\ Done + 1 \in Fills /\ Done + 1 <= Len(made)
         /\ \A k \in Fills : resolved'[k] = IF k = Done + 1 THEN r ELSE resolved[k]
         /\ Len(calls') = Len(calls) - 1
         /\ Numbered' /\ OpenAfterDone'
<1>0. /\ Len(made) \in Nat /\ Len(unsent) \in Nat /\ Len(fill_queue) \in Nat
      /\ Len(batch) \in Nat /\ Len(calls) \in Nat /\ Done \in Nat
      /\ Done + Len(calls) + Len(batch) + Len(fill_queue) + Len(unsent) = Len(made)
      /\ \A k \in 1..Len(made) : k \in Fills
  BY Lengths
<1>1. /\ calls # <<>> /\ calls' = Tail(calls) /\ resolved' = [resolved EXCEPT ![Head(calls)] = r]
      /\ UNCHANGED <<made, unsent, fill_queue, batch>>
  BY DEF CallEnds
<1>2. calls \in Seq(Nat)
  BY DEF PipelineInv, QueuesTyped
<1>3. Len(calls') = Len(calls) - 1 /\ Len(calls) # 0
  BY <1>1, <1>2, HeadTyped
<1>4. Done' = Done + 1
  BY <1>0, <1>1, <1>3 DEF Done
<1>5. Head(calls) = Done + 1 /\ Consecutive(calls', Done + 1)
  BY <1>0, <1>1, <1>2, ConsecutiveTail DEF PipelineInv, Numbered
<1>6. Done + 1 \in Fills /\ Done + 1 <= Len(made)
  BY <1>0, <1>3
<1>7. \A k \in Fills : resolved'[k] = IF k = Done + 1 THEN r ELSE resolved[k]
  BY <1>1, <1>5 DEF PipelineInv, QueuesTyped
<1>8. Done' + Len(calls') = Done + Len(calls)
  BY <1>0, <1>3, <1>4
<1>9. Numbered'
  BY <1>0, <1>1, <1>4, <1>5, <1>8 DEF PipelineInv, Numbered
<1>10. OpenAfterDone'
  <2>1. \A k \in Fills : k > Done <=> k = Done + 1 \/ k > Done'
    BY <1>0, <1>4 DEF Fills
  <2>2. ~(Done + 1 > Done')
    BY <1>0, <1>4
  <2> QED
    BY <1>7, <2>1, <2>2 DEF PipelineInv, OpenAfterDone
<1> QED
  BY <1>3, <1>4, <1>6, <1>7, <1>9, <1>10

\* The numbers of a flush of n fills that leaves m in the queue.
LEMMA FlushCounts ==
  ASSUME Len(made) \in Nat, Len(unsent) \in Nat, Len(fill_queue) \in Nat, Len(batch) \in Nat,
         Done \in Nat, Done + 0 + Len(batch) + Len(fill_queue) + Len(unsent) = Len(made),
         NEW n \in Nat, NEW m \in Nat, n + m = Len(batch) + Len(fill_queue)
  PROVE  /\ Done + n + m = Done + 0 + Len(batch) + Len(fill_queue)
         /\ Len(made) - Len(unsent) - m - 0 - n = Done
         /\ Len(made) - Len(unsent) - m - 0 - 0 = Done + n
<1>1. PICK d \in Nat : d = Done
  OBVIOUS
<1> QED
  BY <1>1

LEMMA FlushFacts ==
  ASSUME PipelineInv, calls = <<>>, NEW q \in Seq(Nat), Consecutive(q, Done), FlushTo(q),
         fill_queue' \in Seq(Nat), Consecutive(fill_queue', Done + Len(q)),
         Len(q) + Len(fill_queue') = Len(batch) + Len(fill_queue)
  PROVE  /\ Numbered' /\ OpenAfterDone'
         /\ \/ Done' = Done /\ UNCHANGED <<resolved, pending_settlements>>
               /\ Len(calls') = Len(q)
            \/ /\ Done' = Done + Len(q) /\ UNCHANGED calls
               /\ pending_settlements' = pending_settlements - Len(q)
               /\ \A k \in Fills : resolved'[k] =
                    IF k \in (Done + 1)..(Done + Len(q)) THEN "skipped" ELSE resolved[k]
<1>0. /\ Len(made) \in Nat /\ Len(unsent) \in Nat /\ Len(fill_queue) \in Nat
      /\ Len(batch) \in Nat /\ Len(calls) = 0 /\ Done \in Nat
      /\ Done + Len(calls) + Len(batch) + Len(fill_queue) + Len(unsent) = Len(made)
  BY Lengths
<1>1. batch' = <<>> /\ Len(batch') = 0 /\ UNCHANGED <<made, unsent>>
  BY DEF FlushTo
<1>2. Len(q) \in Nat /\ Len(fill_queue') \in Nat
  OBVIOUS
<1>8. Done + 0 + Len(batch) + Len(fill_queue) + Len(unsent) = Len(made)
  BY <1>0
<1>7. /\ Done + Len(q) + Len(fill_queue') = Done + 0 + Len(batch) + Len(fill_queue)
      /\ Len(made) - Len(unsent) - Len(fill_queue') - 0 - Len(q) = Done
      /\ Len(made) - Len(unsent) - Len(fill_queue') - 0 - 0 = Done + Len(q)
  BY <1>0, <1>2, <1>8, FlushCounts
<1>3. Done + Len(q) + Len(fill_queue') = Done + Len(calls) + Len(batch) + Len(fill_queue)
  BY <1>0, <1>7
<1>4. Consecutive(unsent, Done + Len(q) + Len(fill_queue'))
  BY <1>3 DEF PipelineInv, Numbered
<1>5. CASE calls' = q /\ UNCHANGED <<pending_settlements, resolved>>
  <2>1. Done' = Done
    <3>1. Done' = Len(made) - Len(unsent) - Len(fill_queue') - 0 - Len(q)
      BY <1>1, <1>5 DEF Done
    <3> QED
      BY <1>7, <3>1
  <2>2. Done' + Len(calls') + Len(batch') = Done + Len(q)
    BY <1>0, <1>1, <1>2, <1>5, <2>1
  <2>3. Consecutive(fill_queue', Done' + Len(calls') + Len(batch'))
        /\ Consecutive(unsent', Done' + Len(calls') + Len(batch') + Len(fill_queue'))
    BY <1>1, <1>4, <2>2
  <2>4. Numbered'
    BY <1>0, <1>1, <1>5, <2>1, <2>3, EmptyConsecutive DEF Numbered
  <2>5. OpenAfterDone'
    BY <1>5, <2>1 DEF PipelineInv, OpenAfterDone
  <2> QED
    BY <1>5, <2>1, <2>4, <2>5
<1>6. CASE /\ pending_settlements' = pending_settlements - Len(q)
           /\ resolved' = [k \in Fills |-> IF k \in ToSet(q) THEN "skipped" ELSE resolved[k]]
           /\ UNCHANGED calls
  <2>1. Done' = Done + Len(q)
    <3>1. Done' = Len(made) - Len(unsent) - Len(fill_queue') - 0 - 0
      BY <1>0, <1>1, <1>6 DEF Done
    <3> QED
      BY <1>7, <3>1
  <2>2. ToSet(q) = (Done + 1)..(Done + Len(q))
    BY <1>0, ConsecutiveSet
  <2>3. \A k \in Fills : resolved'[k] =
          IF k \in (Done + 1)..(Done + Len(q)) THEN "skipped" ELSE resolved[k]
    BY <1>6, <2>2
  <2>4. Done' + Len(calls') + Len(batch') = Done + Len(q) /\ calls' = <<>>
    BY <1>0, <1>1, <1>2, <1>6, <2>1
  <2>5. Consecutive(fill_queue', Done' + Len(calls') + Len(batch'))
        /\ Consecutive(unsent', Done' + Len(calls') + Len(batch') + Len(fill_queue'))
    BY <1>1, <1>4, <2>4
  <2>6. Numbered'
    BY <1>0, <1>1, <1>2, <2>1, <2>4, <2>5, EmptyConsecutive DEF Numbered
  <2>7. \A k \in Fills : /\ k > Done' => k > Done /\ k \notin (Done + 1)..(Done + Len(q))
                         /\ k > Done /\ ~(k > Done') => k \in (Done + 1)..(Done + Len(q))
                         /\ k \in (Done + 1)..(Done + Len(q)) => ~(k > Done')
    BY <1>0, <1>2, <2>1 DEF Fills
  <2>8. OpenAfterDone'
    BY <2>3, <2>7 DEF PipelineInv, OpenAfterDone
  <2> QED
    BY <1>6, <2>1, <2>3, <2>6, <2>8
<1> QED
  BY <1>5, <1>6 DEF FlushTo

\* A fill that the settler takes is the next after its batch.
LEMMA TakenIsNext ==
  ASSUME PipelineInv, calls = <<>>, fill_queue # <<>>, fill_queue' = Tail(fill_queue)
  PROVE  /\ Append(batch, Head(fill_queue)) \in Seq(Nat)
         /\ Len(Append(batch, Head(fill_queue))) = Len(batch) + 1
         /\ Consecutive(Append(batch, Head(fill_queue)), Done)
         /\ fill_queue' \in Seq(Nat) /\ Len(fill_queue') = Len(fill_queue) - 1
         /\ Consecutive(fill_queue', Done + (Len(batch) + 1))
<1>0. /\ Len(batch) \in Nat /\ Len(calls) = 0 /\ Done \in Nat /\ Len(fill_queue) \in Nat
      /\ batch \in Seq(Nat) /\ fill_queue \in Seq(Nat)
  BY Lengths DEF PipelineInv, QueuesTyped
<1>1. Done + Len(calls) = Done /\ Done + Len(calls) + Len(batch) = Done + Len(batch)
  BY <1>0
<1>2. Consecutive(batch, Done) /\ Consecutive(fill_queue, Done + Len(batch))
  BY <1>1 DEF PipelineInv, Numbered
<1>3. /\ Head(fill_queue) = (Done + Len(batch)) + 1
      /\ Consecutive(Tail(fill_queue), (Done + Len(batch)) + 1)
  BY <1>0, <1>2, ConsecutiveTail
<1>4. Consecutive(Append(batch, Done + Len(batch) + 1), Done)
  BY <1>0, <1>2, ConsecutiveAppend
<1>5. /\ Head(fill_queue) \in Nat /\ Tail(fill_queue) \in Seq(Nat)
      /\ Len(Tail(fill_queue)) = Len(fill_queue) - 1
  BY <1>0, HeadTyped
<1>6. (Done + Len(batch)) + 1 = Done + (Len(batch) + 1)
  BY <1>0
<1>7. \A x \in Nat : Append(batch, x) \in Seq(Nat) /\ Len(Append(batch, x)) = Len(batch) + 1
  BY <1>0
<1> QED
  BY <1>3, <1>4, <1>5, <1>6, <1>7

LEMMA NumbersStep ==
  ASSUME PipelineInv, CallsTyped, CallsTyped', [DaemonNext]_allVars
  PROVE  Numbered' /\ OpenAfterDone'
<1>0. /\ Len(made) \in Nat /\ Len(unsent) \in Nat /\ Len(fill_queue) \in Nat
      /\ Len(batch) \in Nat /\ Len(calls) \in Nat /\ Done \in Nat
      /\ Done + Len(calls) + Len(batch) + Len(fill_queue) + Len(unsent) = Len(made)
  BY Lengths
<1>1. Numbered /\ OpenAfterDone /\ TasksTakeTurns /\ QueuesTyped /\ made \in Seq(Fill)
  BY DEF PipelineInv
<1>2. CASE UNCHANGED <<made, unsent, fill_queue, batch, calls, resolved>>
  <2>1. Done' = Done
    BY <1>2 DEF Done
  <2> QED
    BY <1>1, <1>2, <2>1 DEF Numbered, OpenAfterDone
<1>3. CASE PipelineRests
  BY <1>2, <1>3 DEF PipelineRests, pipeline
<1>4. CASE CountFill
  BY <1>2, <1>4 DEF CountFill, settlerVars
<1>5. CASE EndMatch
  <2>1. /\ pc[Runner] # "idle" /\ made' = made \o fills'[Runner]
        /\ unsent' = Serials(fills'[Runner])
        /\ UNCHANGED <<fill_queue, batch, calls, resolved>>
    BY <1>5 DEF EndMatch, Return, settlerVars
  <2>2. unsent = <<>> /\ Len(unsent) = 0
    BY <1>1, <2>1 DEF TasksTakeTurns
  <2>3. fills'[Runner] \in Seq(Fill)
    BY RunnerCalls DEF CallsTyped
  <2>4. Len(made') = Len(made) + Len(fills'[Runner]) /\ Len(fills'[Runner]) \in Nat
    BY <1>1, <2>1, <2>3
  <2>5. Len(unsent') = Len(fills'[Runner]) /\ Consecutive(unsent', Len(made))
    BY <2>1, <2>4 DEF Serials, Consecutive
  <2>6. Done' = Done
    BY <1>0, <2>1, <2>2, <2>4, <2>5 DEF Done
  <2>7. Len(made) = Done' + Len(calls') + Len(batch') + Len(fill_queue')
    BY <1>0, <2>1, <2>2, <2>6
  <2> QED
    BY <1>1, <2>1, <2>5, <2>6, <2>7 DEF Numbered, OpenAfterDone
<1>6. CASE SendFill
  <2>1. /\ unsent # <<>>
        /\ fill_queue' = Append(fill_queue, Head(unsent)) /\ unsent' = Tail(unsent)
        /\ UNCHANGED <<made, batch, calls, resolved>>
    BY <1>1, <1>6 DEF SendFill, settlerVars, TasksTakeTurns
  <2> DEFINE n == Done + Len(calls) + Len(batch)
  <2>2. n \in Nat /\ n + Len(fill_queue) \in Nat /\ n = Done + Len(calls) + Len(batch)
    BY <1>0
  <2>3. Consecutive(fill_queue, n) /\ Consecutive(unsent, n + Len(fill_queue))
    BY <1>1 DEF Numbered
  <2> HIDE DEF n
  <2>4. Head(unsent) = n + Len(fill_queue) + 1 /\ Consecutive(unsent', n + Len(fill_queue) + 1)
    BY <1>1, <2>1, <2>2, <2>3, ConsecutiveTail DEF QueuesTyped
  <2>5. Consecutive(fill_queue', n)
    BY <1>1, <2>1, <2>2, <2>3, <2>4, ConsecutiveAppend DEF QueuesTyped
  <2>6. Len(unsent') = Len(unsent) - 1 /\ Head(unsent) \in Nat
    BY <1>1, <2>1, HeadTyped DEF QueuesTyped
  <2>7. Len(fill_queue') = Len(fill_queue) + 1
    BY <1>1, <2>1, <2>6 DEF QueuesTyped
  <2>8. Done' = Done
    BY <1>0, <2>1, <2>6, <2>7 DEF Done
  <2>9. n + Len(fill_queue) + 1 = n + Len(fill_queue')
    BY <1>0, <2>2, <2>7
  <2> QED
    BY <1>1, <2>1, <2>2, <2>4, <2>5, <2>8, <2>9 DEF Numbered, OpenAfterDone
<1>7. CASE CallEnds("failed") \/ CallEnds("confirmed")
  BY <1>7, CallEndsFacts
<1>8. CASE ReceiveFill \/ FlushInterval
  <2>1. calls = <<>> /\ Len(calls) = 0
    BY <1>1, <1>8, Flushes
  <2>2. CASE fill_queue' = fill_queue /\ FlushTo(batch)
    <3>1. Done + Len(calls) = Done /\ Done + Len(calls) + Len(batch) = Done + Len(batch)
      BY <1>0, <2>1
    <3>2. Consecutive(batch, Done) /\ Consecutive(fill_queue, Done + Len(batch))
      BY <1>1, <3>1 DEF Numbered
    <3>3. batch \in Seq(Nat) /\ fill_queue' \in Seq(Nat)
      BY <1>1, <2>2 DEF QueuesTyped
    <3> QED
      BY <2>1, <2>2, <3>2, <3>3, FlushFacts
  <2>3. CASE /\ fill_queue # <<>> /\ fill_queue' = Tail(fill_queue)
             /\ FlushTo(Append(batch, Head(fill_queue)))
    <3> DEFINE q == Append(batch, Head(fill_queue))
    <3>1. /\ q \in Seq(Nat) /\ Len(q) = Len(batch) + 1 /\ Consecutive(q, Done)
          /\ fill_queue' \in Seq(Nat) /\ Len(fill_queue') = Len(fill_queue) - 1
          /\ Consecutive(fill_queue', Done + (Len(batch) + 1))
      BY <2>1, <2>3, TakenIsNext
    <3> HIDE DEF q
    <3>2. Len(q) + Len(fill_queue') = Len(batch) + Len(fill_queue)
      BY <1>0, <3>1
    <3>3. FlushTo(q)
      BY <2>3 DEF q
    <3> QED
      BY <2>1, <3>1, <3>2, <3>3, FlushFacts
  <2>4. CASE /\ fill_queue # <<>> /\ fill_queue' = Tail(fill_queue)
             /\ batch' = Append(batch, Head(fill_queue))
             /\ UNCHANGED <<made, unsent, calls, resolved>>
    <3>1. /\ Len(batch') = Len(batch) + 1 /\ Consecutive(batch', Done)
          /\ Len(fill_queue') = Len(fill_queue) - 1
          /\ Consecutive(fill_queue', Done + (Len(batch) + 1))
      BY <2>1, <2>4, TakenIsNext
    <3>2. Done' = Done
      BY <1>0, <2>4, <3>1 DEF Done
    <3>3. /\ Done' + Len(calls') = Done
          /\ Done' + Len(calls') + Len(batch') = Done + (Len(batch) + 1)
          /\ Done' + Len(calls') + Len(batch') + Len(fill_queue')
               = Done + Len(calls) + Len(batch) + Len(fill_queue)
      BY <1>0, <2>1, <2>4, <3>1, <3>2
    <3> QED
      BY <1>1, <2>4, <3>1, <3>2, <3>3 DEF Numbered, OpenAfterDone
  <2> QED
    BY <1>1, <1>8, <2>2, <2>3, <2>4, Flushes
<1> QED
  BY <1>1, <1>3, <1>4, <1>5, <1>6, <1>7, <1>8, PipelineMoves

-----------------------------------------------------------------------------
(***************************************************************************)
(* The counter of pending settlements.                                     *)
(***************************************************************************)
Failed == {k \in Fills : resolved[k] = "failed"}

LEMMA FailedFacts ==
  ASSUME PipelineInv
  PROVE  /\ IsFiniteSet(Failed) /\ Cardinality(Failed) \in Nat
         /\ Cardinality(Failed) <= Done /\ Failed \subseteq 1..Done
<1>1. Done \in Nat
  BY Lengths
<1>2. Failed \subseteq 1..Done
  <2>1. ASSUME NEW k \in Failed PROVE k \in 1..Done
    <3>1. k \in Fills /\ resolved[k] # "open"
      BY DEF Failed
    <3>2. ~(k > Done)
      BY <3>1 DEF PipelineInv, OpenAfterDone
    <3> QED
      BY <1>1, <3>1, <3>2 DEF Fills
  <2> QED
    BY <2>1
<1>3. IsFiniteSet(1..Done) /\ Cardinality(1..Done) = Done
  BY <1>1, FS_Interval
<1> QED
  BY <1>2, <1>3, SmallerSet

\* The figures that PendingCounts adds up.
LEMMA PendingStep ==
  ASSUME PipelineInv, CallsTyped, PendingCounts, [DaemonNext]_allVars
  PROVE  PendingCounts'
<1>0. /\ Len(fill_queue) \in Nat /\ Len(batch) \in Nat /\ Len(calls) \in Nat /\ Done \in Nat
      /\ IsFiniteSet(Failed) /\ Cardinality(Failed) \in Nat /\ Failed \subseteq 1..Done
  BY Lengths, FailedFacts
<1>1. TasksTakeTurns /\ QueuesTyped /\ counted \in BOOLEAN
  BY DEF PipelineInv, QueuesTyped
<1> DEFINE one == IF counted THEN 1 ELSE 0
<1>2. pending_settlements = one + Len(fill_queue) + Len(batch) + Len(calls) + Cardinality(Failed)
  BY DEF PendingCounts, Failed
<1>3. ASSUME pending_settlements' = one' + Len(fill_queue') + Len(batch') + Len(calls')
                                         + Cardinality(Failed')
      PROVE  PendingCounts'
  BY <1>3 DEF PendingCounts, Failed
<1>4. ASSUME UNCHANGED resolved PROVE Failed' = Failed
  BY <1>4 DEF Failed
<1>5. CASE UNCHANGED <<counted, fill_queue, batch, calls, resolved, pending_settlements>>
  BY <1>2, <1>3, <1>4, <1>5
<1>6. CASE PipelineRests \/ EndMatch
  BY <1>5, <1>6 DEF PipelineRests, pipeline, EndMatch, settlerVars
<1>7. CASE CountFill
  <2>1. /\ ~counted /\ counted' /\ pending_settlements' = pending_settlements + 1
        /\ UNCHANGED <<fill_queue, batch, calls, resolved>>
    BY <1>7 DEF CountFill, settlerVars
  <2> QED
    BY <1>0, <1>2, <1>3, <1>4, <2>1
<1>8. CASE SendFill
  <2>1. /\ counted /\ ~counted' /\ fill_queue' = Append(fill_queue, Head(unsent))
        /\ UNCHANGED <<pending_settlements, batch, calls, resolved>>
    BY <1>8 DEF SendFill, settlerVars
  <2>2. unsent # <<>> /\ Head(unsent) \in Nat
    BY <1>1, <2>1, HeadTyped DEF TasksTakeTurns, QueuesTyped
  <2>3. Len(fill_queue') = Len(fill_queue) + 1
    BY <1>1, <2>1, <2>2 DEF QueuesTyped
  <2> QED
    BY <1>0, <1>2, <1>3, <1>4, <2>1, <2>3
<1>9. CASE CallEnds("failed")
  <2>1. /\ Done + 1 \in Fills /\ Len(calls') = Len(calls) - 1
        /\ \A k \in Fills : resolved'[k] = IF k = Done + 1 THEN "failed" ELSE resolved[k]
    BY <1>9, CallEndsFacts
  <2>2. Failed' = Failed \cup {Done + 1} /\ Done + 1 \notin Failed
    BY <1>0, <2>1 DEF Failed
  <2>3. Cardinality(Failed') = Cardinality(Failed) + 1
    BY <1>0, <2>2, FS_AddElement
  <2>4. UNCHANGED <<counted, fill_queue, batch, pending_settlements>>
    BY <1>9 DEF CallEnds
  <2> QED
    BY <1>0, <1>2, <1>3, <2>1, <2>3, <2>4
<1>10. CASE CallEnds("confirmed")
  <2>1. /\ Done + 1 \in Fills /\ Len(calls') = Len(calls) - 1
        /\ \A k \in Fills : resolved'[k] = IF k = Done + 1 THEN "confirmed" ELSE resolved[k]
    BY <1>10, CallEndsFacts
  <2>2. Failed' = Failed
    BY <1>0, <2>1 DEF Failed
  <2>3. /\ UNCHANGED <<counted, fill_queue, batch>>
        /\ pending_settlements' = pending_settlements - 1
    BY <1>10 DEF CallEnds
  <2> QED
    BY <1>0, <1>2, <1>3, <2>1, <2>2, <2>3
<1>11. ASSUME NEW q \in Seq(Nat), calls = <<>>, Consecutive(q, Done), FlushTo(q),
              fill_queue' \in Seq(Nat), Consecutive(fill_queue', Done + Len(q)),
              Len(q) + Len(fill_queue') = Len(batch) + Len(fill_queue)
       PROVE  PendingCounts'
  <2>1. /\ Len(q) \in Nat /\ Len(fill_queue') \in Nat /\ Len(calls) = 0
        /\ Len(batch') = 0 /\ counted' = counted
    BY <1>11 DEF FlushTo
  <2>4. one' = one /\ one \in Nat
    BY <2>1
  <2> HIDE DEF one
  <2>5. Len(q) + Len(fill_queue') = Len(batch) + Len(fill_queue)
    BY <1>11
  <2>2. CASE UNCHANGED <<resolved, pending_settlements>> /\ Len(calls') = Len(q)
    <3>1. Failed' = Failed
      BY <1>4, <2>2
    <3>2. pending_settlements' = one' + Len(fill_queue') + Len(batch') + Len(calls')
                                       + Cardinality(Failed')
      BY <1>0, <1>2, <2>1, <2>2, <2>4, <2>5, <3>1
    <3> QED
      BY <1>3, <3>2
  <2>3. CASE /\ UNCHANGED calls /\ pending_settlements' = pending_settlements - Len(q)
             /\ \A k \in Fills : resolved'[k] =
                  IF k \in (Done + 1)..(Done + Len(q)) THEN "skipped" ELSE resolved[k]
    <3>1. Failed' = Failed
      <4>1. \A k \in Failed : k \notin (Done + 1)..(Done + Len(q))
        BY <1>0
      <4> QED
        BY <2>3, <4>1 DEF Failed
    <3>2. pending_settlements' = one' + Len(fill_queue') + Len(batch') + Len(calls')
                                       + Cardinality(Failed')
      <4>1. pending_settlements' = pending_settlements - Len(q) /\ Len(calls') = 0
        BY <2>1, <2>3
      <4>2. pending_settlements = one + (Len(q) + Len(fill_queue')) + 0 + Cardinality(Failed)
        BY <1>0, <1>2, <2>1, <2>4, <2>5
      <4>3. pending_settlements' = one + Len(fill_queue') + 0 + 0 + Cardinality(Failed)
        BY <1>0, <2>1, <2>4, <4>1, <4>2
      <4> QED
        BY <2>1, <2>4, <3>1, <4>1, <4>3
    <3> QED
      BY <1>3, <3>2
  <2> QED
    BY <1>11, <2>2, <2>3, FlushFacts
<1>12. CASE ReceiveFill \/ FlushInterval
  <2>1. calls = <<>> /\ Len(calls) = 0
    BY <1>1, <1>12, Flushes
  <2>2. CASE fill_queue' = fill_queue /\ FlushTo(batch)
    <3>1. Done + Len(calls) = Done /\ Done + Len(calls) + Len(batch) = Done + Len(batch)
      BY <1>0, <2>1
    <3>2. Consecutive(batch, Done) /\ Consecutive(fill_queue, Done + Len(batch))
      BY <3>1 DEF PipelineInv, Numbered
    <3>3. batch \in Seq(Nat) /\ fill_queue' \in Seq(Nat)
      BY <1>1, <2>2 DEF QueuesTyped
    <3> QED
      BY <1>11, <2>1, <2>2, <3>2, <3>3
  <2>3. CASE /\ fill_queue # <<>> /\ fill_queue' = Tail(fill_queue)
             /\ FlushTo(Append(batch, Head(fill_queue)))
    <3> DEFINE q == Append(batch, Head(fill_queue))
    <3>1. /\ q \in Seq(Nat) /\ Len(q) = Len(batch) + 1 /\ Consecutive(q, Done)
          /\ fill_queue' \in Seq(Nat) /\ Len(fill_queue') = Len(fill_queue) - 1
          /\ Consecutive(fill_queue', Done + (Len(batch) + 1))
      BY <2>1, <2>3, TakenIsNext
    <3> HIDE DEF q
    <3>2. Len(q) + Len(fill_queue') = Len(batch) + Len(fill_queue)
      BY <1>0, <3>1
    <3>3. FlushTo(q)
      BY <2>3 DEF q
    <3> QED
      BY <1>11, <2>1, <3>1, <3>2, <3>3
  <2>4. CASE /\ fill_queue # <<>> /\ fill_queue' = Tail(fill_queue)
             /\ batch' = Append(batch, Head(fill_queue))
             /\ UNCHANGED <<counted, calls, resolved, pending_settlements>>
    <3>1. Len(batch') = Len(batch) + 1 /\ Len(fill_queue') = Len(fill_queue) - 1
      BY <2>1, <2>4, TakenIsNext
    <3>2. Failed' = Failed /\ one' = one /\ one \in Nat
      BY <1>4, <2>4
    <3> HIDE DEF one
    <3>3. pending_settlements' = one' + Len(fill_queue') + Len(batch') + Len(calls')
                                       + Cardinality(Failed')
      BY <1>0, <1>2, <2>4, <3>1, <3>2
    <3> QED
      BY <1>3, <3>3
  <2> QED
    BY <1>1, <1>12, <2>2, <2>3, <2>4, Flushes
<1> QED
  BY <1>1, <1>6, <1>7, <1>8, <1>9, <1>10, <1>12, PipelineMoves

-----------------------------------------------------------------------------
(***************************************************************************)
(* Failures.  settlement_fail_streak counts the last fills in a row whose  *)
(* settlement failed, or more: a batch that is skipped without a signer    *)
(* ends the row without resetting the counter.                             *)
(***************************************************************************)
StreakCounts ==
  /\ settlement_fail_streak <= Done
  /\ \A n \in 0..Done :
       (\A i \in (Done - n + 1)..Done : resolved[i] = "failed")
         => n <= settlement_fail_streak
FailuresPause == FailedInARow => match_paused = TRUE

LEMMA FailuresStep ==
  ASSUME PipelineInv, CallsTyped, StreakCounts, FailuresPause, [DaemonNext]_allVars
  PROVE  StreakCounts' /\ FailuresPause'
<1>0. /\ Len(fill_queue) \in Nat /\ Len(batch) \in Nat /\ Len(calls) \in Nat /\ Done \in Nat
      /\ settlement_fail_streak \in Nat /\ FailureLimit \in Nat \ {0}
      /\ Done <= MaxArrivals /\ Len(made) \in Nat /\ Len(unsent) \in Nat
  <2>1. FailureLimit \in Nat \ {0} /\ settlement_fail_streak \in Nat
    BY DaemonAssumption DEF PipelineInv, QueuesTyped, Positive
  <2>2. Done <= Len(made) /\ Len(made) <= MaxArrivals
    BY Lengths DEF PipelineInv
  <2> QED
    BY <2>1, <2>2, Lengths, BoundAssumption
<1>1. TasksTakeTurns /\ QueuesTyped
  BY DEF PipelineInv
<1>2. \A k \in Fills : k > Done => resolved[k] # "failed"
  BY DEF PipelineInv, OpenAfterDone
<1>3. CASE UNCHANGED <<made, unsent, fill_queue, batch, calls, resolved,
                       settlement_fail_streak, match_paused>>
  <2>1. Done' = Done
    BY <1>3 DEF Done
  <2>2. StreakCounts'
    BY <1>3, <2>1 DEF StreakCounts
  <2>3. FailuresPause'
    BY <1>3 DEF FailuresPause, FailedInARow
  <2> QED
    BY <2>2, <2>3
<1>4. CASE Done' = Done /\ UNCHANGED <<resolved, settlement_fail_streak, match_paused>>
  BY <1>4 DEF StreakCounts, FailuresPause, FailedInARow
<1>5. CASE CallEnds("failed")
  <2>1. /\ Done' = Done + 1 /\ Done + 1 \in Fills
        /\ \A k \in Fills : resolved'[k] = IF k = Done + 1 THEN "failed" ELSE resolved[k]
    BY <1>5, CallEndsFacts
  <2>2. settlement_fail_streak' = settlement_fail_streak + 1 /\ PauseAfter(settlement_fail_streak')
    BY <1>5 DEF CallEnds
  <2>3. ASSUME NEW n \in 0..(Done + 1),
               \A i \in ((Done + 1) - n + 1)..(Done + 1) : resolved'[i] = "failed"
        PROVE  n <= settlement_fail_streak + 1
    <3>1. CASE n = 0
      BY <1>0, <3>1
    <3>2. CASE n # 0
      <4>1. n - 1 \in 0..Done
        BY <1>0, <3>2
      <4>2. ASSUME NEW i \in (Done - (n - 1) + 1)..Done PROVE resolved[i] = "failed"
        <5>0. i \in Int /\ n \in Int /\ i <= Done /\ Done - (n - 1) + 1 <= i /\ n <= Done + 1
          BY <1>0, <3>2
        <5>1. i \in ((Done + 1) - n + 1)..(Done + 1) /\ i # Done + 1 /\ i \in Fills
          BY <1>0, <5>0, BoundAssumption DEF Fills
        <5> QED
          BY <2>1, <2>3, <5>1
      <4>3. n - 1 <= settlement_fail_streak
        BY <4>1, <4>2 DEF StreakCounts
      <4> QED
        BY <1>0, <4>3
    <3> QED
      BY <3>1, <3>2
  <2>4. StreakCounts'
    <3>1. settlement_fail_streak' <= Done'
      BY <1>0, <2>1, <2>2 DEF StreakCounts
    <3> QED
      BY <2>1, <2>2, <2>3, <3>1 DEF StreakCounts
  <2>5. match_paused = TRUE => match_paused' = TRUE
    BY <2>2 DEF PauseAfter
  <2>6. ASSUME NEW k \in Fills,
               \A i \in k..(k + FailureLimit - 1) : i \in Fills /\ resolved'[i] = "failed"
        PROVE  match_paused' = TRUE
    <3>0. k \in Nat \ {0}
      BY DEF Fills
    <3> DEFINE last == k + FailureLimit - 1
    <3>1. last \in k..last /\ last \in Nat
      BY <1>0, <3>0
    <3>2. CASE last <= Done
      <4>1. \A i \in k..last : i \in Fills /\ resolved[i] = "failed"
        BY <1>0, <2>1, <2>6, <3>0, <3>2
      <4>2. FailedInARow
        BY <4>1 DEF FailedInARow
      <4> QED
        BY <2>5, <4>2 DEF FailuresPause
    <3>3. CASE last > Done
      <4>1. last = Done + 1
        BY <1>2, <2>1, <2>6, <3>1, <3>3
      <4>2. FailureLimit - 1 \in 0..Done
        BY <1>0, <3>0, <4>1
      <4>3. ASSUME NEW i \in (Done - (FailureLimit - 1) + 1)..Done PROVE resolved[i] = "failed"
        <5>1. i \in k..last /\ i # Done + 1
          BY <1>0, <3>0, <4>1
        <5> QED
          BY <2>1, <2>6, <5>1
      <4>4. FailureLimit - 1 <= settlement_fail_streak
        BY <4>2, <4>3 DEF StreakCounts
      <4>5. settlement_fail_streak' >= FailureLimit
        BY <1>0, <2>2, <4>4
      <4> QED
        BY <2>2, <4>5 DEF PauseAfter
    <3>4. last <= Done \/ last > Done
      BY <1>0, <3>1
    <3> QED
      BY <3>2, <3>3, <3>4
  <2>7. FailuresPause'
    BY <2>6 DEF FailuresPause, FailedInARow
  <2> QED
    BY <2>4, <2>7
\* The last fill that left the pipeline did not fail.
<1>6. ASSUME NEW m \in Nat, m > Done, Done' = m, m <= MaxArrivals,
             \A k \in Fills : resolved'[k] = "failed" => resolved[k] = "failed" /\ k # m,
             settlement_fail_streak' \in Nat, settlement_fail_streak' <= m,
             match_paused' = match_paused
      PROVE  StreakCounts' /\ FailuresPause'
  <2>1. m \in Fills
    BY <1>0, <1>6 DEF Fills
  <2>2. ASSUME NEW n \in 0..m, \A i \in (m - n + 1)..m : resolved'[i] = "failed"
        PROVE  n <= settlement_fail_streak'
    <3>1. n = 0
      <4>1. SUFFICES ASSUME n # 0 PROVE FALSE
        OBVIOUS
      <4>2. m \in (m - n + 1)..m
        BY <1>6, <4>1
      <4> QED
        BY <1>6, <2>1, <2>2, <4>2
    <3> QED
      BY <1>6, <3>1
  <2>3. StreakCounts'
    BY <1>6, <2>2 DEF StreakCounts
  <2>4. FailedInARow' => FailedInARow
    BY <1>6 DEF FailedInARow
  <2>5. FailuresPause'
    BY <1>6, <2>4 DEF FailuresPause
  <2> QED
    BY <2>3, <2>5
<1>7. CASE CallEnds("confirmed")
  <2>1. /\ Done' = Done + 1 /\ Done + 1 <= Len(made)
        /\ \A k \in Fills : resolved'[k] = IF k = Done + 1 THEN "confirmed" ELSE resolved[k]
    BY <1>7, CallEndsFacts
  <2>2. settlement_fail_streak' = 0 /\ match_paused' = match_paused
    BY <1>7 DEF CallEnds
  <2>3. Done + 1 <= MaxArrivals /\ Done + 1 \in Nat /\ Done + 1 > Done /\ 0 <= Done + 1
    BY <1>0, <2>1, BoundAssumption DEF PipelineInv
  <2>4. \A k \in Fills : resolved'[k] = "failed" => resolved[k] = "failed" /\ k # Done + 1
    BY <2>1
  <2> QED
    BY <1>6, <2>1, <2>2, <2>3, <2>4
<1>8. ASSUME NEW q \in Seq(Nat), q # <<>>, calls = <<>>, Consecutive(q, Done), FlushTo(q),
             fill_queue' \in Seq(Nat), Consecutive(fill_queue', Done + Len(q)),
             Len(q) + Len(fill_queue') = Len(batch) + Len(fill_queue)
      PROVE  StreakCounts' /\ FailuresPause'
  <2>1. UNCHANGED <<settlement_fail_streak, match_paused>>
    BY <1>8 DEF FlushTo
  <2>2. CASE Done' = Done /\ UNCHANGED resolved
    BY <1>4, <2>1, <2>2
  <2>3. CASE /\ Done' = Done + Len(q)
             /\ \A k \in Fills : resolved'[k] =
                  IF k \in (Done + 1)..(Done + Len(q)) THEN "skipped" ELSE resolved[k]
    <3>1. Len(q) \in Nat \ {0} /\ Len(fill_queue') \in Nat
      BY <1>8, HeadTyped
    <3>2. Done + Len(q) <= Len(made)
      BY <1>0, <1>8, <3>1, Lengths
    <3>3. /\ Done + Len(q) \in Nat /\ Done + Len(q) > Done /\ Done + Len(q) <= MaxArrivals
          /\ Done + Len(q) \in (Done + 1)..(Done + Len(q))
          /\ settlement_fail_streak <= Done + Len(q)
      BY <1>0, <3>1, <3>2, BoundAssumption DEF PipelineInv, StreakCounts
    <3>4. \A k \in Fills : resolved'[k] = "failed" => resolved[k] = "failed" /\ k # Done + Len(q)
      BY <2>3, <3>3
    <3> QED
      BY <1>0, <1>6, <2>1, <2>3, <3>3, <3>4
  <2> QED
    BY <1>8, <2>2, <2>3, FlushFacts
<1>9. CASE ReceiveFill \/ FlushInterval
  <2>1. calls = <<>> /\ Len(calls) = 0
    BY <1>1, <1>9, Flushes
  <2>2. CASE batch # <<>> /\ fill_queue' = fill_queue /\ FlushTo(batch)
    <3>1. Done + Len(calls) = Done /\ Done + Len(calls) + Len(batch) = Done + Len(batch)
      BY <1>0, <2>1
    <3>2. Consecutive(batch, Done) /\ Consecutive(fill_queue, Done + Len(batch))
      BY <3>1 DEF PipelineInv, Numbered
    <3>3. batch \in Seq(Nat) /\ fill_queue' \in Seq(Nat)
      BY <1>1, <2>2 DEF QueuesTyped
    <3> QED
      BY <1>8, <2>1, <2>2, <3>2, <3>3
  <2>3. CASE /\ fill_queue # <<>> /\ fill_queue' = Tail(fill_queue)
             /\ FlushTo(Append(batch, Head(fill_queue)))
    <3> DEFINE q == Append(batch, Head(fill_queue))
    <3>1. /\ q \in Seq(Nat) /\ Len(q) = Len(batch) + 1 /\ Consecutive(q, Done)
          /\ fill_queue' \in Seq(Nat) /\ Len(fill_queue') = Len(fill_queue) - 1
          /\ Consecutive(fill_queue', Done + (Len(batch) + 1))
      BY <2>1, <2>3, TakenIsNext
    <3> HIDE DEF q
    <3>2. Len(q) + Len(fill_queue') = Len(batch) + Len(fill_queue) /\ q # <<>>
      BY <1>0, <3>1
    <3>3. FlushTo(q)
      BY <2>3 DEF q
    <3> QED
      BY <1>8, <2>1, <3>1, <3>2, <3>3
  <2>4. CASE /\ fill_queue # <<>> /\ fill_queue' = Tail(fill_queue)
             /\ batch' = Append(batch, Head(fill_queue))
             /\ UNCHANGED <<made, unsent, calls, resolved, settlement_fail_streak, match_paused>>
    <3>1. Len(batch') = Len(batch) + 1 /\ Len(fill_queue') = Len(fill_queue) - 1
      BY <2>1, <2>4, TakenIsNext
    <3>2. Done' = Done
      BY <1>0, <2>4, <3>1 DEF Done
    <3> QED
      BY <1>4, <2>4, <3>2
  <2> QED
    BY <1>1, <1>9, <2>2, <2>3, <2>4, Flushes
<1>10. CASE PipelineRests \/ CountFill
  BY <1>3, <1>10 DEF PipelineRests, pipeline, CountFill, settlerVars
<1>11. CASE EndMatch \/ SendFill
  <2>1. UNCHANGED <<resolved, settlement_fail_streak, match_paused, batch, calls>>
    BY <1>11 DEF EndMatch, SendFill, settlerVars
  <2>2. CASE EndMatch
    <3>1. /\ unsent = <<>> /\ made' = made \o fills'[Runner]
          /\ unsent' = Serials(fills'[Runner]) /\ fill_queue' = fill_queue
      BY <1>1, <2>2 DEF EndMatch, Return, TasksTakeTurns
    <3>2. fills'[Runner] \in Seq(Fill)
      <4>1. fills' = fills \/ fills' = [fills EXCEPT ![Runner] = <<>>]
        BY <2>2 DEF EndMatch, Return
      <4>2. fills'[Runner] = fills[Runner] \/ fills'[Runner] = <<>>
        BY <4>1, RunnerCalls DEF CallsTyped
      <4>3. fills[Runner] \in Seq(Fill) /\ <<>> \in Seq(Fill)
        BY RunnerCalls DEF CallsTyped
      <4> QED
        BY <4>2, <4>3
    <3>3. /\ Len(made') = Len(made) + Len(fills'[Runner]) /\ Len(fills'[Runner]) \in Nat
          /\ Len(unsent') = Len(fills'[Runner]) /\ Len(unsent) = 0
      BY <3>1, <3>2 DEF Serials, PipelineInv
    <3>4. Done' = Done
      BY <1>0, <2>1, <3>1, <3>3 DEF Done
    <3> QED
      BY <1>4, <2>1, <3>4
  <2>3. CASE SendFill
    <3>1. /\ unsent # <<>> /\ made' = made
          /\ fill_queue' = Append(fill_queue, Head(unsent)) /\ unsent' = Tail(unsent)
      BY <1>1, <2>3 DEF SendFill, TasksTakeTurns
    <3>2. Len(unsent') = Len(unsent) - 1 /\ Head(unsent) \in Nat
      BY <1>1, <3>1, HeadTyped DEF QueuesTyped
    <3>3. Len(fill_queue') = Len(fill_queue) + 1
      BY <1>1, <3>1, <3>2 DEF QueuesTyped
    <3>4. Done' = Done
      BY <1>0, <2>1, <3>1, <3>2, <3>3 DEF Done
    <3> QED
      BY <1>4, <2>1, <3>4
  <2> QED
    BY <1>11, <2>2, <2>3
<1> QED
  BY <1>1, <1>5, <1>7, <1>9, <1>10, <1>11, PipelineMoves

-----------------------------------------------------------------------------
(***************************************************************************)
(* The orders on chain, the mempool and what has been executed.            *)
(***************************************************************************)
OrdersPlaced == Cardinality(DOMAIN market)

ChainTyped ==
  /\ OrdersPlaced \in Nat
  /\ market \in [1..OrdersPlaced -> OrderOnChain]
  /\ \A id \in DOMAIN market : /\ market[id].order.order_id = id
                               /\ market[id].remaining <= market[id].order.remaining
  /\ events \in Seq(Event)
  /\ mempool \in Seq(Nat)
  /\ \A i \in 1..Len(mempool) : mempool[i] \in 1..Len(made)
  /\ applied \in [Fills -> Nat]

LEMMA RequestFacts ==
  ASSUME NEW r \in Requests
  PROVE  /\ r.remaining \in Nat \ {0} /\ r.company_id \in Companies
         /\ r.side \in Sides /\ r.order_id \in OrderIds
  BY RequestsAssumption DEF Positive

LEMMA OrderOnChainFacts ==
  ASSUME NEW o \in OrderOnChain
  PROVE  /\ o.order \in Requests /\ o.remaining \in Nat /\ o.active \in BOOLEAN
         /\ o = [order |-> o.order, remaining |-> o.remaining, active |-> o.active]
  BY DEF OrderOnChain

\* A settlement takes the filled quantity from an order and closes it when
\* nothing is left.
LEMMA LessTradedFacts ==
  ASSUME NEW o \in OrderOnChain, NEW qty \in Nat, o.remaining >= qty, o.active
  PROVE  LET p == LessTraded(o, qty) IN
         /\ p \in OrderOnChain
         /\ p.order = o.order /\ p.remaining = o.remaining - qty
         /\ p.active <=> o.remaining > qty
<1> DEFINE b == o.active /\ o.remaining > qty
           n == o.remaining - qty
           p == [o EXCEPT !.remaining = n, !.active = b]
<1>1. LessTraded(o, qty) = p
  BY DEF LessTraded, OrderOnChain
<1>2. n \in Nat
  BY OrderOnChainFacts
<1>3. b \in BOOLEAN
  OBVIOUS
<1>4. b <=> o.remaining > qty
  OBVIOUS
<1> HIDE DEF n, b
<1>5. p \in OrderOnChain /\ p.order = o.order /\ p.remaining = n /\ p.active = b
  BY <1>2, <1>3 DEF OrderOnChain
<1>6. p.active <=> o.remaining > qty
  BY <1>4, <1>5
<1> QED
  BY <1>1, <1>5, <1>6 DEF n

LEMMA PlaceFacts ==
  ASSUME ChainTyped, PlaceOrder
  PROVE  \E r \in Requests :
           LET n == OrdersPlaced + 1 IN
           /\ r.order_id = n /\ n <= MaxArrivals
           /\ OrdersPlaced' = n /\ DOMAIN market = 1..OrdersPlaced /\ DOMAIN market' = 1..n
           /\ \A id \in 1..OrdersPlaced : market'[id] = market[id]
           /\ market'[n] = [order |-> r, remaining |-> r.remaining, active |-> TRUE]
           /\ market' \in [1..n -> OrderOnChain]
           /\ events' = Append(events, [kind |-> "OrderPlaced", order |-> r])
<1>1. PICK r \in Requests :
        /\ r.order_id = OrdersPlaced + 1 /\ r.order_id <= MaxArrivals
        /\ market' = Put(market, r.order_id,
                         [order |-> r, remaining |-> r.remaining, active |-> TRUE])
        /\ events' = Append(events, [kind |-> "OrderPlaced", order |-> r])
  BY DEF PlaceOrder, OrdersPlaced
<1> DEFINE n == OrdersPlaced + 1
           o == [order |-> r, remaining |-> r.remaining, active |-> TRUE]
<1>2. /\ OrdersPlaced \in Nat /\ DOMAIN market = 1..OrdersPlaced
      /\ \A id \in 1..OrdersPlaced : market[id] \in OrderOnChain
  BY DEF ChainTyped
<1>3. o \in OrderOnChain
  BY RequestFacts DEF OrderOnChain
<1>4. 1..OrdersPlaced \cup {n} = 1..n /\ n \notin 1..OrdersPlaced
  BY <1>2
<1> HIDE DEF n, o
<1>5. market' = [x \in 1..n |-> IF x = n THEN o ELSE market[x]]
  BY <1>1, <1>2, <1>4 DEF Put, n, o
<1>6. Cardinality(1..n) = n
  BY <1>2, FS_Interval DEF n
<1>7. OrdersPlaced' = n /\ DOMAIN market' = 1..n
  BY <1>5, <1>6 DEF OrdersPlaced
<1>8. n \in 1..n /\ \A id \in 1..OrdersPlaced : id \in 1..n /\ id # n
  BY <1>4
<1>9. /\ market'[n] = o /\ \A id \in 1..OrdersPlaced : market'[id] = market[id]
      /\ market' \in [1..n -> OrderOnChain]
  BY <1>2, <1>3, <1>4, <1>5, <1>8
<1> QED
  BY <1>1, <1>2, <1>7, <1>9 DEF n, o

LEMMA IncludeFacts ==
  ASSUME ChainTyped, made \in Seq(Fill), Include
  PROVE  LET k == Head(mempool) IN
         /\ mempool # <<>> /\ mempool' = Tail(mempool) /\ k \in 1..Len(made)
         /\ made[k] \in Fill
         /\ UNCHANGED <<events, made, calls, batch, fill_queue, unsent, settler, vars>>
         /\ \/ UNCHANGED <<market, applied>>
            \/ /\ Acceptable(made[k])
               /\ DOMAIN market' = DOMAIN market
               /\ \A id \in DOMAIN market :
                    IF id \in {made[k].maker_order_id, made[k].taker_order_id}
                      THEN /\ market[id].remaining >= made[k].vstk_amount
                           /\ market[id].active
                           /\ market'[id] \in OrderOnChain
                           /\ market'[id].order = market[id].order
                           /\ market'[id].remaining = market[id].remaining - made[k].vstk_amount
                           /\ market'[id].active
                                <=> market[id].remaining > made[k].vstk_amount
                      ELSE market'[id] = market[id]
               /\ market' = [id \in DOMAIN market |-> market'[id]]
               /\ applied' = [applied EXCEPT ![k] = @ + 1]
<1> DEFINE k == Head(mempool)
           f == made[k]
<1>1. /\ mempool # <<>> /\ mempool' = Tail(mempool)
      /\ UNCHANGED <<events, made, calls, batch, fill_queue, unsent, settler, vars>>
      /\ \/ UNCHANGED <<market, applied>>
         \/ /\ Acceptable(f)
            /\ market' = [id \in DOMAIN market |->
                 IF id \in {f.maker_order_id, f.taker_order_id}
                   THEN LessTraded(market[id], f.vstk_amount) ELSE market[id]]
            /\ applied' = [applied EXCEPT ![k] = @ + 1]
  BY DEF Include, runnerVars, settlerVars
<1>2. k \in 1..Len(made)
  <2>1. mempool \in Seq(Nat) /\ k = mempool[1] /\ Len(mempool) \in Nat \ {0}
    BY <1>1, HeadTyped DEF ChainTyped
  <2>2. 1 \in 1..Len(mempool)
    BY <2>1
  <2> QED
    BY <2>1, <2>2 DEF ChainTyped
<1> HIDE DEF k
<1>3. f \in Fill
  BY <1>2
<1>4. f.vstk_amount \in Nat
  BY <1>3 DEF Fill
<1> HIDE DEF f
<1>5. CASE UNCHANGED <<market, applied>>
  BY <1>1, <1>2, <1>3, <1>5 DEF f, k
<1>6. CASE /\ Acceptable(f)
           /\ market' = [id \in DOMAIN market |->
                IF id \in {f.maker_order_id, f.taker_order_id}
                  THEN LessTraded(market[id], f.vstk_amount) ELSE market[id]]
           /\ applied' = [applied EXCEPT ![k] = @ + 1]
  <2>1. ASSUME NEW id \in DOMAIN market, id \in {f.maker_order_id, f.taker_order_id}
        PROVE  /\ market[id].remaining >= f.vstk_amount /\ market[id].active
               /\ market'[id] \in OrderOnChain
               /\ market'[id].order = market[id].order
               /\ market'[id].remaining = market[id].remaining - f.vstk_amount
               /\ market'[id].active <=> market[id].remaining > f.vstk_amount
    <3>1. market[id].remaining >= f.vstk_amount /\ market[id].active
      BY <1>6, <2>1 DEF Acceptable
    <3>2. market[id] \in OrderOnChain
      BY DEF ChainTyped
    <3>3. market'[id] = LessTraded(market[id], f.vstk_amount)
      BY <1>6, <2>1
    <3> QED
      BY <1>4, <3>1, <3>2, <3>3, LessTradedFacts
  <2>2. \A id \in DOMAIN market : id \notin {f.maker_order_id, f.taker_order_id}
                                     => market'[id] = market[id]
    BY <1>6
  <2>3. DOMAIN market' = DOMAIN market /\ market' = [id \in DOMAIN market |-> market'[id]]
    BY <1>6
  <2>4. \A id \in DOMAIN market :
                    IF id \in {f.maker_order_id, f.taker_order_id}
                      THEN /\ market[id].remaining >= f.vstk_amount
                           /\ market[id].active
                           /\ market'[id] \in OrderOnChain
                           /\ market'[id].order = market[id].order
                           /\ market'[id].remaining = market[id].remaining - f.vstk_amount
                           /\ market'[id].active <=> market[id].remaining > f.vstk_amount
                      ELSE market'[id] = market[id]
    BY <2>1, <2>2
  <2> QED
    BY <1>1, <1>2, <1>3, <1>6, <2>3, <2>4 DEF f, k
<1> QED
  BY <1>1, <1>5, <1>6

LEMMA CancelFacts ==
  ASSUME ChainTyped, CancelOnChain
  PROVE  \E id \in DOMAIN market :
           /\ market[id].active
           /\ OrdersPlaced' = OrdersPlaced
           /\ DOMAIN market = 1..OrdersPlaced /\ DOMAIN market' = DOMAIN market
           /\ \A i \in DOMAIN market : i # id => market'[i] = market[i]
           /\ market'[id].order = market[id].order
           /\ market'[id].remaining = market[id].remaining
           /\ ~market'[id].active
           /\ market' \in [1..OrdersPlaced -> OrderOnChain]
           /\ market[id].order \in Requests
           /\ events' = Append(events, [kind |-> "OrderCancelled", order |-> market[id].order])
<1>1. PICK id \in DOMAIN market :
        /\ market[id].active
        /\ market' = [market EXCEPT ![id].active = FALSE]
        /\ events' = Append(events, [kind |-> "OrderCancelled", order |-> market[id].order])
  BY DEF CancelOnChain
<1>2. /\ OrdersPlaced \in Nat /\ DOMAIN market = 1..OrdersPlaced
      /\ market \in [1..OrdersPlaced -> OrderOnChain] /\ market[id] \in OrderOnChain
  BY DEF ChainTyped
<1> DEFINE o == [market[id] EXCEPT !.active = FALSE]
<1>3. /\ o \in OrderOnChain /\ o.order = market[id].order
      /\ o.remaining = market[id].remaining /\ ~o.active
  BY <1>2 DEF OrderOnChain
<1>4. market' = [market EXCEPT ![id] = o]
  BY <1>1, <1>2
<1> HIDE DEF o
<1>5. /\ market' \in [1..OrdersPlaced -> OrderOnChain] /\ DOMAIN market' = DOMAIN market
      /\ market'[id] = o
      /\ \A i \in DOMAIN market : i # id => market'[i] = market[i]
  BY <1>2, <1>3, <1>4
<1>6. OrdersPlaced' = OrdersPlaced
  BY <1>5 DEF OrdersPlaced
<1>7. market[id].order \in Requests
  BY <1>2, OrderOnChainFacts
<1> QED
  BY <1>1, <1>2, <1>3, <1>5, <1>6, <1>7

LEMMA SettledTyped ==
  ASSUME ChainTyped, made \in Seq(Fill), Include
  PROVE  /\ OrdersPlaced' = OrdersPlaced /\ DOMAIN market' = DOMAIN market
         /\ market' \in [1..OrdersPlaced -> OrderOnChain]
         /\ \A id \in DOMAIN market : /\ market'[id].order = market[id].order
                                      /\ market'[id].remaining <= market[id].remaining
         /\ applied' \in [Fills -> Nat]
<1> DEFINE k == Head(mempool)
           f == made[k]
<1>1. /\ OrdersPlaced \in Nat /\ DOMAIN market = 1..OrdersPlaced
      /\ market \in [1..OrdersPlaced -> OrderOnChain] /\ applied \in [Fills -> Nat]
      /\ \A id \in DOMAIN market : market[id].remaining \in Nat
  BY OrderOnChainFacts DEF ChainTyped
<1>2. CASE UNCHANGED <<market, applied>>
  BY <1>1, <1>2 DEF OrdersPlaced
<1>3. CASE ~UNCHANGED <<market, applied>>
  <2>1. /\ f \in Fill /\ DOMAIN market' = DOMAIN market
        /\ \A id \in DOMAIN market :
             IF id \in {f.maker_order_id, f.taker_order_id}
               THEN /\ market[id].remaining >= f.vstk_amount
                    /\ market'[id] \in OrderOnChain
                    /\ market'[id].order = market[id].order
                    /\ market'[id].remaining = market[id].remaining - f.vstk_amount
               ELSE market'[id] = market[id]
        /\ market' = [id \in DOMAIN market |-> market'[id]]
        /\ applied' = [applied EXCEPT ![k] = @ + 1]
    BY <1>3, IncludeFacts
  <2>2. f.vstk_amount \in Nat
    BY <2>1 DEF Fill
  <2> HIDE DEF f, k
  <2>3. \A id \in DOMAIN market : market'[id] \in OrderOnChain
    BY <1>1, <2>1
  <2>4. market' \in [1..OrdersPlaced -> OrderOnChain]
    BY <1>1, <2>1, <2>3
  <2>5. \A id \in DOMAIN market : /\ market'[id].order = market[id].order
                                  /\ market'[id].remaining <= market[id].remaining
    BY <1>1, <2>1, <2>2
  <2>6. applied' \in [Fills -> Nat]
    <3>1. applied \in [Fills -> Nat] /\ applied' = [applied EXCEPT ![k] = @ + 1]
      BY <1>1, <2>1
    <3>2. k \in Fills => applied[k] + 1 \in Nat
      BY <3>1
    <3> QED
      BY <3>1, <3>2
  <2>7. OrdersPlaced' = OrdersPlaced
    BY <2>1 DEF OrdersPlaced
  <2> QED
    BY <2>1, <2>4, <2>5, <2>6, <2>7
<1> QED
  BY <1>2, <1>3

LEMMA ChainStep ==
  ASSUME ChainTyped, PipelineInv, made' \in Seq(Fill), CallsTyped, [DaemonNext]_allVars
  PROVE  ChainTyped'
<1>0. /\ OrdersPlaced \in Nat /\ DOMAIN market = 1..OrdersPlaced
      /\ market \in [1..OrdersPlaced -> OrderOnChain] /\ applied \in [Fills -> Nat]
      /\ \A id \in DOMAIN market : market[id].remaining \in Nat /\ market[id].order \in Requests
      /\ mempool \in Seq(Nat) /\ events \in Seq(Event) /\ Len(mempool) \in Nat
      /\ made \in Seq(Fill) /\ Len(made) \in Nat
  BY OrderOnChainFacts DEF ChainTyped, PipelineInv
<1>1. CASE PlaceOrder
  <2>1. PICK r \in Requests :
           LET n == OrdersPlaced + 1 IN
           /\ r.order_id = n /\ OrdersPlaced' = n /\ DOMAIN market' = 1..n
           /\ \A id \in 1..OrdersPlaced : market'[id] = market[id]
           /\ market'[n] = [order |-> r, remaining |-> r.remaining, active |-> TRUE]
           /\ market' \in [1..n -> OrderOnChain]
           /\ events' = Append(events, [kind |-> "OrderPlaced", order |-> r])
    BY <1>1, PlaceFacts
  <2>2. [kind |-> "OrderPlaced", order |-> r] \in Event
    BY DEF Event
  <2>3. events' \in Seq(Event)
    BY <1>0, <2>1, <2>2
  <2>4. \A id \in 1..(OrdersPlaced + 1) : id \in 1..OrdersPlaced \/ id = OrdersPlaced + 1
    BY <1>0
  <2>5. r.remaining \in Nat
    BY RequestFacts
  <2>6. market'[OrdersPlaced + 1].order = r /\ market'[OrdersPlaced + 1].remaining = r.remaining
    BY <2>1
  <2>7. \A id \in DOMAIN market' : /\ market'[id].order.order_id = id
                                   /\ market'[id].remaining <= market'[id].order.remaining
    <3>1. ASSUME NEW id \in 1..OrdersPlaced
          PROVE  /\ market'[id].order.order_id = id
                 /\ market'[id].remaining <= market'[id].order.remaining
      <4>1. /\ market[id].order.order_id = id /\ market[id].remaining <= market[id].order.remaining
            /\ market'[id] = market[id]
        BY <1>0, <2>1 DEF ChainTyped
      <4> QED
        BY <4>1
    <3>2. r.order_id = OrdersPlaced + 1 /\ r.remaining <= r.remaining
      BY <2>1, <2>5
    <3>3. DOMAIN market' = 1..(OrdersPlaced + 1)
      BY <2>1
    <3> QED
      BY <2>4, <2>6, <3>1, <3>2, <3>3
  <2>8. UNCHANGED <<mempool, applied, made>>
    BY <1>1 DEF PlaceOrder
  <2> QED
    BY <1>0, <2>1, <2>3, <2>7, <2>8 DEF ChainTyped
<1>2. CASE CancelOnChain
  <2>1. PICK id \in DOMAIN market :
           /\ OrdersPlaced' = OrdersPlaced /\ DOMAIN market' = DOMAIN market
           /\ \A i \in DOMAIN market : i # id => market'[i] = market[i]
           /\ market'[id].order = market[id].order
           /\ market'[id].remaining = market[id].remaining
           /\ market' \in [1..OrdersPlaced -> OrderOnChain]
           /\ market[id].order \in Requests
           /\ events' = Append(events, [kind |-> "OrderCancelled", order |-> market[id].order])
    BY <1>2, CancelFacts
  <2>2. [kind |-> "OrderCancelled", order |-> market[id].order] \in Event
    BY <2>1 DEF Event
  <2>3. events' \in Seq(Event)
    BY <1>0, <2>1, <2>2
  <2>4. UNCHANGED <<mempool, applied, made>>
    BY <1>2 DEF CancelOnChain
  <2>5. \A i \in DOMAIN market' : market'[i].order = market[i].order
                                  /\ market'[i].remaining = market[i].remaining
    BY <2>1
  <2> QED
    BY <1>0, <2>1, <2>3, <2>4, <2>5 DEF ChainTyped
<1>3. CASE Include
  <2>1. /\ OrdersPlaced' = OrdersPlaced /\ DOMAIN market' = DOMAIN market
        /\ market' \in [1..OrdersPlaced -> OrderOnChain]
        /\ \A id \in DOMAIN market : /\ market'[id].order = market[id].order
                                     /\ market'[id].remaining <= market[id].remaining
        /\ applied' \in [Fills -> Nat]
    BY <1>0, <1>3, SettledTyped
  <2>2. mempool # <<>> /\ mempool' = Tail(mempool) /\ UNCHANGED <<events, made>>
    BY <1>0, <1>3, IncludeFacts
  <2>3. /\ mempool' \in Seq(Nat) /\ Len(mempool') = Len(mempool) - 1
        /\ \A i \in 1..Len(mempool') : mempool'[i] = mempool[i + 1]
    BY <1>0, <2>2, HeadTyped
  <2>4. \A i \in 1..Len(mempool') : mempool'[i] \in 1..Len(made')
    <3>1. \A i \in 1..Len(mempool') : i + 1 \in 1..Len(mempool)
      BY <1>0, <2>3
    <3> QED
      BY <2>2, <2>3, <3>1 DEF ChainTyped
  <2>5. \A id \in DOMAIN market' : /\ market'[id].order.order_id = id
                                   /\ market'[id].remaining <= market'[id].order.remaining
    <3>1. ASSUME NEW id \in DOMAIN market
          PROVE  /\ market'[id].order.order_id = id
                 /\ market'[id].remaining <= market'[id].order.remaining
      <4>1. /\ market[id].remaining <= market[id].order.remaining
            /\ market[id].order.order_id = id
        BY DEF ChainTyped
      <4>2. market[id].order.remaining \in Nat /\ market[id].remaining \in Nat
        BY <1>0, RequestFacts
      <4>3. market'[id].remaining \in Nat
        BY <1>0, <2>1, OrderOnChainFacts
      <4> QED
        BY <2>1, <4>1, <4>2, <4>3
    <3> QED
      BY <2>1, <3>1
  <2> QED
    BY <1>0, <2>1, <2>2, <2>3, <2>4, <2>5 DEF ChainTyped
<1>4. CASE EndMatch
  <2>1. made' = made \o fills'[Runner] /\ UNCHANGED <<market, events, mempool, applied>>
    BY <1>4 DEF EndMatch, chainVars
  <2>2. fills'[Runner] \in Seq(Fill)
    <3>1. fills' = fills \/ fills' = [fills EXCEPT ![Runner] = <<>>]
      BY <1>4 DEF EndMatch, Return
    <3>2. fills'[Runner] = fills[Runner] \/ fills'[Runner] = <<>>
      BY <3>1, RunnerCalls DEF CallsTyped
    <3>3. fills[Runner] \in Seq(Fill) /\ <<>> \in Seq(Fill)
      BY RunnerCalls DEF CallsTyped
    <3> QED
      BY <3>2, <3>3
  <2>3. Len(made') = Len(made) + Len(fills'[Runner]) /\ Len(fills'[Runner]) \in Nat
    BY <1>0, <2>1, <2>2
  <2>4. \A k \in 1..Len(made) : k \in 1..Len(made')
    BY <1>0, <2>3
  <2> QED
    BY <1>0, <2>1, <2>4 DEF ChainTyped, OrdersPlaced
<1>5. ASSUME UNCHANGED <<market, made, applied>>, events' \in Seq(Event),
             mempool' \in {mempool, Append(mempool, Head(calls))},
             mempool' = mempool \/ calls # <<>>
      PROVE  ChainTyped'
  <2>1. CASE mempool' = mempool
    BY <1>0, <1>5, <2>1 DEF ChainTyped, OrdersPlaced
  <2>2. CASE mempool' # mempool
    <3>1. calls # <<>> /\ mempool' = Append(mempool, Head(calls))
      BY <1>5, <2>2
    <3>2. Head(calls) = Done + 1 /\ Len(calls) \in Nat \ {0}
      BY <3>1, HeadTyped, ConsecutiveTail DEF PipelineInv, QueuesTyped, Numbered
    <3>3. Head(calls) \in 1..Len(made)
      BY <3>2, Lengths
    <3> HIDE DEF Done
    <3>4. /\ mempool' \in Seq(Nat) /\ Len(mempool') = Len(mempool) + 1
          /\ mempool'[Len(mempool) + 1] = Head(calls)
          /\ \A i \in 1..Len(mempool) : mempool'[i] = mempool[i]
      BY <1>0, <3>1, <3>3
    <3>5. \A i \in 1..Len(mempool') : i \in 1..Len(mempool) \/ i = Len(mempool) + 1
      BY <1>0, <3>4
    <3>6. \A i \in 1..Len(mempool') : mempool'[i] \in 1..Len(made')
      BY <1>5, <3>3, <3>4, <3>5 DEF ChainTyped
    <3> QED
      BY <1>0, <1>5, <3>4, <3>6 DEF ChainTyped, OrdersPlaced
  <2> QED
    BY <2>1, <2>2
<1>6. CASE TakePlaced \/ TakeCancelled
  <2>1. events # <<>> /\ events' = Tail(events) /\ UNCHANGED <<chainVars, made>>
    BY <1>6 DEF TakePlaced, TakeCancelled, RunnerReady
  <2>2. events' \in Seq(Event)
    BY <1>0, <2>1, HeadTyped
  <2> QED
    BY <1>5, <2>1, <2>2 DEF chainVars
<1>7. CASE SendSucceeds \/ SendFails
  <2>1. /\ UNCHANGED <<market, made, applied, events>>
        /\ mempool' \in {mempool, Append(mempool, Head(calls))}
        /\ settler = "sending"
    BY <1>7 DEF SendSucceeds, SendFails, runnerVars
  <2>2. calls # <<>>
    BY <2>1 DEF PipelineInv, TasksTakeTurns
  <2> QED
    BY <1>0, <1>5, <2>1, <2>2
<1>8. CASE Match \/ CountFill \/ SendFill \/ ReceiveFill \/ FlushInterval
           \/ GasPriceFails \/ ReceiptArrives \/ ReceiptFails \/ UNCHANGED allVars
  <2>1. UNCHANGED <<chainVars, made, events>>
    BY <1>8 DEF Match, CountFill, SendFill, ReceiveFill, FlushInterval, GasPriceFails,
              ReceiptArrives, ReceiptFails, allVars, daemonVars, runnerVars
  <2> QED
    BY <1>0, <1>5, <2>1 DEF chainVars
<1> QED
  BY <1>1, <1>2, <1>3, <1>4, <1>6, <1>7, <1>8 DEF DaemonNext, RunnerStep, SettlerStep

-----------------------------------------------------------------------------
(***************************************************************************)
(* The daemon's inductive invariant: the engine's, the tasks and queues in *)
(* turn and in order, no more fills than exhausted orders, and what the    *)
(* counters count.                                                         *)
(***************************************************************************)
DaemonInv ==
  /\ EngineInv /\ FillsExhaust
  /\ PipelineInv /\ ChainTyped
  /\ PendingCounts
  /\ StreakCounts /\ FailuresPause

LEMMA FewFills ==
  ASSUME NEW m \in Nat, NEW n \in Nat, NEW S, S \subseteq 1..MaxArrivals,
         m + n <= Cardinality(S)
  PROVE  m <= MaxArrivals
<1>1. IsFiniteSet(1..MaxArrivals) /\ Cardinality(1..MaxArrivals) = MaxArrivals
  BY FS_Interval, BoundAssumption
<1>2. Cardinality(S) \in Nat /\ Cardinality(S) <= MaxArrivals
  BY <1>1, SmallerSet
<1> QED
  BY <1>2, BoundAssumption

LEMMA DaemonStarts == DaemonInit => DaemonInv
<1> SUFFICES ASSUME DaemonInit PROVE DaemonInv
  OBVIOUS
<1>1. EngineInv
  BY EngineStarts
<1>2. /\ made = <<>> /\ unsent = <<>> /\ fill_queue = <<>> /\ batch = <<>> /\ calls = <<>>
      /\ events = <<>> /\ mempool = <<>> /\ market = EmptyMap
      /\ match_paused = FALSE /\ counted = FALSE /\ signer \in BOOLEAN
      /\ settler = "collecting" /\ attempt = 0
      /\ pending_settlements = 0 /\ settlement_fail_streak = 0
      /\ applied = [k \in Fills |-> 0] /\ resolved = [k \in Fills |-> "open"]
      /\ pc[Runner] = "idle"
  BY RunnerCalls DEF DaemonInit, Init
<1>3. /\ Len(made) = 0 /\ Len(unsent) = 0 /\ Len(fill_queue) = 0 /\ Len(batch) = 0
      /\ Len(calls) = 0 /\ Len(mempool) = 0
  BY <1>2
<1>4. Done = 0
  BY <1>3 DEF Done
<1>5. {FillCapacity, BatchSize, MaxAttempts, FailureLimit} \subseteq Nat \ {0}
  BY DaemonAssumption DEF Positive
<1>6. HistoryTyped
  BY <1>1 DEF EngineInv, IInv, TypeOK
<1>7. FillsExhaust
  <2>1. FillsEver = 0
    BY <1>2, <1>3 DEF FillsEver
  <2> QED
    BY <1>6, <2>1, ExhaustedFinite DEF FillsExhaust
<1>8. QueuesTyped
  <2>1. <<>> \in Seq(Nat)
    OBVIOUS
  <2>2. resolved \in [Fills -> {"open", "skipped", "confirmed", "failed"}]
    BY <1>2
  <2>3. Len(fill_queue) <= FillCapacity
    BY <1>3, <1>5
  <2>4. pending_settlements \in Int /\ settlement_fail_streak \in Nat
    BY <1>2
  <2>6. counted \in BOOLEAN /\ match_paused \in BOOLEAN /\ signer \in BOOLEAN
    BY <1>2, Zenon
  <2>5. /\ unsent \in Seq(Nat) /\ fill_queue \in Seq(Nat)
        /\ batch \in Seq(Nat) /\ calls \in Seq(Nat)
    BY <1>2, <2>1
  <2> QED
    BY <2>2, <2>3, <2>4, <2>5, <2>6 DEF QueuesTyped
<1>9. TasksTakeTurns
  BY <1>2, <1>3, <1>5 DEF TasksTakeTurns
<1>10. Numbered
  BY <1>2, <1>4, EmptyConsecutive DEF Numbered
<1>11. OpenAfterDone
  BY <1>2, <1>4 DEF OpenAfterDone, Fills
<1>12. PipelineInv
  BY <1>2, <1>3, <1>8, <1>9, <1>10, <1>11, BoundAssumption DEF PipelineInv
<1>13. ChainTyped
  <2>1. DOMAIN market = {} /\ market \in [{} -> OrderOnChain]
    BY <1>2 DEF EmptyMap
  <2>2. OrdersPlaced = 0
    BY <2>1, FS_EmptySet DEF OrdersPlaced
  <2>3. 1..0 = {}
    OBVIOUS
  <2>4. market \in [1..OrdersPlaced -> OrderOnChain]
    BY <2>1, <2>2, <2>3
  <2>5. <<>> \in Seq(Event) /\ <<>> \in Seq(Nat)
    OBVIOUS
  <2> QED
    BY <1>2, <1>3, <2>1, <2>2, <2>4, <2>5 DEF ChainTyped
<1>14. Cardinality(Failed) = 0
  <2>1. Failed = {}
    BY <1>2 DEF Failed
  <2> QED
    BY <2>1, FS_EmptySet
<1>15. PendingCounts
  BY <1>2, <1>3, <1>14 DEF PendingCounts, Failed
<1>16. \A k \in Fills : resolved[k] # "failed"
  BY <1>2
<1>17. FailuresPause
  <2>1. ASSUME NEW k \in Fills PROVE k \in k..(k + FailureLimit - 1)
    BY <1>5 DEF Fills
  <2> QED
    BY <1>16, <2>1 DEF FailuresPause, FailedInARow
<1>18. StreakCounts
  BY <1>2, <1>4 DEF StreakCounts
<1> QED
  BY <1>1, <1>7, <1>12, <1>13, <1>15, <1>17, <1>18 DEF DaemonInv

LEMMA DaemonKept == DaemonInv /\ [DaemonNext]_allVars => DaemonInv'
<1> SUFFICES ASSUME DaemonInv, [DaemonNext]_allVars PROVE DaemonInv'
  OBVIOUS
<1>1. /\ EngineInv /\ FillsExhaust /\ PipelineInv /\ ChainTyped
      /\ PendingCounts /\ StreakCounts /\ FailuresPause
      /\ QueuesTyped /\ TasksTakeTurns /\ made \in Seq(Fill)
      /\ unsent # <<>> => pc[Runner] = "idle"
      /\ events \in Seq(Event)
  BY DEF DaemonInv, PipelineInv, TasksTakeTurns, ChainTyped
<1>2. EngineInv'
  BY <1>1, EngineKept
<1>3. CallsTyped /\ CallsTyped' /\ HistoryTyped'
  BY <1>1, <1>2 DEF EngineInv, IInv, TypeOK
<1>4. FillsExhaust' /\ made' \in Seq(Fill)
  BY <1>1, <1>2, ExhaustStep
<1>5. Len(made') <= MaxArrivals
  <2>1. Exhausted' \subseteq 1..MaxArrivals
    BY <1>3, BoundAssumption DEF HistoryTyped, Exhausted
  <2>2. Len(made') \in Nat /\ Len(fills'[Runner]) \in Nat
    BY <1>3, <1>4, RunnerCalls DEF CallsTyped
  <2>3. PICK n \in Nat : FillsEver' = Len(made') + n
    BY <2>2 DEF FillsEver
  <2> QED
    BY <1>4, <2>1, <2>2, <2>3, FewFills DEF FillsExhaust
<1>6. TasksTakeTurns' /\ QueuesTyped'
  BY <1>1, <1>3, TasksStep
<1>7. Numbered' /\ OpenAfterDone'
  BY <1>1, <1>3, NumbersStep
<1>8. PipelineInv'
  BY <1>4, <1>5, <1>6, <1>7 DEF PipelineInv
<1>9. ChainTyped'
  BY <1>1, <1>3, <1>4, ChainStep
<1>10. PendingCounts'
  BY <1>1, <1>3, PendingStep
<1>11. StreakCounts' /\ FailuresPause'
  BY <1>1, <1>3, FailuresStep
<1> QED
  BY <1>2, <1>4, <1>8, <1>9, <1>10, <1>11 DEF DaemonInv

\* Engine, pipeline, chain and the counters keep what the theorems below need
\* (aide_daemon.rs:521 to 706).
THEOREM DaemonInductive == DaemonSpec => []DaemonInv
  BY DaemonStarts, DaemonKept, PTL DEF DaemonSpec

\* What the engine guarantees to any callers it guarantees in the daemon, where
\* the runner calls it and the settler pauses it (aide_daemon.rs:521, 677).
THEOREM EngineHoldsInDaemon ==
  DaemonSpec => [](BooksConsistent /\ QueuesInTimeOrder /\ Uncrossed
                     /\ QuantityConserved /\ FillsAddUp)
<1>1. DaemonInit => DaemonInv /\ Uncrossed
  <2>1. DaemonInit => Init
    BY DEF DaemonInit
  <2>2. Init => Uncrossed
    BY DEF Init, Uncrossed, EmptyBook, EmptyMap, Sides
  <2> QED
    BY <2>1, <2>2, DaemonStarts
<1>2. DaemonInv /\ Uncrossed /\ [DaemonNext]_allVars => DaemonInv' /\ Uncrossed'
  <2>1. DaemonInv => IInv /\ events \in Seq(Event)
    BY DEF DaemonInv, EngineInv, ChainTyped
  <2> QED
    BY <2>1, DaemonKept, EngineStep, PlacementUncrossed
<1>3. DaemonInv => BooksConsistent /\ QueuesInTimeOrder /\ QuantityConserved /\ FillsAddUp
  <2>1. DaemonInv => IInv /\ Accounted /\ FillsAddUp
    BY DEF DaemonInv, EngineInv
  <2>2. IInv => BooksConsistent /\ QueuesInTimeOrder
    BY DEF IInv, SoundBooks, Sound, BooksConsistent, QueuesInTimeOrder
  <2> QED
    BY <2>1, <2>2, AccountedConserves
<1> QED
  BY <1>1, <1>2, <1>3, PTL DEF DaemonSpec

\* A queue of numbers that stay within a bound.
LEMMA SeqWithin ==
  ASSUME NEW q \in Seq(Nat), NEW S, \A i \in 1..Len(q) : q[i] \in S
  PROVE  q \in Seq(S)
  OBVIOUS

LEMMA ConsecutiveWithin ==
  ASSUME NEW q \in Seq(Nat), NEW n \in Nat, NEW m \in Nat, Consecutive(q, n), n + Len(q) <= m
  PROVE  q \in Seq(1..m)
<1>1. Len(q) \in Nat
  OBVIOUS
<1>2. \A i \in 1..Len(q) : q[i] \in 1..m
  BY <1>1 DEF Consecutive
<1> QED
  BY <1>2, SeqWithin

LEMMA DaemonTyped == DaemonInv => DaemonTypeOK
<1> SUFFICES ASSUME DaemonInv PROVE DaemonTypeOK
  OBVIOUS
<1>1. /\ EngineInv /\ PipelineInv /\ ChainTyped /\ PendingCounts /\ StreakCounts
      /\ QueuesTyped /\ TasksTakeTurns /\ Numbered /\ TypeOK
      /\ made \in Seq(Fill) /\ Len(made) <= MaxArrivals
  BY DEF DaemonInv, PipelineInv, EngineInv, IInv
<1>2. /\ Len(made) \in Nat /\ Len(unsent) \in Nat /\ Len(fill_queue) \in Nat
      /\ Len(batch) \in Nat /\ Len(calls) \in Nat /\ Done \in Nat
      /\ Done + Len(calls) + Len(batch) + Len(fill_queue) + Len(unsent) = Len(made)
  BY <1>1, Lengths
<1>3. /\ calls \in Seq(1..Len(made)) /\ batch \in Seq(1..Len(made))
      /\ fill_queue \in Seq(1..Len(made)) /\ unsent \in Seq(1..Len(made))
  <2>1. /\ Consecutive(calls, Done)
        /\ Consecutive(batch, Done + Len(calls))
        /\ Consecutive(fill_queue, Done + Len(calls) + Len(batch))
        /\ Consecutive(unsent, Done + Len(calls) + Len(batch) + Len(fill_queue))
    BY <1>1 DEF Numbered
  <2>2. /\ calls \in Seq(Nat) /\ batch \in Seq(Nat)
        /\ fill_queue \in Seq(Nat) /\ unsent \in Seq(Nat)
    BY <1>1 DEF QueuesTyped
  <2> DEFINE m == Len(made)
  <2>3. /\ m \in Nat /\ Done + Len(calls) \in Nat /\ Done + Len(calls) + Len(batch) \in Nat
        /\ Done + Len(calls) + Len(batch) + Len(fill_queue) \in Nat
        /\ Done + Len(calls) <= m
        /\ Done + Len(calls) + Len(batch) <= m
        /\ Done + Len(calls) + Len(batch) + Len(fill_queue) <= m
        /\ Done + Len(calls) + Len(batch) + Len(fill_queue) + Len(unsent) <= m
    BY <1>2
  <2> HIDE DEF m
  <2>4. calls \in Seq(1..m)
    BY <1>2, <2>1, <2>2, <2>3, ConsecutiveWithin
  <2>5. batch \in Seq(1..m)
    BY <1>2, <2>1, <2>2, <2>3, ConsecutiveWithin
  <2>6. fill_queue \in Seq(1..m)
    BY <1>2, <2>1, <2>2, <2>3, ConsecutiveWithin
  <2>7. unsent \in Seq(1..m)
    BY <1>2, <2>1, <2>2, <2>3, ConsecutiveWithin
  <2> QED
    BY <2>4, <2>5, <2>6, <2>7 DEF m
<1>4. mempool \in Seq(1..Len(made))
  BY <1>1, SeqWithin DEF ChainTyped
<1>5. pending_settlements \in 0..MaxArrivals
  <2> DEFINE one == IF counted THEN 1 ELSE 0
  <2>1. one \in Nat /\ one <= Len(unsent)
    <3>1. counted => Len(unsent) # 0
      BY <1>1, HeadTyped DEF TasksTakeTurns, QueuesTyped
    <3> QED
      BY <1>2, <3>1
  <2>2. Cardinality(Failed) \in Nat /\ Cardinality(Failed) <= Done
    BY <1>1, FailedFacts
  <2>3. pending_settlements = one + Len(fill_queue) + Len(batch) + Len(calls)
                                + Cardinality(Failed)
    BY <1>1 DEF PendingCounts, Failed
  <2> HIDE DEF one
  <2> QED
    BY <1>1, <1>2, <2>1, <2>2, <2>3, BoundAssumption
<1>6. settlement_fail_streak \in 0..MaxArrivals
  <2>1. settlement_fail_streak \in Nat /\ settlement_fail_streak <= Done
    BY <1>1 DEF StreakCounts, QueuesTyped
  <2> QED
    BY <1>1, <1>2, <2>1, BoundAssumption
<1>7. market \in [1..Cardinality(DOMAIN market) -> OrderOnChain]
  BY <1>1 DEF ChainTyped, OrdersPlaced
<1> QED
  BY <1>1, <1>3, <1>4, <1>5, <1>6, <1>7
     DEF DaemonTypeOK, QueuesTyped, TasksTakeTurns, ChainTyped

\* Everything in the daemon and on chain stays within its type: queues hold
\* numbers of fills that exist, and no counter goes below zero
\* (aide_daemon.rs:100 counts without a lock).
THEOREM DaemonTypeCorrect == DaemonSpec => []DaemonTypeOK
  BY DaemonInductive, DaemonTyped, PTL

\* The fills leave in the order in which they were made, each from one place
\* (aide_daemon.rs:580 to 706).
THEOREM FillsStayInOrder == DaemonSpec => []FillsInOrder
<1>1. DaemonInv => FillsInOrder
  <2> SUFFICES ASSUME DaemonInv PROVE FillsInOrder
    OBVIOUS
  <2>1. PipelineInv /\ Numbered /\ OpenAfterDone /\ QueuesTyped /\ made \in Seq(Fill)
    BY DEF DaemonInv, PipelineInv
  <2>2. /\ Len(made) \in Nat /\ Len(unsent) \in Nat /\ Len(fill_queue) \in Nat
        /\ Len(batch) \in Nat /\ Len(calls) \in Nat /\ Done \in Nat
        /\ Done + Len(calls) + Len(batch) + Len(fill_queue) + Len(unsent) = Len(made)
        /\ \A k \in 1..Len(made) : k \in Fills
    BY <2>1, Lengths
  <2> DEFINE p == calls \o batch
             r == p \o fill_queue
             q == r \o unsent
  <2>3. p \in Seq(Nat) /\ Len(p) = Len(calls) + Len(batch) /\ Consecutive(p, Done)
    BY <2>1, <2>2, ConsecutiveJoin DEF Numbered, QueuesTyped
  <2>4. Done + Len(calls) + Len(batch) = Done + Len(p)
    BY <2>2, <2>3
  <2> HIDE DEF p
  <2>5. r \in Seq(Nat) /\ Len(r) = Len(p) + Len(fill_queue) /\ Consecutive(r, Done)
    BY <2>1, <2>2, <2>3, <2>4, ConsecutiveJoin DEF Numbered, QueuesTyped
  <2>6. Done + Len(calls) + Len(batch) + Len(fill_queue) = Done + Len(r)
    BY <2>2, <2>3, <2>5
  <2> HIDE DEF r
  <2>7. q \in Seq(Nat) /\ Len(q) = Len(r) + Len(unsent) /\ Consecutive(q, Done)
    BY <2>1, <2>2, <2>5, <2>6, ConsecutiveJoin DEF Numbered, QueuesTyped
  <2>8. q = calls \o batch \o fill_queue \o unsent
    BY DEF p, r
  <2> HIDE DEF q
  <2>9. Len(q) = Len(made) - Done
    BY <2>2, <2>3, <2>5, <2>7
  <2>10. ASSUME NEW i \in 1..Len(q) PROVE q[i] = Len(made) - Len(q) + i
    <3>1. q[i] = Done + i
      BY <2>7 DEF Consecutive
    <3> QED
      BY <2>2, <2>9, <3>1
  <2>11. ToSet(q) = (Done + 1)..Len(made)
    <3>1. ToSet(q) = (Done + 1)..(Done + Len(q))
      BY <2>2, <2>7, ConsecutiveSet
    <3>2. Done + Len(q) = Len(made)
      BY <2>2, <2>9
    <3> QED
      BY <3>1, <3>2
  <2>12. ASSUME NEW k \in 1..Len(made) PROVE resolved[k] = "open" <=> k \in ToSet(q)
    <3>1. resolved[k] = "open" <=> k > Done
      BY <2>1, <2>2 DEF OpenAfterDone
    <3> QED
      BY <2>2, <2>11, <3>1
  <2> QED
    BY <2>8, <2>10, <2>12 DEF FillsInOrder
<1> QED
  BY <1>1, DaemonInductive, PTL

\* pending_settlements is what is in the pipeline and what failed
\* (aide_daemon.rs:582, 670, 675): nothing is counted twice or uncounted early.
THEOREM PendingIsCounted == DaemonSpec => []PendingCounts
<1>1. DaemonInv => PendingCounts
  BY DEF DaemonInv
<1> QED
  BY <1>1, DaemonInductive, PTL

\* Once FailureLimit settlements in a row have failed no order enters the engine
\* again (aide_daemon.rs:98, 677 to 697), whatever succeeds later.
THEOREM FailuresEndMatching == DaemonSpec => NoOrderAfterFailures
<1> DEFINE Kept == FailedInARow /\ pc'[Runner] = "admitted" => pc[Runner] = "admitted"
<1>1. DaemonInv /\ [DaemonNext]_allVars => [Kept]_allVars
  <2> SUFFICES ASSUME DaemonInv, DaemonNext, FailedInARow, pc'[Runner] = "admitted",
                      pc[Runner] # "admitted"
               PROVE  FALSE
    OBVIOUS
  <2>1. match_paused = TRUE
    BY DEF DaemonInv, FailuresPause
  <2>2. pc \in [Callers -> {"idle", "admitted", "matching"}] /\ Runner \in Callers
    BY RunnerCalls DEF DaemonInv, EngineInv, IInv, TypeOK, CallsTyped
  <2>3. pc' # pc
    OBVIOUS
  <2>4. CASE TakePlaced
    BY <2>1, <2>3, <2>4 DEF TakePlaced, vars
  <2>5. CASE EndMatch
    BY <2>2, <2>5 DEF EndMatch, Return
  <2>6. CASE Match
    <3>1. pc' = pc \/ pc' = [pc EXCEPT ![Runner] = "matching"]
      BY <2>6 DEF Match, Acquire, MatchStep
    <3> QED
      BY <2>2, <2>3, <3>1
  <2>7. CASE TakeCancelled
    BY <2>3, <2>7 DEF TakeCancelled, CancelResting
  <2>8. CASE GasPriceFails \/ SendFails \/ ReceiptFails
    BY <2>3, <2>8 DEF GasPriceFails, SendFails, ReceiptFails, engineRest
  <2>9. CASE PlaceOrder \/ CancelOnChain \/ CountFill \/ SendFill \/ ReceiveFill
             \/ FlushInterval \/ SendSucceeds \/ ReceiptArrives \/ Include
    BY <2>3, <2>9 DEF PlaceOrder, CancelOnChain, CountFill, SendFill, ReceiveFill,
              FlushInterval, SendSucceeds, ReceiptArrives, Include, vars
  <2> QED
    BY <2>4, <2>5, <2>6, <2>7, <2>8, <2>9 DEF DaemonNext, RunnerStep, SettlerStep
<1>2. DaemonSpec => [][Kept]_allVars
  BY <1>1, DaemonInductive, PTL DEF DaemonSpec
<1> QED
  BY <1>2 DEF NoOrderAfterFailures

-----------------------------------------------------------------------------
(***************************************************************************)
(* Orders in the engine and on chain.  AllFills are the fills returned and *)
(* those of the running placement, Volume adds up what the first n of them *)
(* took from an order, and Executed what settleTrade has executed of that. *)
(***************************************************************************)
AllFills == made \o (IF pc[Runner] = "matching" THEN fills[Runner] ELSE <<>>)

Party(id, f) == id \in {f.maker_order_id, f.taker_order_id}
Share(f, id) == IF Party(id, f) THEN f.vstk_amount ELSE 0
Volume(q, id, n) == SumTo([k \in 1..Len(q) |-> Share(q[k], id)], n)
Executed(q, a, id, n) == SumTo([k \in 1..Len(q) |-> a[k] * Share(q[k], id)], n)

Waiting(id) ==
  \E i \in 1..Len(events) :
    events[i].kind = "OrderPlaced" /\ events[i].order.order_id = id
Entering(id) == pc[Runner] # "idle" /\ incoming[Runner].order_id = id
Resting(id) == \E c \in Companies : id \in DOMAIN books[c].orders
CancelComing(id) ==
  \E i \in 1..Len(events) :
    events[i].kind = "OrderCancelled" /\ events[i].order.order_id = id

\* Whatever moves comes from an order on chain.
EventsKnown ==
  \A i \in 1..Len(events) :
    LET o == events[i].order IN
    o.order_id \in DOMAIN market /\ o = market[o.order_id].order
OrdersKnown ==
  /\ pc[Runner] # "idle" =>
       LET in == incoming[Runner] IN
       in.order_id \in DOMAIN market /\ market[in.order_id].order.company_id = in.company_id
  /\ \A c \in Companies : \A id \in DOMAIN books[c].orders :
       id \in DOMAIN market /\ market[id].order.company_id = c
FillsKnown ==
  \A k \in 1..Len(AllFills) : \A id : Party(id, AllFills[k]) => id \in DOMAIN market

\* An order waits, is matched or rests, in that order and once: so the engine
\* meets no id twice.
PlacedFirst ==
  \A i, j \in 1..Len(events) :
    i < j /\ events[i].order.order_id = events[j].order.order_id
      => events[j].kind = "OrderCancelled"
WaitsUntouched ==
  \A id : Waiting(id) =>
    /\ ~Entering(id) /\ ~Resting(id)
    /\ \A k \in 1..Len(AllFills) : ~Party(id, AllFills[k])
EntersOnce == \A id : ~(Entering(id) /\ Resting(id))

\* In the engine, and on chain, what was taken and what is left add up.
EngineBalanced ==
  /\ pc[Runner] # "idle" =>
       LET in == incoming[Runner] IN
       Volume(AllFills, in.order_id, Len(AllFills)) + in.remaining
         = market[in.order_id].order.remaining
  /\ \A c \in Companies : \A id \in DOMAIN books[c].orders :
       Volume(AllFills, id, Len(AllFills)) + books[c].orders[id].remaining
         = market[id].order.remaining
ChainBalanced ==
  \A id \in DOMAIN market :
    Executed(AllFills, applied, id, Len(AllFills)) + market[id].remaining
      = market[id].order.remaining

\* Every fill is the last of one of its orders.
LastOfAnOrder ==
  \A k \in 1..Len(AllFills) :
    /\ AllFills[k].vstk_amount > 0
    /\ \E id \in DOMAIN market :
         /\ Party(id, AllFills[k])
         /\ Volume(AllFills, id, k) = market[id].order.remaining
NothingExecutedEarly == \A k \in Fills : k > Len(made) => applied[k] = 0

\* An order that is inactive on chain and in play here is empty there, or its
\* cancellation is on its way.
CancelsFollow ==
  \A id \in DOMAIN market :
    ~market[id].active /\ (Waiting(id) \/ Entering(id) \/ Resting(id))
      => market[id].remaining = 0 \/ CancelComing(id)

-----------------------------------------------------------------------------
LEMMA ShareType == ASSUME NEW f \in Fill, NEW id PROVE Share(f, id) \in Nat
  BY DEF Share, Fill

LEMMA VolumeType ==
  ASSUME NEW q \in Seq(Fill), NEW id, NEW n \in 0..Len(q)
  PROVE  Volume(q, id, n) \in Int
<1>1. \A k \in 1..Len(q) : Share(q[k], id) \in Nat
  BY ShareType
<1> DEFINE g == [k \in 1..Len(q) |-> Share(q[k], id)]
<1>2. n \in Nat /\ \A k \in 1..n : g[k] \in Int
  BY <1>1
<1> HIDE DEF g
<1>3. SumTo(g, n) \in Int
  BY <1>2, SumToType
<1> QED
  BY <1>3 DEF Volume, g

LEMMA ExecutedType ==
  ASSUME NEW q \in Seq(Fill), NEW a, \A k \in 1..Len(q) : a[k] \in Nat, NEW id, NEW n \in 0..Len(q)
  PROVE  Executed(q, a, id, n) \in Int
<1>1. \A k \in 1..Len(q) : Share(q[k], id) \in Nat
  BY ShareType
<1> DEFINE g == [k \in 1..Len(q) |-> a[k] * Share(q[k], id)]
<1>2. n \in Nat /\ \A k \in 1..n : g[k] \in Int
  BY <1>1
<1> HIDE DEF g
<1>3. SumTo(g, n) \in Int
  BY <1>2, SumToType
<1> QED
  BY <1>3 DEF Executed, g

\* One more fill.
LEMMA VolumeAppend ==
  ASSUME NEW q \in Seq(Fill), NEW f \in Fill, NEW id
  PROVE  /\ \A n \in 0..Len(q) : Volume(Append(q, f), id, n) = Volume(q, id, n)
         /\ Volume(Append(q, f), id, Len(q) + 1) = Volume(q, id, Len(q)) + Share(f, id)
<1> DEFINE p == Append(q, f)
           g == [k \in 1..Len(q) |-> Share(q[k], id)]
           h == [k \in 1..Len(p) |-> Share(p[k], id)]
<1>1. /\ Len(p) = Len(q) + 1 /\ Len(q) \in Nat /\ p[Len(q) + 1] = f
      /\ \A k \in 1..Len(q) : p[k] = q[k]
  OBVIOUS
<1>2. h[Len(q) + 1] = Share(f, id)
  BY <1>1
<1>3. \A k \in 1..Len(q) : h[k] = g[k]
  BY <1>1
<1> HIDE DEF p, g, h
<1>4. ASSUME NEW n \in 0..Len(q) PROVE SumTo(h, n) = SumTo(g, n)
  <2>1. n \in Nat /\ \A k \in 1..n : h[k] = g[k]
    BY <1>1, <1>3
  <2> QED
    BY <2>1, SumToSame
<1>5. SumTo(h, Len(q) + 1) = SumTo(g, Len(q)) + Share(f, id)
  BY <1>1, <1>2, <1>4, SumToStep
<1> QED
  BY <1>4, <1>5 DEF Volume, p, g, h

LEMMA ExecutedAppend ==
  ASSUME NEW q \in Seq(Fill), NEW f \in Fill, NEW id, NEW a, a[Len(q) + 1] = 0
  PROVE  Executed(Append(q, f), a, id, Len(q) + 1) = Executed(q, a, id, Len(q)) + 0
<1> DEFINE p == Append(q, f)
           g == [k \in 1..Len(q) |-> a[k] * Share(q[k], id)]
           h == [k \in 1..Len(p) |-> a[k] * Share(p[k], id)]
<1>1. /\ Len(p) = Len(q) + 1 /\ Len(q) \in Nat /\ p[Len(q) + 1] = f
      /\ \A k \in 1..Len(q) : p[k] = q[k]
  OBVIOUS
<1>2. h[Len(q) + 1] = 0
  <2>1. h[Len(q) + 1] = a[Len(q) + 1] * Share(f, id)
    BY <1>1
  <2> QED
    BY <2>1, ShareType
<1>3. \A k \in 1..Len(q) : h[k] = g[k]
  BY <1>1
<1> HIDE DEF p, g, h
<1>4. SumTo(h, Len(q)) = SumTo(g, Len(q))
  BY <1>1, <1>3, SumToSame
<1>5. SumTo(h, Len(q) + 1) = SumTo(g, Len(q)) + 0
  BY <1>1, <1>2, <1>4, SumToStep
<1> QED
  BY <1>5 DEF Executed, p, g, h

\* Fills that do not name an order take nothing from it.
LEMMA NoVolume ==
  ASSUME NEW q \in Seq(Fill), NEW id, \A k \in 1..Len(q) : ~Party(id, q[k])
  PROVE  Volume(q, id, Len(q)) = 0
<1> DEFINE g == [k \in 1..Len(q) |-> Share(q[k], id)]
<1>1. \A k \in 1..Len(q) : g[k] = 0
  BY DEF Share
<1> HIDE DEF g
<1>2. SumTo(g, Len(q)) = 0
  BY <1>1, SumToZero
<1> QED
  BY <1>2 DEF Volume, g

LEMMA NothingExecuted ==
  ASSUME NEW q \in Seq(Fill), NEW a, \A k \in 1..Len(q) : a[k] \in Nat,
         NEW id, \A k \in 1..Len(q) : ~Party(id, q[k])
  PROVE  Executed(q, a, id, Len(q)) = 0
<1> DEFINE g == [k \in 1..Len(q) |-> a[k] * Share(q[k], id)]
<1>1. \A k \in 1..Len(q) : g[k] = 0
  BY DEF Share
<1> HIDE DEF g
<1>2. SumTo(g, Len(q)) = 0
  BY <1>1, SumToZero
<1> QED
  BY <1>2 DEF Executed, g

\* One more execution.
LEMMA ExecutedMore ==
  ASSUME NEW q \in Seq(Fill), NEW a, NEW b, NEW k \in 1..Len(q), NEW id
  PROVE  /\ \A i \in 1..Len(q) : a[i] \in Nat /\ b[i] \in Nat
         /\ \A i \in 1..Len(q) : i # k => b[i] = a[i]
         /\ b[k] = a[k] + 1
         => Executed(q, b, id, Len(q)) = Executed(q, a, id, Len(q)) + Share(q[k], id)
<1>0. SUFFICES ASSUME \A i \in 1..Len(q) : a[i] \in Nat /\ b[i] \in Nat,
                      \A i \in 1..Len(q) : i # k => b[i] = a[i],
                      b[k] = a[k] + 1
               PROVE  Executed(q, b, id, Len(q)) = Executed(q, a, id, Len(q)) + Share(q[k], id)
  OBVIOUS
<1> DEFINE g == [i \in 1..Len(q) |-> a[i] * Share(q[i], id)]
           h == [i \in 1..Len(q) |-> b[i] * Share(q[i], id)]
<1>1. \A i \in 1..Len(q) : Share(q[i], id) \in Nat
  BY ShareType
<1>2. \A i \in 1..Len(q) : g[i] \in Int /\ h[i] \in Int
  BY <1>0, <1>1
<1>3. \A i \in 1..Len(q) : i # k => h[i] = g[i]
  BY <1>0
<1>4. h[k] = g[k] + Share(q[k], id)
  <2>1. ASSUME NEW x \in Nat, NEW s \in Nat PROVE (x + 1) * s = x * s + s
    OBVIOUS
  <2>2. h[k] = (a[k] + 1) * Share(q[k], id) /\ g[k] = a[k] * Share(q[k], id)
    BY <1>0
  <2> QED
    BY <1>0, <1>1, <2>1, <2>2
<1>5. Len(q) \in Nat
  OBVIOUS
<1> HIDE DEF g, h
<1>6. SumTo(h, Len(q)) = SumTo(g, Len(q)) - g[k] + h[k]
  BY <1>2, <1>3, <1>5, SumToChange
<1>7. SumTo(g, Len(q)) \in Int /\ g[k] \in Int /\ Share(q[k], id) \in Nat
  BY <1>1, <1>2, <1>5, SumToType
<1> QED
  BY <1>4, <1>6, <1>7 DEF Executed, g, h

\* Fills executed at most once take no more on chain than in the engine.
LEMMA ExecutedWithin ==
  ASSUME NEW q \in Seq(Fill), NEW a, NEW id,
         \A k \in 1..Len(q) : a[k] \in Nat /\ a[k] <= 1
  PROVE  Executed(q, a, id, Len(q)) <= Volume(q, id, Len(q))
<1> DEFINE g == [i \in 1..Len(q) |-> a[i] * Share(q[i], id)]
           h == [i \in 1..Len(q) |-> Share(q[i], id)]
<1>1. \A i \in 1..Len(q) : g[i] \in Int /\ h[i] \in Int /\ g[i] <= h[i]
  <2>1. ASSUME NEW x \in Nat, NEW s \in Nat, x <= 1 PROVE x * s \in Int /\ x * s <= s
    <3>1. CASE x = 0
      BY <3>1
    <3>2. CASE x = 1
      BY <3>2
    <3> QED
      BY <2>1, <3>1, <3>2
  <2> QED
    BY <2>1, ShareType
<1>2. Len(q) \in Nat
  OBVIOUS
<1> HIDE DEF g, h
<1>3. SumTo(g, Len(q)) <= SumTo(h, Len(q))
  BY <1>1, <1>2, SumToMono
<1> QED
  BY <1>3 DEF Executed, Volume, g, h

\* When the fills of an order up to the k-th are all executed, and the k-th
\* twice, more has been executed than was filled by then.
LEMMA ExecutedTwice ==
  ASSUME NEW q \in Seq(Fill), NEW a, NEW id, NEW k \in 1..Len(q),
         \A i \in 1..Len(q) : a[i] \in Nat,
         \A i \in 1..(k - 1) : Party(id, q[i]) => a[i] >= 1,
         a[k] >= 2, Party(id, q[k]), q[k].vstk_amount > 0
  PROVE  Executed(q, a, id, Len(q)) > Volume(q, id, k)
<1> DEFINE g == [i \in 1..Len(q) |-> a[i] * Share(q[i], id)]
           h == [i \in 1..Len(q) |-> Share(q[i], id)]
<1>1. \A i \in 1..Len(q) : Share(q[i], id) \in Nat
  BY ShareType
<1>2. \A i \in 1..Len(q) : g[i] \in Nat /\ h[i] \in Nat
  BY <1>1
<1>3. Share(q[k], id) > 0 /\ h[k] = Share(q[k], id)
  BY DEF Share
<1>4. \A i \in 1..(k - 1) : h[i] <= g[i]
  <2>1. ASSUME NEW x \in Nat, NEW s \in Nat, x >= 1 \/ s = 0 PROVE s <= x * s
    <3>1. CASE s = 0
      BY <3>1
    <3>2. CASE x >= 1
      <4>1. x * s = (x - 1) * s + s /\ x - 1 \in Nat
        BY <3>2
      <4>2. (x - 1) * s \in Nat
        BY <4>1
      <4> QED
        BY <4>1, <4>2
    <3> QED
      BY <2>1, <3>1, <3>2
  <2> SUFFICES ASSUME NEW i \in 1..(k - 1) PROVE h[i] <= g[i]
    OBVIOUS
  <2>2. i \in 1..Len(q) /\ a[i] \in Nat /\ Share(q[i], id) \in Nat
    BY <1>1
  <2>3. a[i] >= 1 \/ Share(q[i], id) = 0
    BY DEF Share
  <2>4. g[i] = a[i] * Share(q[i], id) /\ h[i] = Share(q[i], id)
    BY <2>2
  <2> QED
    BY <2>1, <2>2, <2>3, <2>4
<1>5. h[k] < g[k]
  <2>1. ASSUME NEW x \in Nat, NEW s \in Nat, x >= 2, s > 0 PROVE s < x * s
    <3>1. x * s = (x - 2) * s + 2 * s /\ x - 2 \in Nat
      BY <2>1
    <3>2. (x - 2) * s \in Nat
      BY <3>1
    <3> QED
      BY <2>1, <3>1, <3>2
  <2> QED
    BY <1>1, <1>3, <2>1
<1>6. k \in Nat /\ k - 1 \in Nat /\ Len(q) \in Nat /\ k <= Len(q) /\ (k - 1) + 1 = k
  OBVIOUS
<1> HIDE DEF g, h
<1>7. \A i \in 1..(k - 1) : g[i] \in Int /\ h[i] \in Int /\ h[i] <= g[i]
  BY <1>2, <1>4, <1>6
<1>8. /\ SumTo(h, k - 1) <= SumTo(g, k - 1)
      /\ SumTo(h, k - 1) \in Int /\ SumTo(g, k - 1) \in Int
  BY <1>6, <1>7, SumToMono, SumToType
<1>9. SumTo(h, k) = SumTo(h, k - 1) + h[k] /\ SumTo(g, k) = SumTo(g, k - 1) + g[k]
  BY <1>6, SumToStep
<1>10. SumTo(g, k) <= SumTo(g, Len(q))
  BY <1>2, <1>6, SumToTail
<1>11. SumTo(g, Len(q)) \in Int
  <2>1. \A i \in 1..Len(q) : g[i] \in Int
    BY <1>2
  <2> QED
    BY <1>6, <2>1, SumToType
<1>12. g[k] \in Nat /\ h[k] \in Nat
  BY <1>2
<1>13. SumTo(g, Len(q)) > SumTo(h, k)
  BY <1>5, <1>8, <1>9, <1>10, <1>11, <1>12
<1> QED
  BY <1>13 DEF Executed, Volume, g, h

-----------------------------------------------------------------------------
(* What a step of the daemon does to orders and fills. *)

\* The runner's placement is of the same order, with as much left.
TakerStays ==
  /\ pc'[Runner] = "idle" <=> pc[Runner] = "idle"
  /\ pc[Runner] # "idle" =>
       /\ incoming'[Runner].order_id = incoming[Runner].order_id
       /\ incoming'[Runner].company_id = incoming[Runner].company_id
       /\ incoming'[Runner].remaining = incoming[Runner].remaining
EngineRests == UNCHANGED books /\ AllFills' = AllFills /\ TakerStays
ChainRests == UNCHANGED <<market, applied>>

TakesUp(kind) ==
  events # <<>> /\ Head(events).kind = kind /\ events' = Tail(events) /\ ChainRests

Drops == TakesUp("OrderPlaced") /\ EngineRests
Enters ==
  /\ TakesUp("OrderPlaced")
  /\ pc[Runner] = "idle" /\ pc'[Runner] # "idle"
  /\ incoming'[Runner].order_id = Head(events).order.order_id
  /\ incoming'[Runner].company_id = Head(events).order.company_id
  /\ incoming'[Runner].remaining = Head(events).order.remaining
  /\ UNCHANGED books /\ AllFills' = AllFills
Withdraws ==
  /\ TakesUp("OrderCancelled")
  /\ pc[Runner] = "idle" /\ pc'[Runner] = "idle"
  /\ AllFills' = AllFills
  /\ \A c \in Companies :
       /\ DOMAIN books'[c].orders \subseteq DOMAIN books[c].orders
       /\ \A id \in DOMAIN books'[c].orders : books'[c].orders[id] = books[c].orders[id]
       /\ c = Head(events).order.company_id
            => Head(events).order.order_id \notin DOMAIN books'[c].orders
MakesFill ==
  /\ \E mo, qty, f : /\ OneFill(Runner, incoming[Runner], mo, qty, f)
                     /\ AllFills' = Append(AllFills, f)
  /\ ChainRests /\ UNCHANGED events
Ends ==
  /\ pc[Runner] = "matching" /\ pc'[Runner] = "idle"
  /\ AllFills' = AllFills
  /\ \A c \in Companies : \A id \in DOMAIN books'[c].orders :
       \/ /\ id \in DOMAIN books[c].orders
          /\ books'[c].orders[id] = books[c].orders[id]
       \/ /\ c = incoming[Runner].company_id /\ id = incoming[Runner].order_id
          /\ books'[c].orders[id].remaining = incoming[Runner].remaining
  /\ ChainRests /\ UNCHANGED events

LEMMA AllFillsFacts ==
  ASSUME DaemonInv
  PROVE  /\ made \in Seq(Fill) /\ fills[Runner] \in Seq(Fill) /\ AllFills \in Seq(Fill)
         /\ Len(made) \in Nat /\ Len(AllFills) \in Nat
         /\ Len(made) <= Len(AllFills) /\ Len(AllFills) <= MaxArrivals
         /\ \A k \in 1..Len(made) : AllFills[k] = made[k]
<1>1. /\ CallsTyped /\ HistoryTyped /\ FillsExhaust /\ made \in Seq(Fill)
  BY DEF DaemonInv, EngineInv, IInv, TypeOK, PipelineInv
<1>2. fills[Runner] \in Seq(Fill)
  BY <1>1, RunnerCalls DEF CallsTyped
<1> DEFINE run == IF pc[Runner] = "matching" THEN fills[Runner] ELSE <<>>
<1>3. run \in Seq(Fill) /\ AllFills = made \o run
  BY <1>2 DEF AllFills
<1>4. FillsEver = Len(made) + Len(run)
  BY DEF FillsEver
<1> HIDE DEF run
<1>5. /\ AllFills \in Seq(Fill) /\ Len(AllFills) = Len(made) + Len(run)
      /\ Len(made) \in Nat /\ Len(run) \in Nat
      /\ \A k \in 1..Len(made) : AllFills[k] = made[k]
  BY <1>1, <1>3
<1>6. Len(AllFills) \in Nat /\ Len(AllFills) + 0 <= Cardinality(Exhausted)
  BY <1>1, <1>4, <1>5, ExhaustedFinite DEF FillsExhaust
<1>7. Exhausted \subseteq 1..MaxArrivals
  BY <1>1, BoundAssumption DEF HistoryTyped, Exhausted
<1>8. Len(AllFills) <= MaxArrivals
  BY <1>6, <1>7, FewFills
<1> QED
  BY <1>1, <1>2, <1>5, <1>6, <1>8

\* Fills stay where they are when the runner's placement does.
LEMMA FillsStay ==
  ASSUME UNCHANGED made, pc'[Runner] = pc[Runner], fills'[Runner] = fills[Runner]
  PROVE  AllFills' = AllFills
  BY DEF AllFills

LEMMA DaemonMoves ==
  ASSUME DaemonInv, EntersOnce, [DaemonNext]_allVars
  PROVE  /\ Len(made') >= Len(made)
         /\ \/ PlaceOrder /\ EngineRests
            \/ CancelOnChain /\ EngineRests
            \/ Include /\ EngineRests
            \/ ChainRests /\ UNCHANGED events /\ EngineRests
            \/ Drops \/ Enters \/ Withdraws \/ MakesFill \/ Ends
<1>0. /\ CallsTyped /\ BooksTyped /\ IInv /\ Accounted /\ NoFillsBefore
      /\ pc \in [Callers -> {"idle", "admitted", "matching"}] /\ Runner \in Callers
      /\ fills \in [Callers -> Seq(Fill)]
  BY RunnerCalls DEF DaemonInv, EngineInv, IInv, TypeOK, CallsTyped
<1>1. /\ made \in Seq(Fill) /\ Len(made) \in Nat /\ fills[Runner] \in Seq(Fill)
      /\ Len(AllFills) \in Nat /\ Len(made) <= Len(AllFills)
  BY AllFillsFacts
<1>2. ASSUME UNCHANGED vars PROVE UNCHANGED books /\ TakerStays
  BY <1>2 DEF vars, TakerStays
<1>3. ASSUME UNCHANGED <<vars, made>> PROVE EngineRests
  BY <1>2, <1>3, FillsStay DEF vars, EngineRests
<1>4. CASE PlaceOrder \/ CancelOnChain \/ Include
  <2>1. UNCHANGED <<vars, made>>
    BY <1>4 DEF PlaceOrder, CancelOnChain, Include, runnerVars
  <2> QED
    BY <1>1, <1>3, <1>4, <2>1
<1>5. CASE CountFill \/ SendFill \/ ReceiveFill \/ FlushInterval \/ SendSucceeds
           \/ ReceiptArrives \/ UNCHANGED allVars
  <2>1. UNCHANGED <<vars, made, events, market, applied>>
    BY <1>5 DEF CountFill, SendFill, ReceiveFill, FlushInterval, SendSucceeds,
              ReceiptArrives, runnerVars, chainVars, allVars, daemonVars
  <2> QED
    BY <1>1, <1>3, <2>1 DEF ChainRests
<1>6. CASE GasPriceFails \/ SendFails \/ ReceiptFails
  <2>1. UNCHANGED <<books, pc, incoming, fills, made, events, market, applied>>
    BY <1>6 DEF GasPriceFails, SendFails, ReceiptFails, engineRest, runnerVars, chainVars
  <2>2. EngineRests
    BY <2>1, FillsStay DEF EngineRests, TakerStays
  <2> QED
    BY <1>1, <2>1, <2>2 DEF ChainRests
<1>7. CASE TakePlaced
  <2>1. /\ TakesUp("OrderPlaced") /\ pc[Runner] = "idle" /\ UNCHANGED made
    BY <1>7 DEF TakePlaced, RunnerReady, TakesUp, ChainRests, chainVars
  <2>2. CASE UNCHANGED vars
    BY <1>1, <1>3, <2>1, <2>2 DEF Drops
  <2>3. CASE Submit(Runner, Head(events).order)
    <3>1. /\ incoming' = [incoming EXCEPT ![Runner] = WithTicket(Head(events).order, 0)]
          /\ pc' = [pc EXCEPT ![Runner] = "admitted"]
          /\ UNCHANGED books
      BY <2>3 DEF Submit
    <3>2. pc'[Runner] = "admitted" /\ incoming'[Runner] = WithTicket(Head(events).order, 0)
      BY <1>0, <3>1 DEF CallsTyped
    <3>3. AllFills' = AllFills
      BY <2>1, <3>2 DEF AllFills
    <3>4. Enters
      BY <2>1, <3>1, <3>2, <3>3 DEF Enters, WithTicket
    <3> QED
      BY <1>1, <2>1, <3>4
  <2> QED
    BY <1>7, <2>2, <2>3 DEF TakePlaced
<1>8. CASE TakeCancelled
  <2> DEFINE o == Head(events).order
             d == o.company_id
  <2>1. /\ TakesUp("OrderCancelled") /\ pc[Runner] = "idle" /\ UNCHANGED <<made, pc>>
        /\ CancelResting(Runner, d, o.order_id)
    BY <1>8 DEF TakeCancelled, RunnerReady, TakesUp, ChainRests, chainVars, CancelResting
  <2>2. AllFills' = AllFills
    BY <2>1 DEF AllFills
  <2> HIDE DEF o
  <2>3. \/ /\ books' = [books EXCEPT ![d] = CancelOrder(@, o.order_id)]
           /\ o.order_id \in DOMAIN books[d].orders
        \/ UNCHANGED books /\ o.order_id \notin DOMAIN books[d].orders
    BY <2>1 DEF CancelResting
  <2>4. ASSUME NEW c \in Companies
        PROVE  /\ DOMAIN books'[c].orders \subseteq DOMAIN books[c].orders
               /\ \A id \in DOMAIN books'[c].orders :
                    books'[c].orders[id] = books[c].orders[id]
               /\ c = d => o.order_id \notin DOMAIN books'[c].orders
    <3>1. CASE books'[c].orders = books[c].orders /\ c # d
      BY <3>1
    <3>2. CASE UNCHANGED books /\ o.order_id \notin DOMAIN books[d].orders
      BY <3>2
    <3>3. CASE books' = [books EXCEPT ![d] = CancelOrder(@, o.order_id)]
      <4>1. books' = [x \in Companies |-> IF x = d THEN CancelOrder(books[d], o.order_id)
                                                    ELSE books[x]]
        BY <1>0, <3>3 DEF BooksTyped
      <4>2. c # d => books'[c].orders = books[c].orders
        BY <4>1
      <4>3. c = d => books'[c].orders = Drop(books[c].orders, o.order_id)
        BY <4>1 DEF CancelOrder
      <4>4. CASE c = d
        BY <4>3, <4>4 DEF Drop
      <4> QED
        BY <3>1, <4>2, <4>4
    <3> QED
      BY <2>3, <3>2, <3>3
  <2>5. Withdraws
    BY <2>1, <2>2, <2>4 DEF Withdraws, o
  <2> QED
    BY <1>1, <2>1, <2>5
<1>9. CASE Match /\ Acquire(Runner)
  <2>1. /\ UNCHANGED <<made, events, market, applied, books, fills>>
        /\ pc[Runner] = "admitted" /\ pc' = [pc EXCEPT ![Runner] = "matching"]
        /\ incoming' = [incoming EXCEPT ![Runner].ticket = arrivals']
    BY <1>9 DEF Match, Acquire, daemonVars, runnerVars, chainVars
  <2>2. pc'[Runner] = "matching" /\ fills[Runner] = <<>>
    BY <1>0, <2>1 DEF NoFillsBefore
  <2>3. AllFills' = AllFills
    BY <1>1, <2>1, <2>2 DEF AllFills
  <2>4. incoming[Runner] \in OrderRecord
    BY <1>0, <2>1 DEF CallsTyped
  <2>5. incoming'[Runner] = [incoming[Runner] EXCEPT !.ticket = arrivals']
    BY <1>0, <2>1 DEF CallsTyped
  <2>6. TakerStays
    BY <2>1, <2>2, <2>4, <2>5 DEF TakerStays, OrderRecord
  <2> QED
    BY <1>1, <2>1, <2>3, <2>6 DEF EngineRests, ChainRests
<1>10. CASE Match /\ MatchStep(Runner)
  <2>1. PICK mo, qty, f : OneFill(Runner, incoming[Runner], mo, qty, f)
    BY <1>0, <1>10, MatchStepFills
  <2>2. UNCHANGED <<made, events, market, applied>>
    BY <1>10 DEF Match, daemonVars, runnerVars, chainVars
  <2>3. /\ pc[Runner] = "matching" /\ pc' = pc
        /\ f \in Fill /\ fills'[Runner] = Append(fills[Runner], f)
    BY <2>1 DEF OneFill
  <2>4. AllFills' = Append(AllFills, f)
    <3>1. AllFills = made \o fills[Runner] /\ AllFills' = made \o Append(fills[Runner], f)
      BY <2>2, <2>3 DEF AllFills
    <3>2. made \o Append(fills[Runner], f) = Append(made \o fills[Runner], f)
      <4>1. made \in Seq(Fill) /\ fills[Runner] \in Seq(Fill) /\ f \in Fill
        BY <1>1, <2>3
      <4> QED
        BY <4>1, AppendAssociates
    <3> QED
      BY <3>1, <3>2
  <2>5. MakesFill
    BY <2>1, <2>2, <2>4 DEF MakesFill, ChainRests
  <2> QED
    BY <1>1, <2>2, <2>5
<1>11. CASE EndMatch
  <2> DEFINE in == incoming[Runner]
             d == in.company_id
  <2>1. /\ pc[Runner] = "matching" /\ pc' = [pc EXCEPT ![Runner] = "idle"]
        /\ made' = made \o fills'[Runner] /\ UNCHANGED <<events, market, applied>>
    BY <1>11 DEF EndMatch, Return, chainVars
  <2>2. in \in OrderRecord /\ d \in Companies
    BY <1>0, <2>1, MatchingHolds
  <2>3. in.order_id \notin DOMAIN books[d].orders
    BY <2>1, <2>2 DEF EntersOnce, Entering, Resting
  <2>4. /\ UNCHANGED fills
        /\ books' = books \/ books' = [books EXCEPT ![d] = InsertLimitOrder(@, in)]
    BY <1>11, <2>3 DEF EndMatch, Return, CanInsert
  <2>5. pc'[Runner] = "idle"
    BY <1>0, <2>1
  <2>6. AllFills = made \o fills[Runner] /\ made' = AllFills /\ AllFills' = made'
    <3>1. AllFills = made \o fills[Runner]
      BY <2>1 DEF AllFills
    <3>2. AllFills' = made' \o <<>>
      BY <2>5 DEF AllFills
    <3> QED
      BY <1>1, <2>1, <2>4, <3>1, <3>2
  <2> HIDE DEF in
  <2>7. ASSUME NEW c \in Companies, NEW id \in DOMAIN books'[c].orders
        PROVE  \/ /\ id \in DOMAIN books[c].orders
                  /\ books'[c].orders[id] = books[c].orders[id]
               \/ /\ c = d /\ id = in.order_id
                  /\ books'[c].orders[id].remaining = in.remaining
    <3>1. CASE books' = books
      BY <2>7, <3>1
    <3>2. CASE books' = [books EXCEPT ![d] = InsertLimitOrder(@, in)]
      <4>1. books' = [x \in Companies |-> IF x = d THEN InsertLimitOrder(books[d], in)
                                                    ELSE books[x]]
        BY <1>0, <3>2 DEF BooksTyped
      <4>2. CASE c # d
        BY <2>7, <4>1, <4>2
      <4>3. CASE c = d
        <5>1. books'[c].orders = Put(books[c].orders, in.order_id, in)
          BY <4>1, <4>3 DEF InsertLimitOrder
        <5> QED
          BY <2>7, <4>3, <5>1 DEF Put
      <4> QED
        BY <4>2, <4>3
    <3> QED
      BY <2>4, <3>1, <3>2
  <2>8. Ends
    BY <2>1, <2>5, <2>6, <2>7 DEF Ends, ChainRests, in
  <2> QED
    BY <1>1, <2>6, <2>8
<1> QED
  BY <1>4, <1>5, <1>6, <1>7, <1>8, <1>9, <1>10, <1>11
     DEF DaemonNext, RunnerStep, SettlerStep, Match

-----------------------------------------------------------------------------
\* The invariant: every order is one of the chain, is in one place, adds up here
\* and there, and its cancellation is not forgotten.
OrdersOfChain == EventsKnown /\ OrdersKnown /\ FillsKnown
OrdersOnce == PlacedFirst /\ WaitsUntouched /\ EntersOnce
Balanced == EngineBalanced /\ ChainBalanced /\ LastOfAnOrder /\ NothingExecutedEarly
CoverInv == OrdersOfChain /\ OrdersOnce /\ Balanced /\ CancelsFollow

LEMMA CoverFacts ==
  ASSUME DaemonInv
  PROVE  /\ OrdersPlaced \in Nat /\ DOMAIN market = 1..OrdersPlaced
         /\ \A id \in DOMAIN market :
              /\ market[id].order.order_id = id
              /\ market[id].remaining \in Nat /\ market[id].order.remaining \in Nat \ {0}
         /\ events \in Seq(Event) /\ Len(events) \in Nat
         /\ \A k \in 1..Len(AllFills) : k \in Fills /\ applied[k] \in Nat
         /\ applied \in [Fills -> Nat]
<1>1. ChainTyped
  BY DEF DaemonInv
<1>2. /\ OrdersPlaced \in Nat /\ DOMAIN market = 1..OrdersPlaced
      /\ events \in Seq(Event) /\ Len(events) \in Nat
      /\ \A id \in DOMAIN market : market[id].order.order_id = id /\ market[id] \in OrderOnChain
      /\ applied \in [Fills -> Nat]
  BY <1>1 DEF ChainTyped
<1>3. ASSUME NEW id \in DOMAIN market
      PROVE  market[id].remaining \in Nat /\ market[id].order.remaining \in Nat \ {0}
  <2>1. market[id].order \in Requests /\ market[id].remaining \in Nat
    BY <1>2, OrderOnChainFacts
  <2> QED
    BY <2>1, RequestFacts
<1>4. \A k \in 1..Len(AllFills) : k \in Fills
  BY AllFillsFacts, BoundAssumption DEF Fills
<1> QED
  BY <1>2, <1>3, <1>4

\* Every order on chain stays the order that it was.
OrdersStay ==
  \A id \in DOMAIN market : id \in DOMAIN market' /\ market'[id].order = market[id].order

\* What an engine at rest keeps.
LEMMA RestKeeps ==
  ASSUME EngineRests, OrdersStay, OrdersKnown, FillsKnown, EntersOnce, EngineBalanced,
         LastOfAnOrder
  PROVE  /\ OrdersKnown' /\ FillsKnown' /\ EntersOnce' /\ EngineBalanced' /\ LastOfAnOrder'
         /\ \A id : (Entering(id)' <=> Entering(id)) /\ (Resting(id)' <=> Resting(id))
<1>1. UNCHANGED books /\ AllFills' = AllFills /\ TakerStays
  BY DEF EngineRests
<1>2. \A id : Entering(id)' <=> Entering(id)
  BY <1>1 DEF Entering, TakerStays
<1>3. \A id : Resting(id)' <=> Resting(id)
  BY <1>1 DEF Resting
<1>4. EntersOnce'
  BY <1>2, <1>3 DEF EntersOnce
<1>5. FillsKnown'
  BY <1>1 DEF FillsKnown, OrdersStay
<1>6. OrdersKnown'
  <2>1. pc'[Runner] # "idle" =>
           LET in == incoming'[Runner] IN
           in.order_id \in DOMAIN market' /\ market'[in.order_id].order.company_id = in.company_id
    BY <1>1 DEF OrdersKnown, TakerStays, OrdersStay
  <2>2. \A c \in Companies : \A id \in DOMAIN books'[c].orders :
           id \in DOMAIN market' /\ market'[id].order.company_id = c
    BY <1>1 DEF OrdersKnown, OrdersStay
  <2> QED
    BY <2>1, <2>2 DEF OrdersKnown
<1>7. EngineBalanced'
  <2>1. pc'[Runner] # "idle" =>
          LET in == incoming'[Runner] IN
          Volume(AllFills', in.order_id, Len(AllFills')) + in.remaining
            = market'[in.order_id].order.remaining
    BY <1>1 DEF OrdersKnown, TakerStays, OrdersStay, EngineBalanced
  <2>2. \A c \in Companies : \A id \in DOMAIN books'[c].orders :
          Volume(AllFills', id, Len(AllFills')) + books'[c].orders[id].remaining
            = market'[id].order.remaining
    BY <1>1 DEF OrdersKnown, OrdersStay, EngineBalanced
  <2> QED
    BY <2>1, <2>2 DEF EngineBalanced
<1>8. LastOfAnOrder'
  BY <1>1 DEF LastOfAnOrder, OrdersStay
<1> QED
  BY <1>2, <1>3, <1>4, <1>5, <1>6, <1>7, <1>8

\* The chain at rest keeps its balance when no fill is added.
LEMMA ChainKeeps ==
  ASSUME ChainRests, AllFills' = AllFills, ChainBalanced, NothingExecutedEarly,
         Len(made) \in Nat, Len(made') \in Nat, Len(made') >= Len(made)
  PROVE  OrdersStay /\ ChainBalanced' /\ NothingExecutedEarly'
<1>1. market' = market /\ applied' = applied
  BY DEF ChainRests
<1>2. OrdersStay
  BY <1>1 DEF OrdersStay
<1>3. ChainBalanced'
  BY <1>1 DEF ChainBalanced
<1>4. NothingExecutedEarly'
  BY <1>1 DEF NothingExecutedEarly, Fills
<1> QED
  BY <1>2, <1>3, <1>4

\* Events keep their order when the first is taken.
LEMMA EventsLeave ==
  ASSUME NEW k, TakesUp(k), events \in Seq(Event), EventsKnown, PlacedFirst
  PROVE  /\ EventsKnown' /\ PlacedFirst'
         /\ \A id : Waiting(id)' => Waiting(id)
         /\ \A id : id = Head(events).order.order_id => ~Waiting(id)'
         /\ k = "OrderPlaced" =>
              /\ Waiting(Head(events).order.order_id)
              /\ \A id : CancelComing(id) => CancelComing(id)'
         /\ k = "OrderCancelled" =>
              \A id : id # Head(events).order.order_id /\ CancelComing(id) => CancelComing(id)'
         /\ Head(events).order.order_id \in DOMAIN market
         /\ Head(events).order = market[Head(events).order.order_id].order
<1>1. /\ events # <<>> /\ Head(events).kind = k /\ events' = Tail(events)
      /\ market' = market
  BY DEF TakesUp, ChainRests
<1>2. /\ Len(events) \in Nat \ {0} /\ Len(events') = Len(events) - 1 /\ Head(events) = events[1]
      /\ \A i \in 1..Len(events') : events'[i] = events[i + 1]
  BY <1>1, HeadTyped
<1>3. \A i \in 1..Len(events') : i + 1 \in 1..Len(events) /\ events'[i] = events[i + 1] /\ 1 < i + 1
  BY <1>2
<1>4. 1 \in 1..Len(events)
  BY <1>2
<1>5. \A i \in 1..Len(events) : i # 1 => i - 1 \in 1..Len(events') /\ events'[i - 1] = events[i]
  BY <1>2
<1>6. EventsKnown'
  BY <1>1, <1>3 DEF EventsKnown
<1>7. PlacedFirst'
  <2> SUFFICES ASSUME NEW i \in 1..Len(events'), NEW j \in 1..Len(events'), i < j,
                      events'[i].order.order_id = events'[j].order.order_id
               PROVE  events'[j].kind = "OrderCancelled"
    BY DEF PlacedFirst
  <2>1. i + 1 < j + 1
    BY <1>2
  <2> QED
    BY <1>3, <2>1 DEF PlacedFirst
<1>8. \A id : Waiting(id)' => Waiting(id)
  BY <1>3 DEF Waiting
<1>9. \A id : id = Head(events).order.order_id => ~Waiting(id)'
  <2> SUFFICES ASSUME NEW i \in 1..Len(events'),
                      events'[i].order.order_id = events[1].order.order_id
               PROVE  events'[i].kind # "OrderPlaced"
    BY <1>1, <1>2 DEF Waiting
  <2>1. events[i + 1].kind = "OrderCancelled"
    BY <1>3, <1>4 DEF PlacedFirst
  <2> QED
    BY <1>3, <2>1
<1>10. ASSUME k = "OrderPlaced"
       PROVE  /\ Waiting(Head(events).order.order_id)
              /\ \A id : CancelComing(id) => CancelComing(id)'
  <2>1. Waiting(Head(events).order.order_id)
    BY <1>1, <1>2, <1>4, <1>10 DEF Waiting
  <2>2. \A i \in 1..Len(events) : events[i].kind = "OrderCancelled" => i # 1
    BY <1>1, <1>2, <1>10
  <2>3. \A id : CancelComing(id) => CancelComing(id)'
    BY <1>5, <2>2 DEF CancelComing
  <2> QED
    BY <2>1, <2>3
<1>11. ASSUME NEW id, id # Head(events).order.order_id, CancelComing(id) PROVE CancelComing(id)'
  <2>1. PICK i \in 1..Len(events) :
          events[i].kind = "OrderCancelled" /\ events[i].order.order_id = id
    BY <1>11 DEF CancelComing
  <2>2. i # 1
    BY <1>2, <1>11, <2>1
  <2> QED
    BY <1>5, <2>1, <2>2 DEF CancelComing
<1>12. /\ Head(events).order.order_id \in DOMAIN market
       /\ Head(events).order = market[Head(events).order.order_id].order
  BY <1>2, <1>4 DEF EventsKnown
<1> QED
  BY <1>6, <1>7, <1>8, <1>9, <1>10, <1>11, <1>12

\* An event that is added comes last.
LEMMA EventsArrive ==
  ASSUME NEW e \in Event, events' = Append(events, e), events \in Seq(Event), OrdersStay,
         EventsKnown, PlacedFirst,
         e.order.order_id \in DOMAIN market' /\ e.order = market'[e.order.order_id].order,
         e.kind # "OrderCancelled" => e.order.order_id \notin DOMAIN market
  PROVE  /\ EventsKnown' /\ PlacedFirst'
         /\ \A id : CancelComing(id) => CancelComing(id)'
         /\ \A id : Waiting(id)' => Waiting(id) \/ (e.kind = "OrderPlaced" /\ e.order.order_id = id)
         /\ e.kind = "OrderCancelled" => CancelComing(e.order.order_id)'
<1> DEFINE n == Len(events) + 1
<1>1. /\ Len(events') = n /\ Len(events) \in Nat /\ events'[n] = e
      /\ \A i \in 1..Len(events) : events'[i] = events[i] /\ i \in 1..n
      /\ \A i \in 1..n : i = n \/ i \in 1..Len(events)
      /\ n \in 1..n
  OBVIOUS
<1> HIDE DEF n
<1>2. EventsKnown'
  BY <1>1 DEF EventsKnown, OrdersStay
<1>3. PlacedFirst'
  <2> SUFFICES ASSUME NEW i \in 1..n, NEW j \in 1..n, i < j,
                      events'[i].order.order_id = events'[j].order.order_id
               PROVE  events'[j].kind = "OrderCancelled"
    BY <1>1 DEF PlacedFirst
  <2>1. i \in 1..Len(events)
    BY <1>1 DEF n
  <2>2. CASE j = n
    <3>1. events'[i].order.order_id \in DOMAIN market
      BY <1>1, <2>1 DEF EventsKnown
    <3> QED
      BY <1>1, <2>2, <3>1
  <2>3. CASE j # n
    BY <1>1, <2>1, <2>3 DEF PlacedFirst
  <2> QED
    BY <2>2, <2>3
<1>4. \A id : CancelComing(id) => CancelComing(id)'
  BY <1>1 DEF CancelComing
<1>5. \A id : Waiting(id)' => Waiting(id) \/ (e.kind = "OrderPlaced" /\ e.order.order_id = id)
  BY <1>1 DEF Waiting
<1>6. e.kind = "OrderCancelled" => CancelComing(e.order.order_id)'
  BY <1>1 DEF CancelComing
<1> QED
  BY <1>2, <1>3, <1>4, <1>5, <1>6

\* Nothing happens to orders or fills.
LEMMA RestCase ==
  ASSUME DaemonInv, CoverInv, ChainRests, UNCHANGED events, EngineRests,
         Len(made) \in Nat, Len(made') \in Nat, Len(made') >= Len(made)
  PROVE  CoverInv'
<1>1. /\ OrdersKnown /\ FillsKnown /\ EntersOnce /\ EngineBalanced /\ LastOfAnOrder
      /\ ChainBalanced /\ NothingExecutedEarly /\ AllFills' = AllFills
      /\ EventsKnown /\ PlacedFirst /\ WaitsUntouched /\ CancelsFollow
  BY DEF CoverInv, OrdersOfChain, OrdersOnce, Balanced, EngineRests
<1>2. OrdersStay /\ ChainBalanced' /\ NothingExecutedEarly'
  BY <1>1, ChainKeeps
<1>3. /\ OrdersKnown' /\ FillsKnown' /\ EntersOnce' /\ EngineBalanced' /\ LastOfAnOrder'
      /\ \A id : (Entering(id)' <=> Entering(id)) /\ (Resting(id)' <=> Resting(id))
  BY <1>1, <1>2, RestKeeps
<1>4. events' = events /\ market' = market
  BY DEF ChainRests
<1>5. EventsKnown' /\ PlacedFirst'
  BY <1>1, <1>4 DEF EventsKnown, PlacedFirst
<1>6. \A id : (Waiting(id)' <=> Waiting(id)) /\ (CancelComing(id)' <=> CancelComing(id))
  BY <1>4 DEF Waiting, CancelComing
<1>7. WaitsUntouched'
  BY <1>1, <1>3, <1>6 DEF WaitsUntouched
<1>8. CancelsFollow'
  BY <1>1, <1>3, <1>4, <1>6 DEF CancelsFollow
<1> QED
  BY <1>2, <1>3, <1>5, <1>7, <1>8 DEF CoverInv, OrdersOfChain, OrdersOnce, Balanced

\* An order is dropped because matching is paused.
LEMMA DropCase ==
  ASSUME DaemonInv, CoverInv, Drops,
         Len(made) \in Nat, Len(made') \in Nat, Len(made') >= Len(made)
  PROVE  CoverInv'
<1>1. /\ OrdersKnown /\ FillsKnown /\ EntersOnce /\ EngineBalanced /\ LastOfAnOrder
      /\ ChainBalanced /\ NothingExecutedEarly /\ AllFills' = AllFills
      /\ EventsKnown /\ PlacedFirst /\ WaitsUntouched /\ CancelsFollow
      /\ ChainRests /\ EngineRests /\ TakesUp("OrderPlaced") /\ events \in Seq(Event)
  BY CoverFacts DEF CoverInv, OrdersOfChain, OrdersOnce, Balanced, EngineRests, Drops, TakesUp
<1>2. OrdersStay /\ ChainBalanced' /\ NothingExecutedEarly'
  BY <1>1, ChainKeeps
<1>3. /\ OrdersKnown' /\ FillsKnown' /\ EntersOnce' /\ EngineBalanced' /\ LastOfAnOrder'
      /\ \A id : (Entering(id)' <=> Entering(id)) /\ (Resting(id)' <=> Resting(id))
  BY <1>1, <1>2, RestKeeps
<1>4. /\ EventsKnown' /\ PlacedFirst'
      /\ \A id : Waiting(id)' => Waiting(id)
      /\ \A id : CancelComing(id) => CancelComing(id)'
  BY <1>1, EventsLeave
<1>5. WaitsUntouched'
  BY <1>1, <1>3, <1>4 DEF WaitsUntouched
<1>6. CancelsFollow'
  <2>1. market' = market
    BY <1>1 DEF ChainRests
  <2> QED
    BY <1>1, <1>3, <1>4, <2>1 DEF CancelsFollow
<1> QED
  BY <1>2, <1>3, <1>4, <1>5, <1>6 DEF CoverInv, OrdersOfChain, OrdersOnce, Balanced

\* A trader places an order.
LEMMA PlaceCase ==
  ASSUME DaemonInv, CoverInv, PlaceOrder, EngineRests
  PROVE  CoverInv'
<1>1. /\ OrdersKnown /\ FillsKnown /\ EntersOnce /\ EngineBalanced /\ LastOfAnOrder
      /\ ChainBalanced /\ NothingExecutedEarly /\ AllFills' = AllFills
      /\ EventsKnown /\ PlacedFirst /\ WaitsUntouched /\ CancelsFollow
      /\ events \in Seq(Event) /\ ChainTyped
      /\ applied' = applied /\ made' = made
  BY CoverFacts DEF CoverInv, OrdersOfChain, OrdersOnce, Balanced, EngineRests, PlaceOrder,
                    DaemonInv
<1> DEFINE n == OrdersPlaced + 1
<1>2. PICK r \in Requests :
        /\ r.order_id = n /\ DOMAIN market = 1..OrdersPlaced /\ DOMAIN market' = 1..n
        /\ \A id \in 1..OrdersPlaced : market'[id] = market[id]
        /\ market'[n] = [order |-> r, remaining |-> r.remaining, active |-> TRUE]
        /\ events' = Append(events, [kind |-> "OrderPlaced", order |-> r])
  BY <1>1, PlaceFacts
<1>3. /\ OrdersPlaced \in Nat /\ n \in 1..n /\ n \notin DOMAIN market
      /\ \A id \in 1..n : id = n \/ id \in DOMAIN market
      /\ \A id \in DOMAIN market : id \in 1..n
  BY <1>2, CoverFacts
<1> DEFINE e == [kind |-> "OrderPlaced", order |-> r]
<1>4. /\ e \in Event /\ e.order.order_id = n /\ e.kind = "OrderPlaced"
      /\ e.order = r
  BY <1>2 DEF Event
<1>5. market'[n].order = r /\ market'[n].remaining = r.remaining /\ (market'[n].active <=> TRUE)
  BY <1>2
<1>6. OrdersStay
  BY <1>2, <1>3 DEF OrdersStay
<1>7. events' = Append(events, e)
  BY <1>2
<1> HIDE DEF e, n
<1>8. /\ EventsKnown' /\ PlacedFirst'
      /\ \A id : CancelComing(id) => CancelComing(id)'
      /\ \A id : Waiting(id)' => Waiting(id) \/ id = n
  BY <1>1, <1>2, <1>3, <1>4, <1>5, <1>6, <1>7, EventsArrive
<1>9. /\ OrdersKnown' /\ FillsKnown' /\ EntersOnce' /\ EngineBalanced' /\ LastOfAnOrder'
      /\ \A id : (Entering(id)' <=> Entering(id)) /\ (Resting(id)' <=> Resting(id))
  BY <1>1, <1>6, RestKeeps
<1>10. ~Entering(n) /\ ~Resting(n) /\ \A k \in 1..Len(AllFills) : ~Party(n, AllFills[k])
  BY <1>1, <1>3 DEF Entering, Resting, OrdersKnown, FillsKnown
<1>11. WaitsUntouched'
  BY <1>1, <1>8, <1>9, <1>10 DEF WaitsUntouched
<1>12. ChainBalanced'
  <2>1. AllFills \in Seq(Fill) /\ \A k \in 1..Len(AllFills) : applied[k] \in Nat
    BY AllFillsFacts, CoverFacts
  <2>2. Executed(AllFills, applied, n, Len(AllFills)) = 0
    BY <1>10, <2>1, NothingExecuted
  <2>3. r.remaining \in Nat
    BY RequestFacts
  <2>4. ASSUME NEW id \in DOMAIN market'
        PROVE  Executed(AllFills', applied', id, Len(AllFills')) + market'[id].remaining
                 = market'[id].order.remaining
    <3>1. CASE id = n
      BY <1>1, <1>5, <2>2, <2>3, <3>1
    <3>2. CASE id \in DOMAIN market
      BY <1>1, <1>2, <3>2 DEF ChainBalanced
    <3> QED
      BY <1>2, <1>3, <3>1, <3>2
  <2> QED
    BY <2>4 DEF ChainBalanced
<1>13. NothingExecutedEarly'
  BY <1>1 DEF NothingExecutedEarly
<1>14. CancelsFollow'
  <2> SUFFICES ASSUME NEW id \in DOMAIN market', ~market'[id].active,
                      Waiting(id)' \/ Entering(id)' \/ Resting(id)'
               PROVE  market'[id].remaining = 0 \/ CancelComing(id)'
    BY DEF CancelsFollow
  <2>1. id # n /\ id \in DOMAIN market
    BY <1>2, <1>3, <1>5
  <2>2. market'[id] = market[id]
    BY <1>2, <2>1
  <2> QED
    BY <1>1, <1>8, <1>9, <2>1, <2>2 DEF CancelsFollow
<1> QED
  BY <1>8, <1>9, <1>11, <1>12, <1>13, <1>14 DEF CoverInv, OrdersOfChain, OrdersOnce, Balanced

\* A trader cancels an order.
LEMMA CancelCase ==
  ASSUME DaemonInv, CoverInv, CancelOnChain, EngineRests
  PROVE  CoverInv'
<1>1. /\ OrdersKnown /\ FillsKnown /\ EntersOnce /\ EngineBalanced /\ LastOfAnOrder
      /\ ChainBalanced /\ NothingExecutedEarly /\ AllFills' = AllFills
      /\ EventsKnown /\ PlacedFirst /\ WaitsUntouched /\ CancelsFollow
      /\ events \in Seq(Event) /\ ChainTyped
      /\ applied' = applied /\ made' = made
  BY CoverFacts DEF CoverInv, OrdersOfChain, OrdersOnce, Balanced, EngineRests, CancelOnChain,
                    DaemonInv
<1>2. PICK n \in DOMAIN market :
        /\ DOMAIN market' = DOMAIN market
        /\ \A i \in DOMAIN market : i # n => market'[i] = market[i]
        /\ market'[n].order = market[n].order /\ market'[n].remaining = market[n].remaining
        /\ market[n].order \in Requests
        /\ events' = Append(events, [kind |-> "OrderCancelled", order |-> market[n].order])
  BY <1>1, CancelFacts
<1> DEFINE e == [kind |-> "OrderCancelled", order |-> market[n].order]
<1>3. /\ e \in Event /\ e.kind = "OrderCancelled" /\ e.order = market[n].order
      /\ e.order.order_id = n
  BY <1>2, CoverFacts DEF Event
<1>4. OrdersStay
  BY <1>2 DEF OrdersStay
<1>5. events' = Append(events, e)
  BY <1>2
<1> HIDE DEF e
<1>6. /\ EventsKnown' /\ PlacedFirst'
      /\ \A id : CancelComing(id) => CancelComing(id)'
      /\ \A id : Waiting(id)' => Waiting(id)
      /\ CancelComing(n)'
  BY <1>1, <1>2, <1>3, <1>4, <1>5, EventsArrive
<1>7. /\ OrdersKnown' /\ FillsKnown' /\ EntersOnce' /\ EngineBalanced' /\ LastOfAnOrder'
      /\ \A id : (Entering(id)' <=> Entering(id)) /\ (Resting(id)' <=> Resting(id))
  BY <1>1, <1>4, RestKeeps
<1>8. WaitsUntouched'
  BY <1>1, <1>6, <1>7 DEF WaitsUntouched
<1>9. ChainBalanced'
  BY <1>1, <1>2 DEF ChainBalanced
<1>10. NothingExecutedEarly'
  BY <1>1 DEF NothingExecutedEarly
<1>11. CancelsFollow'
  <2> SUFFICES ASSUME NEW id \in DOMAIN market', ~market'[id].active,
                      Waiting(id)' \/ Entering(id)' \/ Resting(id)'
               PROVE  market'[id].remaining = 0 \/ CancelComing(id)'
    BY DEF CancelsFollow
  <2>1. CASE id = n
    BY <1>6, <2>1
  <2>2. CASE id # n
    BY <1>1, <1>2, <1>6, <1>7, <2>2 DEF CancelsFollow
  <2> QED
    BY <2>1, <2>2
<1> QED
  BY <1>6, <1>7, <1>8, <1>9, <1>10, <1>11 DEF CoverInv, OrdersOfChain, OrdersOnce, Balanced

\* A settlement is included.
LEMMA IncludeCase ==
  ASSUME DaemonInv, CoverInv, Include, EngineRests
  PROVE  CoverInv'
<1>1. /\ OrdersKnown /\ FillsKnown /\ EntersOnce /\ EngineBalanced /\ LastOfAnOrder
      /\ ChainBalanced /\ NothingExecutedEarly /\ AllFills' = AllFills
      /\ EventsKnown /\ PlacedFirst /\ WaitsUntouched /\ CancelsFollow
      /\ ChainTyped /\ made \in Seq(Fill)
      /\ Len(made) \in Nat /\ Len(AllFills) \in Nat /\ Len(made) <= Len(AllFills)
      /\ AllFills \in Seq(Fill)
      /\ \A i \in 1..Len(made) : AllFills[i] = made[i]
      /\ \A i \in 1..Len(AllFills) : i \in Fills
      /\ applied \in [Fills -> Nat]
  BY CoverFacts, AllFillsFacts
     DEF CoverInv, OrdersOfChain, OrdersOnce, Balanced, EngineRests, DaemonInv
<1> DEFINE k == Head(mempool)
           f == made[k]
<1>2. /\ k \in 1..Len(made) /\ f \in Fill /\ UNCHANGED <<events, made>>
      /\ \/ UNCHANGED <<market, applied>>
         \/ /\ DOMAIN market' = DOMAIN market
            /\ \A id \in DOMAIN market :
                 IF id \in {f.maker_order_id, f.taker_order_id}
                   THEN /\ market[id].remaining >= f.vstk_amount
                        /\ market'[id].order = market[id].order
                        /\ market'[id].remaining = market[id].remaining - f.vstk_amount
                        /\ market'[id].active <=> market[id].remaining > f.vstk_amount
                   ELSE market'[id] = market[id]
            /\ applied' = [applied EXCEPT ![k] = @ + 1]
  BY <1>1, IncludeFacts
<1> HIDE DEF k, f
<1>3. CASE UNCHANGED <<market, applied>>
  BY <1>1, <1>2, <1>3, RestCase DEF ChainRests
<1>4. CASE /\ DOMAIN market' = DOMAIN market
           /\ \A id \in DOMAIN market :
                IF id \in {f.maker_order_id, f.taker_order_id}
                  THEN /\ market[id].remaining >= f.vstk_amount
                       /\ market'[id].order = market[id].order
                       /\ market'[id].remaining = market[id].remaining - f.vstk_amount
                       /\ market'[id].active <=> market[id].remaining > f.vstk_amount
                  ELSE market'[id] = market[id]
           /\ applied' = [applied EXCEPT ![k] = @ + 1]
  <2>1. OrdersStay
    BY <1>4 DEF OrdersStay
  <2>2. /\ OrdersKnown' /\ FillsKnown' /\ EntersOnce' /\ EngineBalanced' /\ LastOfAnOrder'
        /\ \A id : (Entering(id)' <=> Entering(id)) /\ (Resting(id)' <=> Resting(id))
    BY <1>1, <2>1, RestKeeps
  <2>3. EventsKnown' /\ PlacedFirst'
    BY <1>1, <1>2, <2>1 DEF EventsKnown, PlacedFirst, OrdersStay
  <2>4. \A id : (Waiting(id)' <=> Waiting(id)) /\ (CancelComing(id)' <=> CancelComing(id))
    BY <1>2 DEF Waiting, CancelComing
  <2>5. WaitsUntouched'
    BY <1>1, <2>2, <2>4 DEF WaitsUntouched
  <2>6. /\ k \in Fills /\ k \in 1..Len(AllFills) /\ AllFills[k] = f
        /\ applied'[k] = applied[k] + 1
        /\ \A i \in Fills : i # k => applied'[i] = applied[i]
        /\ applied' \in [Fills -> Nat]
    BY <1>1, <1>2, <1>4 DEF f
  <2>7. NothingExecutedEarly'
    <3> SUFFICES ASSUME NEW i \in Fills, i > Len(made) PROVE applied'[i] = 0
      BY <1>2 DEF NothingExecutedEarly
    <3>1. i # k
      BY <1>1, <1>2
    <3> QED
      BY <1>1, <2>6, <3>1 DEF NothingExecutedEarly
  <2>8. ASSUME NEW id \in DOMAIN market
        PROVE  Executed(AllFills, applied', id, Len(AllFills)) + market'[id].remaining
                 = market'[id].order.remaining
    <3>1. \A i \in 1..Len(AllFills) : applied[i] \in Nat /\ applied'[i] \in Nat
      BY <1>1, <2>6
    <3>2. \A i \in 1..Len(AllFills) : i # k => applied'[i] = applied[i]
      BY <1>1, <2>6
    <3>3. Executed(AllFills, applied', id, Len(AllFills))
            = Executed(AllFills, applied, id, Len(AllFills)) + Share(f, id)
      BY <1>1, <2>6, <3>1, <3>2, ExecutedMore
    <3>4. /\ Executed(AllFills, applied, id, Len(AllFills)) \in Int
          /\ f.vstk_amount \in Nat
      <4>1. Len(AllFills) \in 0..Len(AllFills)
        BY <1>1
      <4>2. Executed(AllFills, applied, id, Len(AllFills)) \in Int
        BY <1>1, <3>1, <4>1, ExecutedType
      <4> QED
        BY <1>2, <4>2 DEF Fill
    <3>5. /\ market[id].remaining \in Nat /\ market[id].order.remaining \in Nat
          /\ Executed(AllFills, applied, id, Len(AllFills)) + market[id].remaining
               = market[id].order.remaining
      BY <1>1, CoverFacts DEF ChainBalanced
    <3>6. CASE id \in {f.maker_order_id, f.taker_order_id}
      <4>1. Share(f, id) = f.vstk_amount
        BY <3>6 DEF Share, Party
      <4>2. /\ market'[id].order = market[id].order
            /\ market'[id].remaining = market[id].remaining - f.vstk_amount
        BY <1>4, <3>6
      <4> QED
        BY <3>3, <3>4, <3>5, <4>1, <4>2
    <3>7. CASE id \notin {f.maker_order_id, f.taker_order_id}
      <4>1. Share(f, id) = 0
        BY <3>7 DEF Share, Party
      <4>2. market'[id] = market[id]
        BY <1>4, <3>7
      <4> QED
        BY <3>3, <3>4, <3>5, <4>1, <4>2
    <3> QED
      BY <3>6, <3>7
  <2>9. ChainBalanced'
    BY <1>1, <1>4, <2>8 DEF ChainBalanced
  <2>10. CancelsFollow'
    <3> SUFFICES ASSUME NEW id \in DOMAIN market', ~market'[id].active,
                        Waiting(id)' \/ Entering(id)' \/ Resting(id)'
                 PROVE  market'[id].remaining = 0 \/ CancelComing(id)'
      BY DEF CancelsFollow
    <3>1. id \in DOMAIN market /\ market[id].remaining \in Nat /\ f.vstk_amount \in Nat
      BY <1>2, <1>4, CoverFacts DEF Fill
    <3>2. CASE id \in {f.maker_order_id, f.taker_order_id}
      <4>1. /\ market[id].remaining >= f.vstk_amount
            /\ market'[id].remaining = market[id].remaining - f.vstk_amount
            /\ ~(market[id].remaining > f.vstk_amount)
        BY <1>4, <3>1, <3>2
      <4> QED
        BY <3>1, <4>1
    <3>3. CASE id \notin {f.maker_order_id, f.taker_order_id}
      <4>1. market'[id] = market[id]
        BY <1>4, <3>1, <3>3
      <4> QED
        BY <1>1, <2>2, <2>4, <3>1, <4>1 DEF CancelsFollow
    <3> QED
      BY <3>2, <3>3
  <2> QED
    BY <2>2, <2>3, <2>5, <2>7, <2>9, <2>10 DEF CoverInv, OrdersOfChain, OrdersOnce, Balanced
<1> QED
  BY <1>2, <1>3, <1>4

\* The fills and the chain rest while an order moves from place to place.
LEMMA FillsKeep ==
  ASSUME OrdersStay, AllFills' = AllFills, FillsKnown, LastOfAnOrder
  PROVE  FillsKnown' /\ LastOfAnOrder'
<1>1. FillsKnown'
  BY DEF FillsKnown, OrdersStay
<1>2. LastOfAnOrder'
  BY DEF LastOfAnOrder, OrdersStay
<1> QED
  BY <1>1, <1>2

\* The runner submits the order of an event.
LEMMA EnterCase ==
  ASSUME DaemonInv, CoverInv, Enters,
         Len(made) \in Nat, Len(made') \in Nat, Len(made') >= Len(made)
  PROVE  CoverInv'
<1>1. /\ OrdersKnown /\ FillsKnown /\ EntersOnce /\ EngineBalanced /\ LastOfAnOrder
      /\ ChainBalanced /\ NothingExecutedEarly /\ AllFills' = AllFills
      /\ EventsKnown /\ PlacedFirst /\ WaitsUntouched /\ CancelsFollow
      /\ ChainRests /\ TakesUp("OrderPlaced") /\ events \in Seq(Event)
      /\ books' = books /\ pc[Runner] = "idle" /\ pc'[Runner] # "idle"
      /\ AllFills \in Seq(Fill)
  BY CoverFacts, AllFillsFacts
     DEF CoverInv, OrdersOfChain, OrdersOnce, Balanced, Enters, TakesUp
<1>2. OrdersStay /\ ChainBalanced' /\ NothingExecutedEarly' /\ market' = market
  BY <1>1, ChainKeeps DEF ChainRests
<1>3. FillsKnown' /\ LastOfAnOrder'
  BY <1>1, <1>2, FillsKeep
<1>4. PICK n : n = Head(events).order.order_id
  OBVIOUS
<1>5. /\ EventsKnown' /\ PlacedFirst'
      /\ \A id : Waiting(id)' => Waiting(id)
      /\ ~Waiting(n)'
      /\ Waiting(n)
      /\ \A id : CancelComing(id) => CancelComing(id)'
      /\ n \in DOMAIN market /\ Head(events).order = market[n].order
  BY <1>1, <1>4, EventsLeave
<1>6. /\ incoming'[Runner].order_id = n
      /\ incoming'[Runner].company_id = market[n].order.company_id
      /\ incoming'[Runner].remaining = market[n].order.remaining
  BY <1>4, <1>5 DEF Enters
<1>7. ~Resting(n) /\ \A k \in 1..Len(AllFills) : ~Party(n, AllFills[k])
  BY <1>1, <1>5 DEF WaitsUntouched
<1>8. \A id : (Resting(id)' <=> Resting(id)) /\ (Entering(id)' <=> id = n) /\ ~Entering(id)
  BY <1>1, <1>6 DEF Resting, Entering
<1>9. EntersOnce'
  BY <1>7, <1>8 DEF EntersOnce
<1>10. OrdersKnown'
  BY <1>1, <1>2, <1>5, <1>6 DEF OrdersKnown
<1>11. WaitsUntouched'
  BY <1>1, <1>5, <1>8 DEF WaitsUntouched
<1>12. EngineBalanced'
  <2>1. Volume(AllFills, n, Len(AllFills)) = 0
    BY <1>1, <1>7, NoVolume
  <2>2. market[n].order.remaining \in Nat
    BY <1>5, CoverFacts
  <2>3. Volume(AllFills, n, Len(AllFills)) + incoming'[Runner].remaining
          = market[n].order.remaining
    BY <1>6, <2>1, <2>2
  <2> QED
    BY <1>1, <1>2, <1>6, <2>3 DEF EngineBalanced
<1>13. CancelsFollow'
  BY <1>1, <1>2, <1>5, <1>8 DEF CancelsFollow
<1> QED
  BY <1>2, <1>3, <1>5, <1>9, <1>10, <1>11, <1>12, <1>13
     DEF CoverInv, OrdersOfChain, OrdersOnce, Balanced

\* The runner takes a cancelled order off the book.
LEMMA WithdrawCase ==
  ASSUME DaemonInv, CoverInv, Withdraws,
         Len(made) \in Nat, Len(made') \in Nat, Len(made') >= Len(made)
  PROVE  CoverInv'
<1>1. /\ OrdersKnown /\ FillsKnown /\ EntersOnce /\ EngineBalanced /\ LastOfAnOrder
      /\ ChainBalanced /\ NothingExecutedEarly /\ AllFills' = AllFills
      /\ EventsKnown /\ PlacedFirst /\ WaitsUntouched /\ CancelsFollow
      /\ ChainRests /\ TakesUp("OrderCancelled") /\ events \in Seq(Event)
      /\ pc[Runner] = "idle" /\ pc'[Runner] = "idle"
  BY CoverFacts DEF CoverInv, OrdersOfChain, OrdersOnce, Balanced, Withdraws, TakesUp
<1>2. OrdersStay /\ ChainBalanced' /\ NothingExecutedEarly' /\ market' = market
  BY <1>1, ChainKeeps DEF ChainRests
<1>3. FillsKnown' /\ LastOfAnOrder'
  BY <1>1, <1>2, FillsKeep
<1>4. PICK n : n = Head(events).order.order_id
  OBVIOUS
<1>5. /\ EventsKnown' /\ PlacedFirst'
      /\ \A id : Waiting(id)' => Waiting(id)
      /\ ~Waiting(n)'
      /\ \A id : id # n /\ CancelComing(id) => CancelComing(id)'
      /\ n \in DOMAIN market /\ Head(events).order = market[n].order
  BY <1>1, <1>4, EventsLeave
<1>6. \A c \in Companies :
        /\ DOMAIN books'[c].orders \subseteq DOMAIN books[c].orders
        /\ \A id \in DOMAIN books'[c].orders : books'[c].orders[id] = books[c].orders[id]
        /\ c = market[n].order.company_id => n \notin DOMAIN books'[c].orders
  BY <1>4, <1>5 DEF Withdraws
<1>7. \A id : (Resting(id)' => Resting(id)) /\ ~Entering(id)' /\ ~Entering(id)
  BY <1>1, <1>6 DEF Resting, Entering
<1>8. ~Resting(n)'
  <2> SUFFICES ASSUME NEW c \in Companies, n \in DOMAIN books'[c].orders PROVE FALSE
    BY DEF Resting
  <2>1. market[n].order.company_id = c
    BY <1>1, <1>6 DEF OrdersKnown
  <2> QED
    BY <1>6, <2>1
<1>9. EntersOnce'
  BY <1>7 DEF EntersOnce
<1>10. OrdersKnown'
  BY <1>1, <1>2, <1>6 DEF OrdersKnown
<1>11. WaitsUntouched'
  BY <1>1, <1>5, <1>7 DEF WaitsUntouched
<1>12. EngineBalanced'
  BY <1>1, <1>2, <1>6 DEF EngineBalanced
<1>13. CancelsFollow'
  BY <1>1, <1>2, <1>5, <1>7, <1>8 DEF CancelsFollow
<1> QED
  BY <1>2, <1>3, <1>5, <1>9, <1>10, <1>11, <1>12, <1>13
     DEF CoverInv, OrdersOfChain, OrdersOnce, Balanced

\* The placement returns: its order rests or is gone.
LEMMA EndCase ==
  ASSUME DaemonInv, CoverInv, Ends,
         Len(made) \in Nat, Len(made') \in Nat, Len(made') >= Len(made)
  PROVE  CoverInv'
<1>1. /\ OrdersKnown /\ FillsKnown /\ EntersOnce /\ EngineBalanced /\ LastOfAnOrder
      /\ ChainBalanced /\ NothingExecutedEarly /\ AllFills' = AllFills
      /\ EventsKnown /\ PlacedFirst /\ WaitsUntouched /\ CancelsFollow
      /\ ChainRests /\ events' = events
      /\ pc[Runner] # "idle" /\ pc'[Runner] = "idle"
  BY DEF CoverInv, OrdersOfChain, OrdersOnce, Balanced, Ends
<1>2. OrdersStay /\ ChainBalanced' /\ NothingExecutedEarly' /\ market' = market
  BY <1>1, ChainKeeps DEF ChainRests
<1>3. FillsKnown' /\ LastOfAnOrder'
  BY <1>1, <1>2, FillsKeep
<1>4. EventsKnown' /\ PlacedFirst'
  BY <1>1, <1>2 DEF EventsKnown, PlacedFirst
<1>5. \A id : (Waiting(id)' <=> Waiting(id)) /\ (CancelComing(id)' <=> CancelComing(id))
  BY <1>1 DEF Waiting, CancelComing
<1>6. \A c \in Companies : \A id \in DOMAIN books'[c].orders :
        \/ /\ id \in DOMAIN books[c].orders
           /\ books'[c].orders[id] = books[c].orders[id]
        \/ /\ c = incoming[Runner].company_id /\ id = incoming[Runner].order_id
           /\ books'[c].orders[id].remaining = incoming[Runner].remaining
  BY DEF Ends
<1>7. \A id : (Resting(id)' => Resting(id) \/ Entering(id)) /\ ~Entering(id)'
  BY <1>1, <1>6 DEF Resting, Entering
<1>8. EntersOnce'
  BY <1>7 DEF EntersOnce
<1>9. OrdersKnown'
  BY <1>1, <1>2, <1>6 DEF OrdersKnown
<1>10. WaitsUntouched'
  BY <1>1, <1>5, <1>7 DEF WaitsUntouched
<1>11. EngineBalanced'
  BY <1>1, <1>2, <1>6 DEF EngineBalanced
<1>12. CancelsFollow'
  BY <1>1, <1>2, <1>5, <1>7 DEF CancelsFollow
<1> QED
  BY <1>2, <1>3, <1>4, <1>8, <1>9, <1>10, <1>11, <1>12
     DEF CoverInv, OrdersOfChain, OrdersOnce, Balanced

\* There is room for the fills of the next state too.
LEMMA FillsFitNext ==
  ASSUME DaemonInv', pc'[Runner] = "matching"
  PROVE  Len(AllFills') <= MaxArrivals
<1>1. /\ CallsTyped' /\ HistoryTyped' /\ FillsExhaust' /\ made' \in Seq(Fill)
  BY DEF DaemonInv, EngineInv, IInv, TypeOK, PipelineInv
<1>2. fills'[Runner] \in Seq(Fill)
  BY <1>1, RunnerCalls DEF CallsTyped
<1>3. AllFills' = made' \o fills'[Runner]
  BY DEF AllFills
<1>4. Len(AllFills') = Len(made') + Len(fills'[Runner]) /\ Len(AllFills') \in Nat
  BY <1>1, <1>2, <1>3
<1>5. Len(AllFills') <= Cardinality(Exhausted')
  BY <1>1, <1>4 DEF FillsExhaust, FillsEver
<1>6. Exhausted' \subseteq 1..MaxArrivals
  BY <1>1, BoundAssumption DEF HistoryTyped, Exhausted
<1>7. IsFiniteSet(1..MaxArrivals)
  BY FS_Interval, BoundAssumption
<1>8. Cardinality(Exhausted') \in Nat
  BY <1>6, <1>7, SmallerSet
<1>9. Len(AllFills') + 0 <= Cardinality(Exhausted')
  BY <1>4, <1>5
<1> QED
  BY <1>4, <1>6, <1>9, FewFills

\* A fill takes from the order being matched and from a resting one.
LEMMA FillCase ==
  ASSUME DaemonInv, DaemonInv', CoverInv, MakesFill,
         Len(made) \in Nat, Len(made') \in Nat, Len(made') >= Len(made)
  PROVE  CoverInv'
<1>1. /\ OrdersKnown /\ FillsKnown /\ EntersOnce /\ EngineBalanced /\ LastOfAnOrder
      /\ ChainBalanced /\ NothingExecutedEarly
      /\ EventsKnown /\ PlacedFirst /\ WaitsUntouched /\ CancelsFollow
      /\ market' = market /\ applied' = applied /\ events' = events
      /\ AllFills \in Seq(Fill) /\ Len(AllFills) \in Nat /\ Len(made) <= Len(AllFills)
      /\ \A k \in 1..Len(AllFills) : applied[k] \in Nat
  BY CoverFacts, AllFillsFacts
     DEF CoverInv, OrdersOfChain, OrdersOnce, Balanced, MakesFill, ChainRests
<1> DEFINE in == incoming[Runner]
           n == Len(AllFills)
<1>2. PICK mo, qty, f : OneFill(Runner, in, mo, qty, f) /\ AllFills' = Append(AllFills, f)
  BY DEF MakesFill
<1>3. /\ mo.order_id \in DOMAIN books[in.company_id].orders
      /\ mo = books[in.company_id].orders[mo.order_id]
      /\ qty \in Nat \ {0} /\ f \in Fill /\ f.vstk_amount = qty
      /\ qty = in.remaining \/ qty = mo.remaining
      /\ in.remaining \in Nat /\ mo.remaining \in Nat
      /\ in.company_id \in Companies
      /\ f.maker_order_id = mo.order_id /\ f.taker_order_id = in.order_id
      /\ pc[Runner] = "matching" /\ pc' = pc
  BY <1>2 DEF OneFill, OrderRecord
<1>4. /\ incoming'[Runner].order_id = in.order_id
      /\ incoming'[Runner].company_id = in.company_id
      /\ incoming'[Runner].remaining = in.remaining - qty
  BY <1>2 DEF OneFill, OrderRecord
<1>5. \A c \in Companies : \A id \in DOMAIN books'[c].orders :
        /\ id \in DOMAIN books[c].orders
        /\ IF c = in.company_id /\ id = mo.order_id
             THEN books'[c].orders[id].remaining = mo.remaining - qty
             ELSE books'[c].orders[id] = books[c].orders[id]
  <2>1. [mo EXCEPT !.remaining = mo.remaining - qty].remaining = mo.remaining - qty
    BY <1>2 DEF OneFill, OrderRecord
  <2>2. \A c \in Companies :
          /\ DOMAIN books'[c].orders \subseteq DOMAIN books[c].orders
          /\ \A id \in DOMAIN books'[c].orders :
               IF c = in.company_id /\ id = mo.order_id
                 THEN books'[c].orders[id] = [mo EXCEPT !.remaining = mo.remaining - qty]
                 ELSE books'[c].orders[id] = books[c].orders[id]
    BY <1>2 DEF OneFill
  <2> HIDE DEF in
  <2> QED
    BY <2>1, <2>2
<1> HIDE DEF in
<1>6. in.order_id \in DOMAIN market /\ market[in.order_id].order.company_id = in.company_id
  BY <1>1, <1>3 DEF OrdersKnown, in
<1>7. mo.order_id \in DOMAIN market /\ market[mo.order_id].order.company_id = in.company_id
  BY <1>1, <1>3 DEF OrdersKnown
<1>8. Entering(in.order_id) /\ Resting(mo.order_id)
  BY <1>3 DEF Entering, Resting, in
<1>9. mo.order_id # in.order_id /\ ~Resting(in.order_id)
  BY <1>1, <1>8 DEF EntersOnce
<1>10. \A id : (Entering(id)' <=> Entering(id)) /\ (Resting(id)' => Resting(id))
  <2>1. \A id : Entering(id)' <=> Entering(id)
    BY <1>3, <1>4 DEF Entering, in
  <2>2. \A id : Resting(id)' => Resting(id)
    BY <1>5 DEF Resting
  <2> QED
    BY <2>1, <2>2
<1>11. EntersOnce'
  BY <1>1, <1>10 DEF EntersOnce
<1>12. EventsKnown' /\ PlacedFirst'
  BY <1>1 DEF EventsKnown, PlacedFirst
<1>13. \A id : (Waiting(id)' <=> Waiting(id)) /\ (CancelComing(id)' <=> CancelComing(id))
  BY <1>1 DEF Waiting, CancelComing
<1>14. /\ Len(AllFills') = n + 1 /\ AllFills'[n + 1] = f
       /\ \A k \in 1..n : AllFills'[k] = AllFills[k]
       /\ \A k \in 1..(n + 1) : k = n + 1 \/ k \in 1..n
  BY <1>1, <1>2, <1>3
<1>15. \A id : Party(id, f) <=> id = mo.order_id \/ id = in.order_id
  BY <1>3 DEF Party
<1>16. FillsKnown'
  BY <1>1, <1>6, <1>7, <1>14, <1>15 DEF FillsKnown
<1>17. OrdersKnown'
  <2>1. pc'[Runner] # "idle" =>
           LET i == incoming'[Runner] IN
           i.order_id \in DOMAIN market' /\ market'[i.order_id].order.company_id = i.company_id
    BY <1>1, <1>4, <1>6
  <2>2. \A c \in Companies : \A id \in DOMAIN books'[c].orders :
           id \in DOMAIN market' /\ market'[id].order.company_id = c
    BY <1>1, <1>5 DEF OrdersKnown
  <2> QED
    BY <2>1, <2>2 DEF OrdersKnown
<1>18. WaitsUntouched'
  <2> SUFFICES ASSUME NEW id, Waiting(id)
               PROVE  /\ ~Entering(id)' /\ ~Resting(id)'
                      /\ \A k \in 1..(n + 1) : ~Party(id, AllFills'[k])
    BY <1>13, <1>14 DEF WaitsUntouched
  <2>1. /\ ~Entering(id) /\ ~Resting(id)
        /\ \A k \in 1..n : ~Party(id, AllFills[k])
    BY <1>1 DEF WaitsUntouched
  <2>2. id # mo.order_id /\ id # in.order_id
    BY <1>8, <2>1
  <2> QED
    BY <1>10, <1>14, <1>15, <2>1, <2>2
<1> HIDE DEF n
<1>19. \A id : Volume(AllFills', id, n + 1) = Volume(AllFills, id, n) + Share(f, id)
  BY <1>1, <1>2, <1>3, VolumeAppend DEF n
<1>20. \A id : \A k \in 0..n : Volume(AllFills', id, k) = Volume(AllFills, id, k)
  BY <1>1, <1>2, <1>3, VolumeAppend DEF n
<1>21. \A id : Volume(AllFills, id, n) \in Int
  <2>1. n \in 0..n /\ n = Len(AllFills)
    BY <1>1 DEF n
  <2> QED
    BY <1>1, <2>1, VolumeType
<1>22. Share(f, mo.order_id) = qty /\ Share(f, in.order_id) = qty
       /\ \A id : id # mo.order_id /\ id # in.order_id => Share(f, id) = 0
  BY <1>3, <1>15 DEF Share
<1>23. /\ Volume(AllFills, in.order_id, n) + in.remaining = market[in.order_id].order.remaining
       /\ Volume(AllFills, mo.order_id, n) + mo.remaining = market[mo.order_id].order.remaining
  BY <1>1, <1>3 DEF EngineBalanced, n, in
<1>24. EngineBalanced'
  <2>1. Volume(AllFills', in.order_id, n + 1) + (in.remaining - qty)
          = market[in.order_id].order.remaining
    BY <1>3, <1>19, <1>21, <1>22, <1>23
  <2>2. ASSUME NEW c \in Companies, NEW id \in DOMAIN books'[c].orders
        PROVE  Volume(AllFills', id, n + 1) + books'[c].orders[id].remaining
                 = market[id].order.remaining
    <3>1. id \in DOMAIN books[c].orders /\ Resting(id)
          /\ market[id].order.company_id = c
      BY <1>1, <1>5, <2>2 DEF OrdersKnown, Resting
    <3>2. CASE id = mo.order_id
      <4>1. books'[c].orders[id].remaining = mo.remaining - qty
        BY <1>5, <1>7, <2>2, <3>1, <3>2
      <4> QED
        BY <1>3, <1>19, <1>21, <1>22, <1>23, <3>2, <4>1
    <3>3. CASE id # mo.order_id
      <4>1. id # in.order_id
        BY <1>9, <3>1
      <4>2. books'[c].orders[id] = books[c].orders[id]
        BY <1>5, <2>2, <3>3
      <4>3. Volume(AllFills', id, n + 1) = Volume(AllFills, id, n)
        <5>1. Volume(AllFills', id, n + 1) = Volume(AllFills, id, n) + 0
          BY <1>19, <1>22, <3>3, <4>1
        <5> QED
          BY <1>21, <5>1
      <4>4. Volume(AllFills, id, n) + books[c].orders[id].remaining
              = market[id].order.remaining
        BY <1>1, <3>1 DEF EngineBalanced, n
      <4> QED
        BY <4>2, <4>3, <4>4
    <3> QED
      BY <3>2, <3>3
  <2>3. pc'[Runner] # "idle" =>
          LET i == incoming'[Runner] IN
          Volume(AllFills', i.order_id, Len(AllFills')) + i.remaining
            = market'[i.order_id].order.remaining
    BY <1>1, <1>4, <1>14, <2>1
  <2>4. \A c \in Companies : \A id \in DOMAIN books'[c].orders :
          Volume(AllFills', id, Len(AllFills')) + books'[c].orders[id].remaining
            = market'[id].order.remaining
    BY <1>1, <1>14, <2>2
  <2> QED
    BY <2>3, <2>4 DEF EngineBalanced
<1>25. NothingExecutedEarly'
  BY <1>1 DEF NothingExecutedEarly, Fills
<1>26. ChainBalanced'
  <2>1. n + 1 \in Fills
    <3>1. Len(AllFills') <= MaxArrivals
      BY <1>3, FillsFitNext
    <3> QED
      BY <1>1, <1>14, <3>1, BoundAssumption DEF Fills, n
  <2>2. applied[n + 1] = 0
    BY <1>1, <2>1 DEF NothingExecutedEarly, n
  <2>3. ASSUME NEW id \in DOMAIN market
        PROVE  Executed(AllFills', applied, id, n + 1) = Executed(AllFills, applied, id, n)
    <3>1. Executed(Append(AllFills, f), applied, id, Len(AllFills) + 1)
            = Executed(AllFills, applied, id, Len(AllFills)) + 0
      BY <1>1, <1>3, <2>2, ExecutedAppend DEF n
    <3>2. Executed(AllFills, applied, id, Len(AllFills)) \in Int
      <4>1. Len(AllFills) \in 0..Len(AllFills)
        BY <1>1
      <4> QED
        BY <1>1, <4>1, ExecutedType
    <3> QED
      BY <1>2, <3>1, <3>2 DEF n
  <2>4. \A id \in DOMAIN market' :
          Executed(AllFills', applied', id, Len(AllFills')) + market'[id].remaining
            = market'[id].order.remaining
    BY <1>1, <1>14, <2>3 DEF ChainBalanced, n
  <2> QED
    BY <2>4 DEF ChainBalanced
<1>27. LastOfAnOrder'
  <2> SUFFICES ASSUME NEW k \in 1..(n + 1)
               PROVE  /\ AllFills'[k].vstk_amount > 0
                      /\ \E id \in DOMAIN market :
                           /\ Party(id, AllFills'[k])
                           /\ Volume(AllFills', id, k) = market[id].order.remaining
    BY <1>1, <1>14 DEF LastOfAnOrder
  <2>1. CASE k \in 1..n
    <3>1. k \in 0..n /\ AllFills'[k] = AllFills[k]
      BY <1>1, <1>14, <2>1 DEF n
    <3> QED
      BY <1>1, <1>20, <2>1, <3>1 DEF LastOfAnOrder, n
  <2>2. CASE k = n + 1
    <3>1. AllFills'[k] = f /\ f.vstk_amount > 0
      BY <1>3, <1>14, <2>2
    <3>2. CASE qty = in.remaining
      <4>1. Volume(AllFills', in.order_id, k) = market[in.order_id].order.remaining
        BY <1>19, <1>22, <1>23, <2>2, <3>2
      <4> QED
        BY <1>6, <1>15, <3>1, <4>1
    <3>3. CASE qty = mo.remaining
      <4>1. Volume(AllFills', mo.order_id, k) = market[mo.order_id].order.remaining
        BY <1>19, <1>22, <1>23, <2>2, <3>3
      <4> QED
        BY <1>7, <1>15, <3>1, <4>1
    <3> QED
      BY <1>3, <3>2, <3>3
  <2> QED
    BY <1>14, <2>1, <2>2
<1>28. CancelsFollow'
  BY <1>1, <1>10, <1>13 DEF CancelsFollow
<1> QED
  BY <1>11, <1>12, <1>16, <1>17, <1>18, <1>24, <1>25, <1>26, <1>27, <1>28
     DEF CoverInv, OrdersOfChain, OrdersOnce, Balanced

-----------------------------------------------------------------------------
LEMMA CoverStarts == DaemonInit => CoverInv
<1> SUFFICES ASSUME DaemonInit PROVE CoverInv
  OBVIOUS
<1>1. /\ made = <<>> /\ events = <<>> /\ pc[Runner] = "idle" /\ DOMAIN market = {}
      /\ applied = [k \in Fills |-> 0]
      /\ \A c \in Companies : DOMAIN books[c].orders = {}
  BY RunnerCalls DEF DaemonInit, Init, EmptyBook, EmptyMap
<1>2. AllFills = <<>>
  BY <1>1 DEF AllFills
<1>3. Len(events) = 0 /\ Len(AllFills) = 0
  BY <1>1, <1>2
<1>4. \A id : ~Waiting(id) /\ ~Entering(id) /\ ~Resting(id)
  BY <1>1, <1>3 DEF Waiting, Entering, Resting
<1>5. OrdersOfChain
  BY <1>1, <1>3 DEF OrdersOfChain, EventsKnown, OrdersKnown, FillsKnown
<1>6. OrdersOnce
  BY <1>3, <1>4 DEF OrdersOnce, PlacedFirst, WaitsUntouched, EntersOnce
<1>7. Balanced
  BY <1>1, <1>3 DEF Balanced, EngineBalanced, ChainBalanced, LastOfAnOrder, NothingExecutedEarly
<1>8. CancelsFollow
  BY <1>1 DEF CancelsFollow
<1> QED
  BY <1>5, <1>6, <1>7, <1>8 DEF CoverInv

LEMMA CoverKept == DaemonInv /\ DaemonInv' /\ CoverInv /\ [DaemonNext]_allVars => CoverInv'
<1> SUFFICES ASSUME DaemonInv, DaemonInv', CoverInv, [DaemonNext]_allVars PROVE CoverInv'
  OBVIOUS
<1>1. /\ Len(made') >= Len(made)
      /\ \/ PlaceOrder /\ EngineRests
         \/ CancelOnChain /\ EngineRests
         \/ Include /\ EngineRests
         \/ ChainRests /\ UNCHANGED events /\ EngineRests
         \/ Drops \/ Enters \/ Withdraws \/ MakesFill \/ Ends
  BY DaemonMoves DEF CoverInv, OrdersOnce
<1>2. Len(made) \in Nat /\ Len(made') \in Nat
  BY DEF DaemonInv, PipelineInv
<1> QED
  BY <1>1, <1>2, RestCase, DropCase, PlaceCase, CancelCase, IncludeCase, EnterCase,
     WithdrawCase, FillCase, EndCase

\* The inductive invariant of the orders: each is followed from its event
\* (aide_daemon.rs:530) through limit_order_placement to its book, with what its
\* fills and settleTrade have taken from it.
THEOREM OrdersAreFollowed == DaemonSpec => []CoverInv
  BY DaemonInductive, CoverStarts, CoverKept, PTL DEF DaemonSpec

\* limit_order_placement matches a resting order only against what settleTrade
\* can still take from it, as long as no settlement has been executed twice
\* (InternalMarket.sol: remaining and active): what was executed of the order is
\* at most what was filled, and both add up with the remainders to its amount.
THEOREM ChainCovers == DaemonSpec => []ChainCoversEngine
<1>1. DaemonInv /\ CoverInv => ChainCoversEngine
  <2> SUFFICES ASSUME DaemonInv, CoverInv, \A k \in Fills : applied[k] <= 1,
                      NEW c \in Companies, NEW id \in DOMAIN books[c].orders
               PROVE  /\ market[id].remaining >= books[c].orders[id].remaining
                      /\ market[id].active \/ CancelComing(id)
    BY DEF ChainCoversEngine, CancelComing
  <2> DEFINE n == Len(AllFills)
             v == Volume(AllFills, id, n)
             e == Executed(AllFills, applied, id, n)
             left == books[c].orders[id].remaining
  <2>1. /\ AllFills \in Seq(Fill) /\ n \in Nat
        /\ \A k \in 1..n : applied[k] \in Nat /\ applied[k] <= 1
    BY AllFillsFacts, CoverFacts
  <2>2. n \in 0..n
    BY <2>1
  <2>3. v \in Int /\ e \in Int /\ e <= v
    BY <2>1, <2>2, VolumeType, ExecutedType, ExecutedWithin
  <2>4. id \in DOMAIN market
    BY DEF CoverInv, OrdersOfChain, OrdersKnown
  <2>5. e + market[id].remaining = v + left
    BY <2>4 DEF CoverInv, Balanced, EngineBalanced, ChainBalanced
  <2>6. left \in Nat /\ left > 0
    <3>1. Sound(books[c])
      BY DEF DaemonInv, EngineInv, IInv, SoundBooks
    <3>2. books[c].orders[id] \in OrderRecord
      BY <3>1 DEF Sound, IsBook, OrdersTyped
    <3> QED
      BY <3>1, <3>2 DEF Sound, Consistent, OrdersQueued, OrderRecord
  <2>7. market[id].remaining \in Nat
    BY <2>4, CoverFacts
  <2> HIDE DEF n, v, e, left
  <2>8. market[id].remaining >= left
    BY <2>3, <2>5, <2>6, <2>7
  <2>9. market[id].active \/ CancelComing(id)
    BY <2>4, <2>6, <2>7, <2>8 DEF CoverInv, CancelsFollow, Resting
  <2> QED
    BY <2>8, <2>9 DEF left
<1> QED
  BY <1>1, DaemonInductive, OrdersAreFollowed, PTL

\* A settlement that is resent after an answer was lost (settler.rs) executes
\* twice only if an earlier fill of the same order was never executed: the fill
\* is the last of one of its orders, so that the second execution takes more
\* than the order has left.
THEOREM ReplayNeedsLoss == DaemonSpec => []ReplayNeedsLostFill
<1>1. DaemonInv /\ CoverInv => ReplayNeedsLostFill
  <2> SUFFICES ASSUME DaemonInv, CoverInv, NEW k \in 1..Len(made), applied[k] > 1,
                      \A j \in 1..(k - 1) : applied[j] = 0 => ~SharesOrder(made[j], made[k])
               PROVE  FALSE
    BY DEF ReplayNeedsLostFill
  <2> DEFINE n == Len(AllFills)
  <2>1. /\ AllFills \in Seq(Fill) /\ n \in Nat /\ k \in 1..n
        /\ \A i \in 1..n : applied[i] \in Nat
        /\ \A i \in 1..k : i \in 1..n /\ AllFills[i] = made[i]
        /\ k \in 0..n /\ n \in 0..n
    BY AllFillsFacts, CoverFacts
  <2>2. PICK id \in DOMAIN market :
          /\ Party(id, AllFills[k]) /\ AllFills[k].vstk_amount > 0
          /\ Volume(AllFills, id, k) = market[id].order.remaining
    BY <2>1 DEF CoverInv, Balanced, LastOfAnOrder
  <2>3. \A i \in 1..(k - 1) : Party(id, AllFills[i]) => applied[i] >= 1
    <3> SUFFICES ASSUME NEW i \in 1..(k - 1), Party(id, AllFills[i]) PROVE applied[i] >= 1
      OBVIOUS
    <3>1. i \in 1..k /\ k \in 1..k
      BY <2>1
    <3>2. SharesOrder(made[i], made[k])
      BY <2>1, <2>2, <3>1 DEF SharesOrder, Party
    <3> QED
      BY <2>1, <3>1, <3>2
  <2>4. applied[k] >= 2
    BY <2>1
  <2>5. Executed(AllFills, applied, id, n) > Volume(AllFills, id, k)
    BY <2>1, <2>2, <2>3, <2>4, ExecutedTwice
  <2>6. Executed(AllFills, applied, id, n) + market[id].remaining = market[id].order.remaining
    BY DEF CoverInv, Balanced, ChainBalanced
  <2>7. /\ market[id].remaining \in Nat /\ market[id].order.remaining \in Nat
        /\ Executed(AllFills, applied, id, n) \in Int
    BY <2>1, CoverFacts, ExecutedType
  <2> HIDE DEF n
  <2> QED
    BY <2>2, <2>5, <2>6, <2>7
<1> QED
  BY <1>1, DaemonInductive, OrdersAreFollowed, PTL
\* limit_order_placement finds the id of an order that it has matched free in
\* the book (matching.rs:125): an order enters once, so no fills are dropped.
THEOREM NoPlacementFails == DaemonSpec => []PlacementsSucceed
<1>1. DaemonInit => PlacementsSucceed
  BY RunnerCalls DEF DaemonInit, Init, PlacementsSucceed
<1>2. DaemonInv /\ CoverInv /\ PlacementsSucceed /\ [DaemonNext]_allVars => PlacementsSucceed'
  <2> SUFFICES ASSUME DaemonInv, CoverInv, PlacementsSucceed, [DaemonNext]_allVars
               PROVE  PlacementsSucceed'
    OBVIOUS
  <2>1. /\ outcome \in [Callers -> Outcomes] /\ Runner \in Callers
        /\ outcome[Runner] # "DuplicateOrderId"
    BY RunnerCalls DEF DaemonInv, EngineInv, IInv, TypeOK, CallsTyped, PlacementsSucceed
  <2>2. CASE EndMatch
    <3>1. CanInsert(books[incoming[Runner].company_id], incoming[Runner])
      <4>1. incoming[Runner].company_id \in Companies /\ Entering(incoming[Runner].order_id)
        BY <2>2, <2>1 DEF EndMatch, Return, Entering, DaemonInv, EngineInv, IInv, TypeOK,
                          CallsTyped, OrderRecord
      <4>2. ~Resting(incoming[Runner].order_id)
        BY <4>1 DEF CoverInv, OrdersOnce, EntersOnce
      <4> QED
        BY <4>1, <4>2 DEF Resting, CanInsert
    <3>2. outcome' = [outcome EXCEPT ![Runner] = "Ok"]
      BY <2>2, <3>1 DEF EndMatch, Return
    <3> QED
      BY <2>1, <3>2 DEF PlacementsSucceed
  <2>3. CASE TakePlaced \/ TakeCancelled
    <3>1. \/ outcome' = outcome
          \/ \E r \in {"None", "Ok", "UnknownOrder"} : outcome' = [outcome EXCEPT ![Runner] = r]
      BY <2>3 DEF TakePlaced, TakeCancelled, Submit, CancelResting, vars
    <3> QED
      BY <2>1, <3>1 DEF PlacementsSucceed
  <2>4. CASE Match
    <3>1. outcome' = outcome
      BY <2>4 DEF Match, Acquire, MatchStep
    <3> QED
      BY <2>1, <3>1 DEF PlacementsSucceed
  <2>5. CASE GasPriceFails \/ SendFails \/ ReceiptFails
    <3>1. outcome' = outcome
      BY <2>5 DEF GasPriceFails, SendFails, ReceiptFails, engineRest
    <3> QED
      BY <2>1, <3>1 DEF PlacementsSucceed
  <2>6. CASE PlaceOrder \/ CancelOnChain \/ CountFill \/ SendFill \/ ReceiveFill
             \/ FlushInterval \/ SendSucceeds \/ ReceiptArrives \/ Include
             \/ UNCHANGED allVars
    <3>1. outcome' = outcome
      BY <2>6 DEF PlaceOrder, CancelOnChain, CountFill, SendFill, ReceiveFill,
                  FlushInterval, SendSucceeds, ReceiptArrives, Include, vars, allVars
    <3> QED
      BY <2>1, <3>1 DEF PlacementsSucceed
  <2> QED
    BY <2>2, <2>3, <2>4, <2>5, <2>6 DEF DaemonNext, RunnerStep, SettlerStep
<1> QED
  BY <1>1, <1>2, DaemonInductive, OrdersAreFollowed, PTL DEF DaemonSpec

-----------------------------------------------------------------------------
(***************************************************************************)
(* What is sent and executed.  A transaction carries the number of the     *)
(* fill being settled, which is Done + 1, or of one whose settlement has   *)
(* failed, in the order of the fills; what has been executed comes before. *)
(***************************************************************************)
\* Nothing is sent, nothing executed and nothing done with.
SendRests ==
  /\ UNCHANGED <<mempool, applied, resolved>> /\ Done' = Done
  /\ settler' = "waiting" <=> settler = "waiting"
  /\ ~signer /\ calls = <<>> => calls' = <<>>
Sends ==
  /\ settler = "sending" /\ calls # <<>> /\ mempool' = Append(mempool, Done + 1)
  /\ UNCHANGED <<applied, resolved, calls>> /\ Done' = Done
  /\ settler' = "waiting" \/ SendFails
Includes ==
  /\ mempool # <<>> /\ mempool' = Tail(mempool)
  /\ \/ UNCHANGED <<market, applied>>
     \/ /\ \A id \in {made[Head(mempool)].maker_order_id, made[Head(mempool)].taker_order_id} :
             market[id].active /\ market[id].remaining >= made[Head(mempool)].vstk_amount
        /\ applied' = [applied EXCEPT ![Head(mempool)] = @ + 1]
  /\ UNCHANGED <<resolved, settler, calls>> /\ Done' = Done
Ended(r) == resolved' = [resolved EXCEPT ![Done + 1] = r] /\ Done' = Done + 1
Fails ==
  /\ calls # <<>> /\ Ended("failed") /\ UNCHANGED applied
  /\ settler' # "waiting"
  /\ mempool' = mempool \/ (SendFails /\ mempool' = Append(mempool, Done + 1))
Confirms ==
  /\ calls # <<>> /\ Ended("confirmed") /\ UNCHANGED <<mempool, applied>>
  /\ mempool = <<>> /\ settler = "waiting" /\ settler' # "waiting"
Skips ==
  /\ ~signer /\ Done' > Done /\ UNCHANGED <<mempool, applied, settler, calls>>
  /\ settler # "waiting"
  /\ resolved' = [k \in Fills |-> IF k \in (Done + 1)..Done' THEN "skipped" ELSE resolved[k]]

LEMMA NextIsCalled ==
  ASSUME PipelineInv, calls # <<>>
  PROVE  Head(calls) = Done + 1 /\ Done + 1 \in Fills /\ Done + 1 <= Len(made)
<1>0. /\ Len(made) \in Nat /\ Len(unsent) \in Nat /\ Len(fill_queue) \in Nat
      /\ Len(batch) \in Nat /\ Len(calls) \in Nat /\ Done \in Nat
      /\ Done + Len(calls) + Len(batch) + Len(fill_queue) + Len(unsent) = Len(made)
      /\ \A k \in 1..Len(made) : k \in Fills
  BY Lengths
<1>1. calls \in Seq(Nat) /\ Consecutive(calls, Done)
  BY DEF PipelineInv, QueuesTyped, Numbered
<1>2. Head(calls) = Done + 1
  BY <1>0, <1>1, ConsecutiveTail
<1>3. Len(calls) # 0
  BY <1>1, HeadTyped
<1>4. Done + 1 \in 1..Len(made)
  BY <1>0, <1>3
<1> QED
  BY <1>0, <1>2, <1>4

\* The numbers below Done are those of the fills that are not open.
LEMMA OpenTellsDone ==
  ASSUME NEW d \in 0..MaxArrivals, NEW e \in 0..MaxArrivals,
         \A k \in Fills : k > d <=> k > e
  PROVE  d = e
<1>1. ASSUME NEW x \in 0..MaxArrivals, NEW y \in 0..MaxArrivals, x < y,
             \A k \in Fills : k > x <=> k > y
      PROVE  FALSE
  <2>1. y \in Fills /\ y > x /\ ~(y > y)
    BY <1>1, BoundAssumption DEF Fills
  <2> QED
    BY <1>1, <2>1
<1>2. d < e \/ e < d \/ d = e
  BY BoundAssumption
<1> QED
  BY <1>1, <1>2

LEMMA WhatIsDone ==
  ASSUME NEW m \in Nat, NEW u \in Nat, NEW f \in Nat, NEW b \in Nat, NEW c \in Nat,
         m - u - f - b - c \in Nat, m <= MaxArrivals
  PROVE  m - u - f - b - c \in 0..MaxArrivals
  BY BoundAssumption

LEMMA ResolvedTellsDone ==
  ASSUME PipelineInv, PipelineInv', resolved' = resolved
  PROVE  Done' = Done
<1>1. Done \in 0..MaxArrivals
  <2>1. /\ Len(made) \in Nat /\ Len(unsent) \in Nat /\ Len(fill_queue) \in Nat
        /\ Len(batch) \in Nat /\ Len(calls) \in Nat
    BY DEF PipelineInv, QueuesTyped
  <2>2. Len(made) <= MaxArrivals /\ Done \in Nat
    BY DEF PipelineInv, Numbered
  <2> QED
    BY <2>1, <2>2, WhatIsDone DEF Done
<1>2. Done' \in 0..MaxArrivals
  <2>1. /\ Len(made') \in Nat /\ Len(unsent') \in Nat /\ Len(fill_queue') \in Nat
        /\ Len(batch') \in Nat /\ Len(calls') \in Nat
    BY DEF PipelineInv, QueuesTyped
  <2>2. Len(made') <= MaxArrivals /\ Done' \in Nat
    BY DEF PipelineInv, Numbered
  <2> QED
    BY <2>1, <2>2, WhatIsDone DEF Done
<1>3. \A k \in Fills : k > Done <=> k > Done'
  BY DEF PipelineInv, OpenAfterDone
<1> QED
  BY <1>1, <1>2, <1>3, OpenTellsDone

\* Without a signer, a flush is the end of its fills.
LEMMA FlushSendsAll ==
  ASSUME PipelineInv, PipelineInv', settler = "collecting", calls = <<>>,
         UNCHANGED <<mempool, applied>>,
         NEW q \in Seq(Nat), Len(q) # 0, Consecutive(q, Done), FlushTo(q),
         fill_queue' \in Seq(Nat), Consecutive(fill_queue', Done + Len(q)),
         Len(q) + Len(fill_queue') = Len(batch) + Len(fill_queue)
  PROVE  SendRests \/ Skips
<1>0. Done \in Nat /\ Len(q) \in Nat /\ Len(calls) = 0
  BY DEF PipelineInv, Numbered
<1>1. CASE signer /\ settler' = "sending" /\ resolved' = resolved
  <2>1. Done' = Done
    BY <1>1, ResolvedTellsDone
  <2>2. UNCHANGED <<mempool, applied, resolved>>
    BY <1>1
  <2>3. settler' = "waiting" <=> settler = "waiting"
    BY <1>1
  <2> QED
    BY <1>1, <2>1, <2>2, <2>3 DEF SendRests
<1>2. CASE /\ ~signer /\ UNCHANGED <<calls, settler>>
           /\ resolved' = [k \in Fills |-> IF k \in ToSet(q) THEN "skipped" ELSE resolved[k]]
  <2>1. Len(calls') # Len(q)
    BY <1>0, <1>2
  <2>2. Done' = Done + Len(q)
    BY <2>1, FlushFacts
  <2>3. ToSet(q) = (Done + 1)..Done'
    BY <1>0, <2>2, ConsecutiveSet
  <2>4. Done' > Done
    <3>1. PICK d \in Nat : d = Done
      BY <1>0
    <3> QED
      BY <1>0, <2>2, <3>1
  <2>5. resolved' = [k \in Fills |-> IF k \in (Done + 1)..Done' THEN "skipped" ELSE resolved[k]]
    BY <1>2, <2>3
  <2>6. UNCHANGED <<mempool, applied, settler, calls>> /\ settler # "waiting"
    BY <1>2
  <2> QED
    BY <1>2, <2>4, <2>5, <2>6 DEF Skips
<1> QED
  BY <1>1, <1>2 DEF FlushTo

LEMMA FlushSends ==
  ASSUME PipelineInv, PipelineInv', ReceiveFill \/ FlushInterval
  PROVE  SendRests \/ Skips
<1>0. /\ TasksTakeTurns /\ QueuesTyped /\ Done \in Nat /\ Len(calls) \in Nat
      /\ Len(batch) \in Nat /\ Len(fill_queue) \in Nat /\ Numbered
  BY Lengths DEF PipelineInv
<1>1. settler = "collecting" /\ calls = <<>> /\ UNCHANGED <<mempool, applied>>
  BY <1>0, Flushes DEF ReceiveFill, FlushInterval, chainVars
<1>2. Len(calls) = 0
  BY <1>1
<1>3. CASE batch # <<>> /\ fill_queue' = fill_queue /\ FlushTo(batch)
  <2>1. Done + Len(calls) = Done /\ Done + Len(calls) + Len(batch) = Done + Len(batch)
    BY <1>0, <1>2
  <2>2. Consecutive(batch, Done) /\ Consecutive(fill_queue, Done + Len(batch))
    BY <1>0, <2>1 DEF Numbered
  <2>3. batch \in Seq(Nat) /\ fill_queue' \in Seq(Nat)
    BY <1>0, <1>3 DEF QueuesTyped
  <2>4. Len(batch) # 0
    BY <1>3, <2>3
  <2>5. /\ Consecutive(fill_queue', Done + Len(batch))
        /\ Len(batch) + Len(fill_queue') = Len(batch) + Len(fill_queue)
    BY <1>3, <2>2
  <2>6. FlushTo(batch)
    BY <1>3
  <2> QED
    BY <1>1, <2>2, <2>3, <2>4, <2>5, <2>6, FlushSendsAll
<1>4. CASE /\ fill_queue # <<>> /\ fill_queue' = Tail(fill_queue)
           /\ FlushTo(Append(batch, Head(fill_queue)))
  <2> DEFINE q == Append(batch, Head(fill_queue))
  <2>1. /\ q \in Seq(Nat) /\ Len(q) = Len(batch) + 1 /\ Consecutive(q, Done)
        /\ fill_queue' \in Seq(Nat) /\ Len(fill_queue') = Len(fill_queue) - 1
        /\ Consecutive(fill_queue', Done + (Len(batch) + 1))
    BY <1>1, <1>4, TakenIsNext
  <2>2. FlushTo(q)
    BY <1>4
  <2> HIDE DEF q
  <2>3. Len(q) + Len(fill_queue') = Len(batch) + Len(fill_queue) /\ Len(q) # 0
    BY <1>0, <2>1
  <2>4. Consecutive(fill_queue', Done + Len(q))
    BY <2>1
  <2> QED
    BY <1>1, <2>1, <2>2, <2>3, <2>4, FlushSendsAll
<1>5. CASE UNCHANGED <<calls, resolved, settler>>
  <2>1. Done' = Done
    BY <1>5, ResolvedTellsDone
  <2>2. UNCHANGED <<mempool, applied, resolved, settler, calls>>
    BY <1>1, <1>5
  <2> QED
    BY <2>1, <2>2 DEF SendRests
<1> QED
  BY <1>0, <1>3, <1>4, <1>5, Flushes

LEMMA SendMoves ==
  ASSUME PipelineInv, PipelineInv', CallsTyped, [DaemonNext]_allVars
  PROVE  /\ signer' = signer
         /\ \/ SendRests \/ Sends \/ (Includes /\ Include) \/ Fails \/ Confirms \/ Skips
<1>0. /\ TasksTakeTurns /\ QueuesTyped /\ Done \in Nat
      /\ Len(batch) \in Nat /\ Len(fill_queue) \in Nat
  BY Lengths DEF PipelineInv
<1>2. CASE PlaceOrder \/ CancelOnChain \/ TakePlaced \/ TakeCancelled \/ Match \/ CountFill
           \/ UNCHANGED allVars
  <2>1. UNCHANGED <<made, unsent, fill_queue, batch, calls, mempool, applied, resolved,
                    settler, signer>>
    BY <1>2 DEF PlaceOrder, CancelOnChain, TakePlaced, TakeCancelled, Match, CountFill,
              allVars, daemonVars, chainVars, runnerVars, settlerVars
  <2>2. Done' = Done
    BY <2>1, ResolvedTellsDone
  <2>3. SendRests
    BY <2>1, <2>2 DEF SendRests
  <2> QED
    BY <2>1, <2>3
<1>3. CASE EndMatch \/ SendFill
  <2>1. UNCHANGED <<calls, mempool, applied, resolved, settler, signer>>
    BY <1>3 DEF EndMatch, SendFill, chainVars, settlerVars
  <2>2. Done' = Done
    BY <2>1, ResolvedTellsDone
  <2>3. SendRests
    BY <2>1, <2>2 DEF SendRests
  <2> QED
    BY <2>1, <2>3
<1>4. CASE ReceiveFill \/ FlushInterval
  <2>1. signer' = signer
    BY <1>4 DEF ReceiveFill, FlushInterval
  <2> QED
    BY <1>4, <2>1, FlushSends
<1>5. CASE SendSucceeds
  <2>1. /\ settler = "sending" /\ mempool' = Append(mempool, Head(calls)) /\ settler' = "waiting"
        /\ UNCHANGED <<made, unsent, fill_queue, batch, calls, applied, resolved, signer>>
    BY <1>5 DEF SendSucceeds, runnerVars
  <2>2. calls # <<>>
    BY <1>0, <2>1 DEF TasksTakeTurns
  <2>4. Done' = Done /\ Head(calls) = Done + 1
    BY <2>1, <2>2, ResolvedTellsDone, NextIsCalled
  <2>3. Sends
    BY <2>1, <2>2, <2>4 DEF Sends
  <2> QED
    BY <2>1, <2>3
<1>6. CASE Include
  <2>1. /\ mempool # <<>> /\ mempool' = Tail(mempool)
        /\ UNCHANGED <<made, unsent, fill_queue, batch, calls, resolved, settler, signer>>
        /\ \/ UNCHANGED <<market, applied>>
           \/ /\ Acceptable(made[Head(mempool)])
              /\ applied' = [applied EXCEPT ![Head(mempool)] = @ + 1]
    BY <1>6 DEF Include, runnerVars, settlerVars
  <2>3. Done' = Done
    BY <2>1, ResolvedTellsDone
  <2>2. Includes
    BY <2>1, <2>3 DEF Includes, Acceptable
  <2> QED
    BY <1>6, <2>1, <2>2
<1>7. ASSUME NEW r \in {"failed", "confirmed"}, CallEnds(r)
      PROVE  calls # <<>> /\ Ended(r) /\ settler' # "waiting" /\ signer' = signer
  <2>1. /\ calls # <<>> /\ resolved' = [resolved EXCEPT ![Head(calls)] = r]
        /\ settler' # "waiting" /\ signer' = signer
    BY <1>7 DEF CallEnds
  <2>2. Head(calls) = Done + 1
    BY <2>1, NextIsCalled
  <2>3. Done' = Done + 1
    BY <1>7, CallEndsFacts
  <2> QED
    BY <2>1, <2>2, <2>3 DEF Ended
<1>8. CASE ReceiptArrives
  <2>1. /\ mempool = <<>> /\ settler = "waiting"
        /\ UNCHANGED <<made, unsent, counted, fill_queue, batch, pc, signer, match_paused,
                       mempool, applied>>
    BY <1>8 DEF ReceiptArrives, vars, chainVars, runnerVars
  <2>2. CallEnds("confirmed")
    BY <1>0, <1>8, <2>1 DEF ReceiptArrives, CallSucceeds, NextCall, CallEnds, TasksTakeTurns
  <2> QED
    BY <1>7, <2>1, <2>2 DEF Confirms
<1>9. ASSUME CallFails, settler \in {"sending", "waiting"},
             UNCHANGED <<made, unsent, counted, fill_queue, batch, pc, signer>>
      PROVE  CallEnds("failed")
  BY <1>0, <1>9 DEF CallFails, NextCall, CallEnds, TasksTakeTurns
<1>10. CASE GasPriceFails \/ ReceiptFails
  <2>1. /\ CallFails /\ settler \in {"sending", "waiting"}
        /\ UNCHANGED <<made, unsent, counted, fill_queue, batch, pc, signer, mempool, applied>>
    BY <1>10 DEF GasPriceFails, ReceiptFails, engineRest, chainVars, runnerVars
  <2> QED
    BY <1>7, <1>9, <2>1 DEF Fails
<1>11. CASE SendFails
  <2>1. /\ settler = "sending" /\ mempool' \in {mempool, Append(mempool, Head(calls))}
        /\ UNCHANGED <<made, unsent, counted, fill_queue, batch, pc, signer, applied>>
        /\ CallFails \/ UNCHANGED <<calls, settler, resolved>>
    BY <1>11 DEF SendFails, engineRest, runnerVars
  <2>2. calls # <<>> /\ Head(calls) = Done + 1
    BY <1>0, <2>1, NextIsCalled DEF TasksTakeTurns
  <2>3. CASE CallFails
    BY <1>7, <1>9, <1>11, <2>1, <2>2, <2>3 DEF Fails
  <2>4. CASE UNCHANGED <<calls, settler, resolved>>
    <3>1. Done' = Done
      BY <2>4, ResolvedTellsDone
    <3>4. signer' = signer /\ UNCHANGED <<applied, resolved, calls, settler>>
      BY <2>1, <2>4
    <3>2. CASE mempool' = mempool
      <4>1. SendRests
        BY <2>2, <3>1, <3>2, <3>4 DEF SendRests
      <4> QED
        BY <3>4, <4>1
    <3>3. CASE mempool' = Append(mempool, Done + 1)
      <4>1. Sends
        BY <1>11, <2>1, <2>2, <3>1, <3>3, <3>4 DEF Sends
      <4> QED
        BY <3>4, <4>1
    <3> QED
      BY <2>1, <2>2, <3>2, <3>3
  <2> QED
    BY <2>1, <2>3, <2>4
<1> QED
  BY <1>2, <1>3, <1>4, <1>5, <1>6, <1>8, <1>10, <1>11 DEF DaemonNext, RunnerStep, SettlerStep

\* Transactions up to the fill d, in the order of the fills, and before them what was
\* executed.
InTurnUpTo(q, a, d) ==
  /\ \A i \in 1..Len(q) : q[i] <= d
  /\ \A i, j \in 1..Len(q) : i < j => q[i] <= q[j]
  /\ \A k \in Fills : a[k] > 0 => k <= d /\ \A i \in 1..Len(q) : k <= q[i]
Retriable == \A i \in 1..Len(mempool) : resolved[mempool[i]] \in {"open", "failed"}
NothingUnsigned ==
  ~signer => mempool = <<>> /\ calls = <<>> /\ \A k \in Fills : applied[k] = 0
SentInTurn == InTurnUpTo(mempool, applied, Done + 1) /\ Retriable /\ NothingUnsigned

LEMMA AppendEntries ==
  ASSUME NEW q \in Seq(Nat), NEW x \in Nat
  PROVE  /\ Append(q, x) \in Seq(Nat) /\ Len(Append(q, x)) = Len(q) + 1 /\ Len(q) \in Nat
         /\ \A i \in 1..Len(Append(q, x)) :
              \/ i \in 1..Len(q) /\ Append(q, x)[i] = q[i]
              \/ i = Len(q) + 1 /\ Append(q, x)[i] = x
  OBVIOUS

LEMMA TailEntriesMove ==
  ASSUME NEW q \in Seq(Nat), q # <<>>
  PROVE  /\ Tail(q) \in Seq(Nat) /\ Len(q) \in Nat \ {0} /\ Head(q) = q[1] /\ 1 \in 1..Len(q)
         /\ \A i \in 1..Len(Tail(q)) : i + 1 \in 1..Len(q) /\ Tail(q)[i] = q[i + 1]
<1>1. /\ Tail(q) \in Seq(Nat) /\ Len(q) \in Nat \ {0} /\ Head(q) = q[1]
      /\ Len(Tail(q)) = Len(q) - 1
  BY HeadTyped
<1>2. \A i \in 1..(Len(q) - 1) : Tail(q)[i] = q[i + 1]
  OBVIOUS
<1>3. 1 \in 1..Len(q) /\ \A i \in 1..(Len(q) - 1) : i + 1 \in 1..Len(q)
  BY <1>1
<1> QED
  BY <1>1, <1>2, <1>3

LEMMA TurnAppend ==
  ASSUME NEW q \in Seq(Nat), NEW a, NEW d \in Nat, InTurnUpTo(q, a, d)
  PROVE  InTurnUpTo(Append(q, d), a, d)
<1> DEFINE p == Append(q, d)
<1>1. /\ Len(p) = Len(q) + 1 /\ Len(q) \in Nat
      /\ \A i \in 1..Len(p) : \/ i \in 1..Len(q) /\ p[i] = q[i]
                              \/ i = Len(q) + 1 /\ p[i] = d
  BY AppendEntries
<1> HIDE DEF p
<1>2. ASSUME NEW i \in 1..Len(p) PROVE p[i] <= d
  BY <1>1 DEF InTurnUpTo
<1>3. ASSUME NEW i \in 1..Len(p), NEW j \in 1..Len(p), i < j PROVE p[i] <= p[j]
  <2>1. i \in 1..Len(q) /\ p[i] = q[i]
    BY <1>1, <1>3
  <2>2. CASE j \in 1..Len(q) /\ p[j] = q[j]
    BY <1>3, <2>1, <2>2 DEF InTurnUpTo
  <2>3. CASE p[j] = d
    BY <1>2, <2>3
  <2> QED
    BY <1>1, <2>2, <2>3
<1>4. ASSUME NEW k \in Fills, a[k] > 0 PROVE k <= d /\ \A i \in 1..Len(p) : k <= p[i]
  BY <1>1, <1>4 DEF InTurnUpTo
<1> QED
  BY <1>2, <1>3, <1>4 DEF InTurnUpTo, p

LEMMA TurnTail ==
  ASSUME NEW q \in Seq(Nat), q # <<>>, Head(q) \in Fills, NEW d \in Nat,
         NEW a \in [Fills -> Nat], InTurnUpTo(q, a, d),
         NEW b \in [Fills -> Nat], \A k \in Fills : k # Head(q) => b[k] = a[k]
  PROVE  InTurnUpTo(Tail(q), b, d)
<1> DEFINE p == Tail(q)
<1>1. /\ Len(q) \in Nat \ {0} /\ Head(q) = q[1] /\ 1 \in 1..Len(q)
      /\ \A i \in 1..Len(p) : i + 1 \in 1..Len(q) /\ p[i] = q[i + 1]
  BY TailEntriesMove
<1> HIDE DEF p
<1>2. ASSUME NEW i \in 1..Len(p) PROVE p[i] <= d
  BY <1>1 DEF InTurnUpTo
<1>3. ASSUME NEW i \in 1..Len(p), NEW j \in 1..Len(p), i < j PROVE p[i] <= p[j]
  <2>1. i + 1 < j + 1
    BY <1>3
  <2> QED
    BY <1>1, <2>1 DEF InTurnUpTo
<1>4. ASSUME NEW k \in Fills, b[k] > 0 PROVE k <= d /\ \A i \in 1..Len(p) : k <= p[i]
  <2>1. CASE k = Head(q)
    <3>1. k <= d
      BY <1>1, <2>1 DEF InTurnUpTo
    <3>2. ASSUME NEW i \in 1..Len(p) PROVE k <= p[i]
      <4>1. 1 < i + 1
        OBVIOUS
      <4> QED
        BY <1>1, <2>1, <4>1 DEF InTurnUpTo
    <3> QED
      BY <3>1, <3>2
  <2>2. CASE k # Head(q)
    <3>1. a[k] > 0
      BY <1>4, <2>2
    <3>2. k <= d /\ \A i \in 1..Len(q) : k <= q[i]
      BY <3>1 DEF InTurnUpTo
    <3> QED
      BY <1>1, <3>2
  <2> QED
    BY <2>1, <2>2
<1> QED
  BY <1>2, <1>3, <1>4 DEF InTurnUpTo, p

LEMMA TurnLater ==
  ASSUME NEW q \in Seq(Nat), NEW a, NEW d \in Nat, NEW e \in Nat, d <= e, InTurnUpTo(q, a, d)
  PROVE  InTurnUpTo(q, a, e)
<1>1. \A i \in 1..Len(q) : q[i] \in Nat
  OBVIOUS
<1>2. \A k \in Fills : k \in Nat
  BY DEF Fills
<1>3. \A i \in 1..Len(q) : q[i] <= e
  BY <1>1 DEF InTurnUpTo
<1>4. ASSUME NEW k \in Fills, a[k] > 0 PROVE k <= e
  <2>1. k <= d
    BY <1>4 DEF InTurnUpTo
  <2> QED
    BY <1>2, <2>1
<1> QED
  BY <1>3, <1>4 DEF InTurnUpTo

LEMMA SentFacts ==
  ASSUME DaemonInv
  PROVE  /\ mempool \in Seq(Nat) /\ applied \in [Fills -> Nat]
         /\ resolved \in [Fills -> {"open", "skipped", "confirmed", "failed"}]
         /\ \A i \in 1..Len(mempool) : mempool[i] \in Fills
         /\ mempool # <<>> => Head(mempool) \in Fills /\ Head(mempool) \in 1..Len(made)
         /\ Done \in Nat /\ \A k \in Fills : resolved[k] = "open" <=> k > Done
         /\ calls # <<>> => Done + 1 \in Fills
<1>1. PipelineInv /\ ChainTyped
  BY DEF DaemonInv
<1>2. /\ mempool \in Seq(Nat) /\ applied \in [Fills -> Nat]
      /\ \A i \in 1..Len(mempool) : mempool[i] \in 1..Len(made)
  BY <1>1 DEF ChainTyped
<1>3. Done \in Nat /\ \A k \in 1..Len(made) : k \in Fills
  BY <1>1, Lengths
<1>4. /\ resolved \in [Fills -> {"open", "skipped", "confirmed", "failed"}]
      /\ \A k \in Fills : resolved[k] = "open" <=> k > Done
  BY <1>1 DEF PipelineInv, QueuesTyped, OpenAfterDone
<1>5. mempool # <<>> => Head(mempool) \in 1..Len(made)
  BY <1>2, TailEntriesMove
<1>6. calls # <<>> => Done + 1 \in Fills
  BY <1>1, NextIsCalled
<1> QED
  BY <1>2, <1>3, <1>4, <1>5, <1>6

LEMMA SentFactsNext ==
  ASSUME DaemonInv'
  PROVE  applied' \in [Fills -> Nat] /\ Done' \in Nat
<1>1. PipelineInv' /\ ChainTyped'
  BY DEF DaemonInv
<1> QED
  BY <1>1 DEF ChainTyped, PipelineInv, Numbered

LEMMA DaemonSendMoves ==
  ASSUME DaemonInv, DaemonInv', [DaemonNext]_allVars
  PROVE  /\ signer' = signer
         /\ \/ SendRests \/ Sends \/ (Includes /\ Include) \/ Fails \/ Confirms \/ Skips
<1>1. PipelineInv /\ PipelineInv' /\ CallsTyped
  BY DEF DaemonInv, EngineInv, IInv, TypeOK
<1> QED
  BY <1>1, SendMoves

LEMMA NextGrows ==
  ASSUME NEW x \in Nat, NEW y \in Nat, y > x
  PROVE  x + 1 <= y + 1 /\ y + 1 \in Nat
  OBVIOUS

LEMMA SentStep ==
  ASSUME DaemonInv, DaemonInv', SentInTurn, [DaemonNext]_allVars
  PROVE  SentInTurn'
<1> DEFINE d == Done + 1
<1>1. /\ mempool \in Seq(Nat) /\ applied \in [Fills -> Nat] /\ applied' \in [Fills -> Nat]
      /\ resolved \in [Fills -> {"open", "skipped", "confirmed", "failed"}]
      /\ \A i \in 1..Len(mempool) : mempool[i] \in Fills
      /\ mempool # <<>> => Head(mempool) \in Fills
      /\ Done \in Nat /\ \A k \in Fills : resolved[k] = "open" <=> k > Done
      /\ calls # <<>> => d \in Fills
      /\ Done' \in Nat
  BY SentFacts, SentFactsNext
<1>2. d \in Nat /\ d > Done
  BY <1>1
<1>3. InTurnUpTo(mempool, applied, d) /\ Retriable /\ NothingUnsigned /\ signer' = signer
  BY DaemonSendMoves DEF SentInTurn
<1>4. SentInTurn' <=> InTurnUpTo(mempool', applied', Done' + 1) /\ Retriable' /\ NothingUnsigned'
  BY DEF SentInTurn
<1> HIDE DEF d
<1>5. CASE SendRests
  <2>1. UNCHANGED <<mempool, applied, resolved>> /\ Done' + 1 = d
    BY <1>5 DEF SendRests, d
  <2>2. InTurnUpTo(mempool', applied', Done' + 1) /\ Retriable'
    BY <1>3, <2>1 DEF Retriable
  <2>3. NothingUnsigned'
    BY <1>3, <1>5 DEF SendRests, NothingUnsigned
  <2> QED
    BY <1>4, <2>2, <2>3
<1>6. ASSUME calls # <<>> \/ mempool # <<>> PROVE signer /\ NothingUnsigned'
  BY <1>3, <1>6 DEF NothingUnsigned
<1>7. ASSUME calls # <<>>, mempool' = Append(mempool, d), resolved'[d] \in {"open", "failed"},
             \A k \in Fills : k # d => resolved'[k] = resolved[k]
      PROVE  Retriable'
  <2>1. \A i \in 1..Len(mempool') : \/ i \in 1..Len(mempool) /\ mempool'[i] = mempool[i]
                                    \/ mempool'[i] = d
    BY <1>1, <1>2, <1>7, AppendEntries
  <2> SUFFICES ASSUME NEW i \in 1..Len(mempool')
               PROVE  resolved'[mempool'[i]] \in {"open", "failed"}
    BY DEF Retriable
  <2>2. CASE mempool'[i] = d
    BY <1>7, <2>2
  <2>3. CASE mempool'[i] # d
    <3>1. i \in 1..Len(mempool) /\ mempool'[i] = mempool[i]
      BY <2>1, <2>3
    <3>2. mempool[i] \in Fills
      BY <1>1, <3>1
    <3>3. resolved[mempool[i]] \in {"open", "failed"}
      BY <1>3, <3>1 DEF Retriable
    <3>4. resolved'[mempool[i]] = resolved[mempool[i]]
      BY <1>7, <2>3, <3>1, <3>2
    <3> QED
      BY <3>1, <3>3, <3>4
  <2> QED
    BY <2>2, <2>3
<1>8. CASE Sends
  <2>1. /\ calls # <<>> /\ mempool' = Append(mempool, d)
        /\ UNCHANGED <<applied, resolved>> /\ Done' + 1 = d
    BY <1>8 DEF Sends, d
  <2>2. InTurnUpTo(mempool', applied', Done' + 1)
    BY <1>1, <1>2, <1>3, <2>1, TurnAppend
  <2>3. resolved[d] = "open"
    BY <1>1, <1>2, <2>1
  <2>4. Retriable'
    BY <1>7, <2>1, <2>3
  <2> QED
    BY <1>4, <1>6, <2>1, <2>2, <2>4
<1>9. CASE Includes
  <2>1. /\ mempool # <<>> /\ mempool' = Tail(mempool) /\ resolved' = resolved /\ Done' + 1 = d
        /\ applied' = applied \/ applied' = [applied EXCEPT ![Head(mempool)] = @ + 1]
    BY <1>9 DEF Includes, d
  <2>2. \A k \in Fills : k # Head(mempool) => applied'[k] = applied[k]
    BY <1>1, <2>1
  <2>3. InTurnUpTo(mempool', applied', Done' + 1)
    BY <1>1, <1>2, <1>3, <2>1, <2>2, TurnTail
  <2>4. Retriable'
    <3>1. \A i \in 1..Len(mempool') : i + 1 \in 1..Len(mempool) /\ mempool'[i] = mempool[i + 1]
      BY <1>1, <2>1, TailEntriesMove
    <3> QED
      BY <1>3, <2>1, <3>1 DEF Retriable
  <2> QED
    BY <1>4, <1>6, <2>1, <2>3, <2>4
<1>10. CASE Fails
  <2>1. /\ calls # <<>> /\ resolved' = [resolved EXCEPT ![d] = "failed"] /\ Done' = d
        /\ applied' = applied
        /\ mempool' = mempool \/ mempool' = Append(mempool, d)
    BY <1>10 DEF Fails, Ended, d
  <2>2. /\ resolved'[d] = "failed" /\ \A k \in Fills : k # d => resolved'[k] = resolved[k]
    BY <1>1, <2>1
  <2>3. d <= Done' + 1 /\ Done' + 1 \in Nat
    BY <1>2, <2>1
  <2>4. CASE mempool' = mempool
    <3>1. InTurnUpTo(mempool', applied', Done' + 1)
      BY <1>1, <1>2, <1>3, <2>1, <2>3, <2>4, TurnLater
    <3>2. Retriable'
      BY <1>1, <1>3, <2>2, <2>4 DEF Retriable
    <3> QED
      BY <1>4, <1>6, <2>1, <3>1, <3>2
  <2>5. CASE mempool' = Append(mempool, d)
    <3>1. InTurnUpTo(mempool', applied, d) /\ mempool' \in Seq(Nat)
      BY <1>1, <1>2, <1>3, <2>5, TurnAppend, AppendEntries
    <3>2. InTurnUpTo(mempool', applied', Done' + 1)
      BY <1>2, <2>1, <2>3, <3>1, TurnLater
    <3>3. Retriable'
      BY <1>7, <2>1, <2>2, <2>5
    <3> QED
      BY <1>4, <1>6, <2>1, <3>2, <3>3
  <2> QED
    BY <2>1, <2>4, <2>5
<1>11. ASSUME UNCHANGED <<mempool, applied>>, mempool = <<>>, Done' > Done
       PROVE  InTurnUpTo(mempool', applied', Done' + 1) /\ Retriable'
  <2>1. d <= Done' + 1 /\ Done' + 1 \in Nat
    BY <1>1, <1>11, NextGrows DEF d
  <2>2. Retriable'
    BY <1>11 DEF Retriable
  <2> QED
    BY <1>1, <1>2, <1>3, <1>11, <2>1, <2>2, TurnLater
<1>12. CASE Confirms
  <2>1. UNCHANGED <<mempool, applied>> /\ mempool = <<>> /\ calls # <<>> /\ Done' = d
    BY <1>12 DEF Confirms, Ended, d
  <2> QED
    BY <1>2, <1>4, <1>6, <1>11, <2>1
<1>13. CASE Skips
  <2>1. UNCHANGED <<mempool, applied, calls>> /\ Done' > Done /\ ~signer
    BY <1>13 DEF Skips
  <2>2. mempool = <<>> /\ NothingUnsigned'
    BY <1>3, <2>1 DEF NothingUnsigned
  <2> QED
    BY <1>4, <1>11, <2>1, <2>2
<1> QED
  BY <1>5, <1>8, <1>9, <1>10, <1>12, <1>13, DaemonSendMoves

LEMMA SentStarts == DaemonInit => SentInTurn
<1> SUFFICES ASSUME DaemonInit PROVE SentInTurn
  OBVIOUS
<1>1. mempool = <<>> /\ calls = <<>> /\ \A k \in Fills : applied[k] = 0
  BY DEF DaemonInit
<1>2. InTurnUpTo(mempool, applied, Done + 1)
  BY <1>1 DEF InTurnUpTo
<1> QED
  BY <1>1, <1>2 DEF SentInTurn, Retriable, NothingUnsigned

\* Transactions are sent and included in the order of the fills, none of them of a fill
\* that is confirmed, skipped or still to come, and nothing that is executed comes after
\* one in the mempool (settler.rs:161): without a signer there are none.
THEOREM SettlementsInTurn == DaemonSpec => []SentInTurn
<1>1. DaemonInv /\ DaemonInv' /\ SentInTurn /\ [DaemonNext]_allVars => SentInTurn'
  BY SentStep
<1> QED
  BY <1>1, SentStarts, DaemonInductive, PTL DEF DaemonSpec

-----------------------------------------------------------------------------
(***************************************************************************)
(* No order is filled for more than it was placed with, counted over all   *)
(* fills that there were: CoverInv says so of the orders that are in play. *)
(***************************************************************************)
NotOverfilled ==
  \A id \in DOMAIN market : Volume(AllFills, id, Len(AllFills)) <= market[id].order.remaining

LEMMA FillStaysWithin ==
  ASSUME DaemonInv, CoverInv, NotOverfilled, MakesFill
  PROVE  NotOverfilled'
<1>1. /\ EngineBalanced /\ OrdersKnown /\ AllFills \in Seq(Fill) /\ Len(AllFills) \in Nat
      /\ market' = market
  BY AllFillsFacts DEF CoverInv, Balanced, OrdersOfChain, MakesFill, ChainRests
<1> DEFINE in == incoming[Runner]
           n == Len(AllFills)
<1>2. PICK mo, qty, f : OneFill(Runner, in, mo, qty, f) /\ AllFills' = Append(AllFills, f)
  BY DEF MakesFill
<1>3. /\ mo.order_id \in DOMAIN books[in.company_id].orders
      /\ mo = books[in.company_id].orders[mo.order_id]
      /\ qty \in Nat \ {0} /\ f \in Fill /\ f.vstk_amount = qty
      /\ qty <= in.remaining /\ qty <= mo.remaining
      /\ in.remaining \in Nat /\ mo.remaining \in Nat /\ in.company_id \in Companies
      /\ f.maker_order_id = mo.order_id /\ f.taker_order_id = in.order_id
      /\ pc[Runner] = "matching"
  BY <1>2 DEF OneFill, OrderRecord
<1>4. Volume(AllFills, in.order_id, n) + in.remaining = market[in.order_id].order.remaining
  BY <1>1, <1>3 DEF EngineBalanced
<1>5. Volume(AllFills, mo.order_id, n) + mo.remaining = market[mo.order_id].order.remaining
  BY <1>1, <1>3 DEF EngineBalanced
<1>6. Len(AllFills') = n + 1
  BY <1>1, <1>2, <1>3
<1> HIDE DEF in, n
<1> SUFFICES ASSUME NEW id \in DOMAIN market
             PROVE  Volume(AllFills', id, n + 1) <= market[id].order.remaining
  BY <1>1, <1>6 DEF NotOverfilled
<1> DEFINE v == Volume(AllFills, id, n)
<1>7. Volume(AllFills', id, n + 1) = v + Share(f, id)
  BY <1>1, <1>2, <1>3, VolumeAppend DEF n
<1>8. v \in Int /\ v <= market[id].order.remaining /\ market[id].order.remaining \in Nat
  <2>1. n \in 0..n
    BY <1>1 DEF n
  <2>2. v \in Int
    BY <1>1, <2>1, VolumeType DEF n
  <2>3. v <= market[id].order.remaining
    BY DEF NotOverfilled, n
  <2> QED
    BY <2>2, <2>3, CoverFacts
<1> HIDE DEF v
<1>9. CASE id = in.order_id \/ id = mo.order_id
  <2>1. Share(f, id) = qty
    BY <1>3, <1>9 DEF Share, Party
  <2>2. v + in.remaining = market[id].order.remaining
          \/ v + mo.remaining = market[id].order.remaining
    BY <1>4, <1>5, <1>9 DEF v
  <2>3. v + qty <= market[id].order.remaining
    BY <1>3, <1>8, <2>2
  <2> QED
    BY <1>7, <2>1, <2>3
<1>10. CASE ~(id = in.order_id \/ id = mo.order_id)
  <2>1. Share(f, id) = 0
    BY <1>3, <1>10 DEF Share, Party
  <2> QED
    BY <1>7, <1>8, <2>1
<1> QED
  BY <1>9, <1>10

\* An order that no fill names has nothing taken from it.
LEMMA UnnamedNotFilled ==
  ASSUME NEW q \in Seq(Fill), NEW id, \A k \in 1..Len(q) : ~Party(id, q[k]), NEW r \in Nat
  PROVE  Volume(q, id, Len(q)) <= r
<1>1. Volume(q, id, Len(q)) = 0
  BY NoVolume
<1> QED
  BY <1>1

LEMMA NotOverfilledKept ==
  ASSUME DaemonInv, CoverInv, NotOverfilled, [DaemonNext]_allVars
  PROVE  NotOverfilled'
<1>1. /\ ChainTyped /\ FillsKnown /\ made \in Seq(Fill) /\ EntersOnce
      /\ OrdersPlaced \in Nat
  BY DEF DaemonInv, CoverInv, OrdersOfChain, OrdersOnce, PipelineInv, ChainTyped
<1>2. CASE PlaceOrder /\ EngineRests
  <2>1. AllFills' = AllFills
    BY <1>2 DEF EngineRests
  <2>2. PICK r \in Requests :
           LET n == OrdersPlaced + 1 IN
           /\ DOMAIN market = 1..OrdersPlaced /\ DOMAIN market' = 1..n
           /\ \A id \in 1..OrdersPlaced : market'[id] = market[id]
           /\ market'[n] = [order |-> r, remaining |-> r.remaining, active |-> TRUE]
    BY <1>1, <1>2, PlaceFacts
  <2>3. \A id \in DOMAIN market' :
          \/ id \in DOMAIN market /\ market'[id] = market[id]
          \/ id = OrdersPlaced + 1
    BY <1>1, <2>2
  <2>4. OrdersPlaced + 1 \notin DOMAIN market
    BY <1>1, <2>2
  <2>5. \A k \in 1..Len(AllFills) : ~Party(OrdersPlaced + 1, AllFills[k])
    BY <1>1, <2>4 DEF FillsKnown
  <2>6. market'[OrdersPlaced + 1].order.remaining \in Nat
    BY <2>2, RequestFacts
  <2>7. Volume(AllFills, OrdersPlaced + 1, Len(AllFills))
          <= market'[OrdersPlaced + 1].order.remaining
    BY AllFillsFacts, <2>5, <2>6, UnnamedNotFilled
  <2> QED
    BY <2>1, <2>3, <2>7 DEF NotOverfilled
<1>3. ASSUME AllFills' = AllFills, DOMAIN market' = DOMAIN market,
             \A id \in DOMAIN market : market'[id].order = market[id].order
      PROVE  NotOverfilled'
  BY <1>3 DEF NotOverfilled
<1>4. CASE CancelOnChain /\ EngineRests
  <2>1. PICK id \in DOMAIN market :
           /\ DOMAIN market' = DOMAIN market
           /\ \A i \in DOMAIN market : i # id => market'[i] = market[i]
           /\ market'[id].order = market[id].order
    BY <1>1, <1>4, CancelFacts
  <2>2. \A i \in DOMAIN market : market'[i].order = market[i].order
    BY <2>1
  <2> QED
    BY <1>3, <1>4, <2>1, <2>2 DEF EngineRests
<1>5. CASE Include /\ EngineRests
  <2>1. /\ DOMAIN market' = DOMAIN market
        /\ \A id \in DOMAIN market : market'[id].order = market[id].order
    BY <1>1, <1>5, SettledTyped
  <2> QED
    BY <1>3, <1>5, <2>1 DEF EngineRests
<1>6. CASE (ChainRests /\ EngineRests) \/ Drops \/ Enters \/ Withdraws \/ Ends
  <2>1. AllFills' = AllFills /\ market' = market
    BY <1>6 DEF ChainRests, EngineRests, Drops, Enters, Withdraws, Ends, TakesUp
  <2> QED
    BY <1>3, <2>1
<1>7. CASE MakesFill
  BY <1>7, FillStaysWithin
<1>8. \/ PlaceOrder /\ EngineRests
      \/ CancelOnChain /\ EngineRests
      \/ Include /\ EngineRests
      \/ ChainRests /\ UNCHANGED events /\ EngineRests
      \/ Drops \/ Enters \/ Withdraws \/ MakesFill \/ Ends
  BY <1>1, DaemonMoves
<1> QED
  BY <1>2, <1>4, <1>5, <1>6, <1>7, <1>8

LEMMA NotOverfilledStarts == DaemonInit => NotOverfilled
  BY DEF DaemonInit, EmptyMap, NotOverfilled

\* limit_order_placement never fills an order for more than it was placed with on chain
\* (matching.rs:87, aide_daemon.rs:530), over all its fills and after it has left the book.
THEOREM OrdersNotOverfilled == DaemonSpec => []NotOverfilled
  BY DaemonInductive, OrdersAreFollowed, NotOverfilledStarts, NotOverfilledKept, PTL
     DEF DaemonSpec

-----------------------------------------------------------------------------
(***************************************************************************)
(* The daemon keeps to the settlement path: every step is one of those of  *)
(* SettlementPath or none of them.                                         *)
(***************************************************************************)
LEMMA PathTaken ==
  ASSUME NEW q, NEW id
  PROVE  Path!Taken(q, id) = Volume(q, id, Len(q))
  BY DEF Path!Taken, Path!Parties, Path!SumTo, Volume, Share, Party, SumTo

\* The fills before the next one are done with.
LEMMA DoneInTurn ==
  ASSUME DaemonInv, NEW k \in Nat, k <= Done + 1, k <= MaxArrivals
  PROVE  Path!InTurn(k)
<1>1. Done \in Nat /\ \A j \in Fills : resolved[j] = "open" <=> j > Done
  BY SentFacts
<1>2. \A j \in 1..(k - 1) : j \in Fills /\ ~(j > Done)
  BY <1>1, BoundAssumption DEF Fills
<1> QED
  BY <1>1, <1>2 DEF Path!InTurn

LEMMA PlacedOnPath ==
  ASSUME DaemonInv, PlaceOrder
  PROVE  Path!Place
<1>1. PICK r \in Requests :
        /\ r.order_id = OrdersPlaced + 1
        /\ market' = Put(market, r.order_id,
                         [order |-> r, remaining |-> r.remaining, active |-> TRUE])
  BY DEF PlaceOrder, OrdersPlaced
<1>2. OrdersPlaced \in Nat /\ DOMAIN market = 1..OrdersPlaced
  BY CoverFacts
<1>3. r.order_id \notin DOMAIN market
  BY <1>1, <1>2
<1>4. market' = [id \in DOMAIN market \cup {r.order_id} |->
         IF id = r.order_id THEN [order |-> r, remaining |-> r.remaining, active |-> TRUE]
                            ELSE market[id]]
  BY <1>1 DEF Put
<1>5. UNCHANGED <<made, resolved, applied>>
  BY DEF PlaceOrder, settlerVars
<1> QED
  BY <1>3, <1>4, <1>5 DEF Path!Place

LEMMA CancelledOnPath == CancelOnChain => Path!Cancel
  BY DEF CancelOnChain, Path!Cancel, settlerVars

LEMMA MadeOnPath ==
  ASSUME DaemonInv, DaemonInv', CoverInv', NotOverfilled', EndMatch
  PROVE  Path!Make \/ UNCHANGED Path!vars
<1>1. /\ made \in Seq(Fill) /\ made' \in Seq(Fill) /\ Len(made') <= MaxArrivals
      /\ fills'[Runner] \in Seq(Fill) /\ Len(made) \in Nat /\ Len(made') \in Nat
  BY RunnerCalls DEF DaemonInv, EngineInv, IInv, TypeOK, CallsTyped, PipelineInv
<1>2. /\ pc[Runner] = "matching" /\ pc' = [pc EXCEPT ![Runner] = "idle"]
      /\ made' = made \o fills'[Runner] /\ UNCHANGED <<market, applied, resolved>>
  BY DEF EndMatch, Return, chainVars, settlerVars
<1>3. AllFills' = made'
  <2>1. pc'[Runner] = "idle"
    BY <1>2, RunnerCalls DEF DaemonInv, EngineInv, IInv, TypeOK, CallsTyped
  <2>2. AllFills' = made' \o <<>>
    BY <2>1 DEF AllFills
  <2> QED
    BY <1>1, <2>2
<1>4. CASE fills'[Runner] = <<>>
  <2>1. made' = made
    BY <1>1, <1>2, <1>4
  <2> QED
    BY <1>2, <2>1 DEF Path!vars
<1>5. CASE fills'[Runner] # <<>>
  <2>1. Len(made') > Len(made) /\ \A k \in 1..Len(made) : made'[k] = made[k]
    BY <1>1, <1>2, <1>5
  <2>2. ASSUME NEW k \in (Len(made) + 1)..Len(made')
        PROVE  /\ k \in Fills /\ made'[k] \in Fill /\ made'[k].vstk_amount > 0
               /\ Path!Parties(made'[k]) \subseteq DOMAIN market
    <3>1. k \in 1..Len(made') /\ k \in Fills
      BY <1>1, BoundAssumption DEF Fills
    <3>2. made'[k] \in Fill
      BY <1>1, <3>1
    <3>3. made'[k].vstk_amount > 0
      BY <1>3, <3>1 DEF CoverInv, Balanced, LastOfAnOrder
    <3>4. \A id : Party(id, made'[k]) => id \in DOMAIN market
      BY <1>2, <1>3, <3>1 DEF CoverInv, OrdersOfChain, FillsKnown
    <3>5. Path!Parties(made'[k]) \subseteq DOMAIN market
      BY <3>4 DEF Path!Parties, Party
    <3> QED
      BY <3>1, <3>2, <3>3, <3>5
  <2>3. ASSUME NEW id \in DOMAIN market
        PROVE  Path!Taken(made', id) <= market[id].order.remaining
    <3>1. Volume(made', id, Len(made')) <= market[id].order.remaining
      BY <1>2, <1>3 DEF NotOverfilled
    <3> QED
      BY <3>1, PathTaken
  <2> QED
    BY <1>2, <2>1, <2>2, <2>3 DEF Path!Make
<1> QED
  BY <1>4, <1>5

LEMMA ExecutedOnPath ==
  ASSUME DaemonInv, SentInTurn, Include
  PROVE  Path!Execute \/ UNCHANGED Path!vars
<1> DEFINE k == Head(mempool)
           f == made[k]
<1>1. /\ mempool # <<>> /\ UNCHANGED <<made, resolved>>
      /\ \/ UNCHANGED <<market, applied>>
         \/ /\ Acceptable(f)
            /\ market' = [id \in DOMAIN market |->
                 IF id \in {f.maker_order_id, f.taker_order_id}
                   THEN LessTraded(market[id], f.vstk_amount) ELSE market[id]]
            /\ applied' = [applied EXCEPT ![k] = @ + 1]
  BY DEF Include, runnerVars, settlerVars
<1>2. /\ mempool \in Seq(Nat) /\ k \in Fills /\ k \in 1..Len(made)
      /\ applied \in [Fills -> Nat] /\ Done \in Nat
  BY <1>1, SentFacts
<1>3. k = mempool[1] /\ 1 \in 1..Len(mempool)
  BY <1>1, <1>2, TailEntriesMove
<1>4. /\ k <= Done + 1 /\ resolved[k] \in {"open", "failed"}
      /\ \A j \in Fills : applied[j] > 0 => j <= k
  BY <1>3 DEF SentInTurn, InTurnUpTo, Retriable
<1> HIDE DEF k
<1>5. Path!InTurn(k)
  <2>1. k \in Nat /\ k <= MaxArrivals
    BY <1>2, BoundAssumption DEF Fills
  <2> QED
    BY <1>4, <2>1, DoneInTurn
<1>6. \A j \in Fills : j > k => applied[j] = 0
  <2> SUFFICES ASSUME NEW j \in Fills, j > k PROVE applied[j] = 0
    OBVIOUS
  <2>1. j \in Nat /\ k \in Nat /\ applied[j] \in Nat
    BY <1>2 DEF Fills
  <2>2. ~(j <= k)
    BY <2>1
  <2> QED
    BY <1>4, <2>1, <2>2
<1>7. CASE UNCHANGED <<market, applied>>
  BY <1>1, <1>7 DEF Path!vars
<1>8. CASE /\ Acceptable(f)
           /\ market' = [id \in DOMAIN market |->
                IF id \in {f.maker_order_id, f.taker_order_id}
                  THEN LessTraded(market[id], f.vstk_amount) ELSE market[id]]
           /\ applied' = [applied EXCEPT ![k] = @ + 1]
  <2>1. \A id \in Path!Parties(f) : market[id].active /\ market[id].remaining >= f.vstk_amount
    BY <1>8 DEF Acceptable, Path!Parties
  <2>2. market' = [id \in DOMAIN market |->
            IF id \in Path!Parties(f) THEN Path!LessTraded(market[id], f.vstk_amount)
                                      ELSE market[id]]
    BY <1>8 DEF Path!Parties, Path!LessTraded, LessTraded
  <2>3. applied' = [applied EXCEPT ![k] = @ + 1]
    BY <1>8
  <2>4. Path!Execute
    BY <1>1, <1>2, <1>4, <1>5, <1>6, <2>1, <2>2, <2>3 DEF Path!Execute
  <2> QED
    BY <2>4
<1> QED
  BY <1>1, <1>7, <1>8

LEMMA ResolvedOnPath ==
  ASSUME DaemonInv, calls # <<>>, NEW r \in {"confirmed", "failed"}, Ended(r),
         UNCHANGED <<market, made, applied>>
  PROVE  Path!Resolve
<1> DEFINE k == Done + 1
<1>1. k \in Fills /\ k <= Len(made) /\ Len(made) \in Nat
  BY NextIsCalled, Lengths DEF DaemonInv
<1>2. Done \in Nat /\ \A j \in Fills : resolved[j] = "open" <=> j > Done
  BY SentFacts
<1>3. k > Done
  BY <1>2
<1>4. resolved' = [resolved EXCEPT ![k] = r]
  BY DEF Ended
<1>5. k \in Nat /\ k <= MaxArrivals /\ k \in 1..Len(made)
  BY <1>1, BoundAssumption DEF Fills
<1>6. Path!InTurn(k)
  BY <1>2, <1>5, DoneInTurn
<1>7. resolved[k] = "open"
  BY <1>1, <1>2, <1>3
<1> HIDE DEF k
<1> QED
  BY <1>4, <1>5, <1>6, <1>7 DEF Path!Resolve

LEMMA DoneWithin ==
  ASSUME NEW m \in Nat, NEW u \in Nat, NEW f \in Nat, NEW b \in Nat, NEW c \in Nat
  PROVE  m - u - f - b - c <= m
  OBVIOUS

LEMMA SkippedOnPath ==
  ASSUME DaemonInv, DaemonInv', Skips, UNCHANGED <<market, made, applied>>
  PROVE  Path!Skip
<1>1. Done \in Nat /\ \A j \in Fills : resolved[j] = "open" <=> j > Done
  BY SentFacts
<1>2. /\ Done' > Done
      /\ resolved' = [k \in Fills |-> IF k \in (Done + 1)..Done' THEN "skipped" ELSE resolved[k]]
  BY DEF Skips
<1>3. Done' \in 1..Len(made) /\ Done' \in Fills
  <2>1. /\ Len(made') \in Nat /\ Len(unsent') \in Nat /\ Len(fill_queue') \in Nat
        /\ Len(batch') \in Nat /\ Len(calls') \in Nat
    BY DEF DaemonInv, PipelineInv, QueuesTyped
  <2>2. Len(made') <= MaxArrivals /\ Done' \in Nat
    BY DEF DaemonInv, PipelineInv, Numbered
  <2>3. Done' <= Len(made')
    BY <2>1, <2>2, DoneWithin DEF Done
  <2> QED
    BY <1>1, <1>2, <2>1, <2>2, <2>3, BoundAssumption DEF Fills
<1>4. PICK n \in 1..Len(made) : n = Done'
  BY <1>3
<1>5. ASSUME NEW k \in Fills
      PROVE  k \in (Done + 1)..n <=> k <= n /\ resolved[k] = "open"
  <2>1. n \in Nat /\ k \in Nat
    BY <1>3, <1>4 DEF Fills
  <2>2. k \in (Done + 1)..n <=> k <= n /\ k > Done
    BY <1>1, <2>1
  <2> QED
    BY <1>1, <2>2
<1>6. resolved' = [k \in Fills |-> IF k <= n /\ resolved[k] = "open"
                                     THEN "skipped" ELSE resolved[k]]
  BY <1>2, <1>4, <1>5
<1>7. resolved[n] = "open"
  BY <1>1, <1>2, <1>3, <1>4
<1> QED
  BY <1>6, <1>7 DEF Path!Skip

LEMMA PathStep ==
  ASSUME DaemonInv, DaemonInv', CoverInv', SentInTurn, NotOverfilled', [DaemonNext]_allVars
  PROVE  [Path!Next]_(Path!vars)
<1>1. CASE PlaceOrder
  BY <1>1, PlacedOnPath DEF Path!Next
<1>2. CASE CancelOnChain
  BY <1>2, CancelledOnPath DEF Path!Next
<1>3. CASE EndMatch
  BY <1>3, MadeOnPath DEF Path!Next
<1>4. CASE Include
  BY <1>4, ExecutedOnPath DEF Path!Next
<1>5. CASE TakePlaced \/ TakeCancelled \/ Match \/ CountFill \/ SendFill \/ SendSucceeds
           \/ UNCHANGED allVars
  <2>1. UNCHANGED <<market, made, resolved, applied>>
    BY <1>5 DEF TakePlaced, TakeCancelled, Match, CountFill, SendFill, SendSucceeds,
              allVars, daemonVars, chainVars, runnerVars, settlerVars
  <2> QED
    BY <2>1 DEF Path!vars
<1>6. CASE ReceiveFill \/ FlushInterval \/ GasPriceFails \/ SendFails \/ ReceiptArrives
           \/ ReceiptFails
  <2>1. UNCHANGED <<market, made, applied>>
    BY <1>6 DEF ReceiveFill, FlushInterval, GasPriceFails, SendFails, ReceiptArrives,
              ReceiptFails, chainVars, runnerVars
  <2>2. CASE SendRests \/ Sends
    <3>1. resolved' = resolved
      BY <2>2 DEF SendRests, Sends
    <3> QED
      BY <2>1, <3>1 DEF Path!vars
  <2>3. CASE Fails
    <3>1. calls # <<>> /\ Ended("failed")
      BY <2>3 DEF Fails
    <3> QED
      BY <2>1, <3>1, ResolvedOnPath DEF Path!Next
  <2>4. CASE Confirms
    <3>1. calls # <<>> /\ Ended("confirmed")
      BY <2>4 DEF Confirms
    <3> QED
      BY <2>1, <3>1, ResolvedOnPath DEF Path!Next
  <2>5. CASE Skips
    BY <2>1, <2>5, SkippedOnPath DEF Path!Next
  <2>6. SendRests \/ Sends \/ (Includes /\ Include) \/ Fails \/ Confirms \/ Skips
    BY DaemonSendMoves
  <2> QED
    BY <1>4, <2>2, <2>3, <2>4, <2>5, <2>6
<1> QED
  BY <1>1, <1>2, <1>3, <1>4, <1>5, <1>6 DEF DaemonNext, RunnerStep, SettlerStep

LEMMA PathStarts == DaemonInit => Path!Init
  BY DEF DaemonInit, EmptyMap, Path!Init

\* The daemon refines the settlement path (aide_daemon.rs:521, 646; settler.rs:161): fills
\* are made between placed orders and for no more than they were placed with, done with in
\* the order in which they were made, and executed in their turn or later, never before an
\* earlier one that is still to be executed and never once confirmed.
THEOREM RefinesPath == DaemonSpec => Path!Safety
<1>1. DaemonInv /\ DaemonInv' /\ CoverInv' /\ SentInTurn /\ NotOverfilled' /\ [DaemonNext]_allVars
        => [Path!Next]_(Path!vars)
  BY PathStep
<1> QED
  BY <1>1, PathStarts, DaemonInductive, OrdersAreFollowed, SettlementsInTurn,
     OrdersNotOverfilled, PTL DEF DaemonSpec, Path!Safety

-----------------------------------------------------------------------------
(***************************************************************************)
(* When a send that reports an error has not reached the node, a fill is   *)
(* sent once, and so executed once.                                        *)
(***************************************************************************)
\* The fills up to this one have been sent, as far as they ever are.
Sent == IF settler = "waiting" THEN Done + 1 ELSE Done

OnceUpTo(q, a, d) ==
  /\ \A i \in 1..Len(q) : q[i] <= d
  /\ \A i, j \in 1..Len(q) : i < j => q[i] < q[j]
  /\ \A k \in Fills : a[k] <= 1
  /\ \A k \in Fills : a[k] > 0 => k <= d /\ \A i \in 1..Len(q) : k < q[i]
SentOnce == OnceUpTo(mempool, applied, Sent)

LEMMA OnceAppend ==
  ASSUME NEW q \in Seq(Nat), NEW a, NEW d \in Nat, OnceUpTo(q, a, d)
  PROVE  OnceUpTo(Append(q, d + 1), a, d + 1)
<1> DEFINE e == d + 1
           p == Append(q, e)
<1>1. e \in Nat /\ d < e
  OBVIOUS
<1> HIDE DEF e
<1>2. /\ Len(p) = Len(q) + 1 /\ Len(q) \in Nat
      /\ \A i \in 1..Len(p) : \/ i \in 1..Len(q) /\ p[i] = q[i]
                              \/ i = Len(q) + 1 /\ p[i] = e
  BY <1>1, AppendEntries
<1>3. \A i \in 1..Len(q) : q[i] \in Nat /\ q[i] <= d /\ q[i] < e
  <2>1. \A i \in 1..Len(q) : q[i] \in Nat /\ q[i] <= d
    BY DEF OnceUpTo
  <2> QED
    BY <1>1, <2>1
<1> HIDE DEF p
<1>4. ASSUME NEW i \in 1..Len(p) PROVE p[i] <= e
  BY <1>1, <1>2, <1>3
<1>5. ASSUME NEW i \in 1..Len(p), NEW j \in 1..Len(p), i < j PROVE p[i] < p[j]
  <2>1. i \in 1..Len(q) /\ p[i] = q[i]
    BY <1>2, <1>5
  <2>2. CASE j \in 1..Len(q) /\ p[j] = q[j]
    BY <1>5, <2>1, <2>2 DEF OnceUpTo
  <2>3. CASE p[j] = e
    BY <1>3, <2>1, <2>3
  <2> QED
    BY <1>2, <2>2, <2>3
<1>6. ASSUME NEW k \in Fills, a[k] > 0 PROVE k <= e /\ \A i \in 1..Len(p) : k < p[i]
  <2>1. k \in Nat /\ k <= d /\ \A i \in 1..Len(q) : k < q[i]
    BY <1>6 DEF OnceUpTo, Fills
  <2>2. k <= e /\ k < e
    BY <1>1, <2>1
  <2> QED
    BY <1>2, <2>1, <2>2
<1>7. \A k \in Fills : a[k] <= 1
  BY DEF OnceUpTo
<1>8. OnceUpTo(p, a, e)
  BY <1>4, <1>5, <1>6, <1>7 DEF OnceUpTo
<1> QED
  BY <1>8 DEF p, e

LEMMA OnceTail ==
  ASSUME NEW q \in Seq(Nat), q # <<>>, Head(q) \in Fills, NEW d \in Nat,
         NEW a \in [Fills -> Nat], OnceUpTo(q, a, d),
         NEW b \in [Fills -> Nat], \A k \in Fills : k # Head(q) => b[k] = a[k],
         b[Head(q)] <= a[Head(q)] + 1
  PROVE  OnceUpTo(Tail(q), b, d)
<1> DEFINE p == Tail(q)
           h == Head(q)
<1>1. /\ Len(q) \in Nat \ {0} /\ h = q[1] /\ 1 \in 1..Len(q)
      /\ \A i \in 1..Len(p) : i + 1 \in 1..Len(q) /\ p[i] = q[i + 1]
  BY TailEntriesMove
<1>2. h \in Fills /\ b[h] <= a[h] + 1 /\ \A k \in Fills : k # h => b[k] = a[k]
  OBVIOUS
<1> HIDE DEF p, h
<1>3. ASSUME NEW i \in 1..Len(p) PROVE p[i] <= d
  BY <1>1 DEF OnceUpTo
<1>4. ASSUME NEW i \in 1..Len(p), NEW j \in 1..Len(p), i < j PROVE p[i] < p[j]
  <2>1. i + 1 < j + 1
    BY <1>4
  <2> QED
    BY <1>1, <2>1 DEF OnceUpTo
<1>5. h \in Nat
  BY <1>2 DEF Fills
<1>6. a[h] = 0
  <2>1. ~(a[h] > 0)
    <3>1. ~(h < q[1])
      BY <1>1, <1>5
    <3> QED
      BY <1>1, <1>2, <3>1 DEF OnceUpTo
  <2>2. a[h] \in Nat
    BY <1>2
  <2> QED
    BY <2>1, <2>2
<1>7. ASSUME NEW k \in Fills PROVE b[k] <= 1
  <2>1. CASE k = h
    <3>1. b[h] \in Nat
      BY <1>2
    <3> QED
      BY <1>2, <1>6, <2>1, <3>1
  <2>2. CASE k # h
    BY <1>2, <2>2 DEF OnceUpTo
  <2> QED
    BY <2>1, <2>2
<1>8. ASSUME NEW k \in Fills, b[k] > 0 PROVE k <= d /\ \A i \in 1..Len(p) : k < p[i]
  <2>1. CASE k = h
    <3>1. k <= d
      BY <1>1, <2>1 DEF OnceUpTo
    <3>2. ASSUME NEW i \in 1..Len(p) PROVE k < p[i]
      <4>1. 1 < i + 1
        OBVIOUS
      <4> QED
        BY <1>1, <2>1, <4>1 DEF OnceUpTo
    <3> QED
      BY <3>1, <3>2
  <2>2. CASE k # h
    <3>1. a[k] > 0
      BY <1>2, <1>8, <2>2
    <3>2. k <= d /\ \A i \in 1..Len(q) : k < q[i]
      BY <3>1 DEF OnceUpTo
    <3> QED
      BY <1>1, <3>2
  <2> QED
    BY <2>1, <2>2
<1>9. OnceUpTo(p, b, d)
  BY <1>3, <1>4, <1>7, <1>8 DEF OnceUpTo
<1> QED
  BY <1>9 DEF p

LEMMA OnceLater ==
  ASSUME NEW q \in Seq(Nat), NEW a, NEW d \in Nat, NEW e \in Nat, d <= e, OnceUpTo(q, a, d)
  PROVE  OnceUpTo(q, a, e)
<1>1. \A i \in 1..Len(q) : q[i] \in Nat
  OBVIOUS
<1>2. \A k \in Fills : k \in Nat
  BY DEF Fills
<1>3. \A i \in 1..Len(q) : q[i] <= e
  BY <1>1 DEF OnceUpTo
<1>4. ASSUME NEW k \in Fills, a[k] > 0 PROVE k <= e
  <2>1. k <= d
    BY <1>4 DEF OnceUpTo
  <2> QED
    BY <1>2, <2>1
<1> QED
  BY <1>3, <1>4 DEF OnceUpTo

LEMMA NotTheSame ==
  ASSUME NEW q \in Seq(Nat), NEW x \in Nat
  PROVE  Append(q, x) # q
<1>1. Len(Append(q, x)) = Len(q) + 1 /\ Len(q) \in Nat
  BY AppendEntries
<1> QED
  BY <1>1

LEMMA OnceStep ==
  ASSUME DaemonInv, DaemonInv', SentOnce, [DaemonNext /\ AnswersArrive]_allVars
  PROVE  SentOnce'
<1>1. /\ mempool \in Seq(Nat) /\ applied \in [Fills -> Nat] /\ applied' \in [Fills -> Nat]
      /\ mempool # <<>> => Head(mempool) \in Fills
      /\ Done \in Nat /\ Done' \in Nat
  BY SentFacts, SentFactsNext
<1>2. Sent \in Nat /\ Sent' \in Nat /\ Sent <= Done + 1
  <2>1. PICK d \in Nat : d = Done
    BY <1>1
  <2>2. Sent = d \/ Sent = d + 1
    BY <2>1 DEF Sent
  <2>3. PICK e \in Nat : e = Done'
    BY <1>1
  <2>4. Sent' = e \/ Sent' = e + 1
    BY <2>3 DEF Sent
  <2> HIDE DEF Sent
  <2> QED
    BY <2>1, <2>2, <2>3, <2>4
<1>3. OnceUpTo(mempool, applied, Sent)
  BY DEF SentOnce
<1>4. SentOnce' <=> OnceUpTo(mempool', applied', Sent')
  BY DEF SentOnce
<1>5. SendFails => mempool' = mempool
  BY DEF AnswersArrive, allVars, daemonVars, chainVars
<1>6. SendRests \/ Sends \/ (Includes /\ Include) \/ Fails \/ Confirms \/ Skips
  <2>1. [DaemonNext]_allVars
    OBVIOUS
  <2> QED
    BY <2>1, DaemonSendMoves
<1>7. ASSUME UNCHANGED <<mempool, applied>>, Sent <= Sent' PROVE SentOnce'
  BY <1>1, <1>2, <1>3, <1>4, <1>7, OnceLater
<1>8. CASE SendRests
  <2>1. Sent' = Sent
    BY <1>8 DEF SendRests, Sent
  <2> QED
    BY <1>2, <1>7, <1>8, <2>1 DEF SendRests
<1>9. CASE Sends
  <2>1. /\ settler = "sending" /\ mempool' = Append(mempool, Done + 1) /\ applied' = applied
        /\ Done' = Done
        /\ settler' = "waiting" \/ SendFails
    BY <1>9 DEF Sends
  <2>2. mempool' # mempool
    <3>1. Done + 1 \in Nat
      BY <1>1
    <3> QED
      BY <1>1, <2>1, <3>1, NotTheSame
  <2>3. Sent = Done /\ Sent' = Done + 1
    BY <1>5, <2>1, <2>2 DEF Sent
  <2> QED
    BY <1>1, <1>3, <1>4, <2>1, <2>3, OnceAppend
<1>10. CASE Includes
  <2>1. /\ mempool # <<>> /\ mempool' = Tail(mempool)
        /\ applied' = applied \/ applied' = [applied EXCEPT ![Head(mempool)] = @ + 1]
        /\ settler' = settler /\ Done' = Done
    BY <1>10 DEF Includes
  <2>2. \A k \in Fills : k # Head(mempool) => applied'[k] = applied[k]
    BY <1>1, <2>1
  <2>3. applied'[Head(mempool)] <= applied[Head(mempool)] + 1
    BY <1>1, <2>1
  <2>4. Sent' = Sent
    BY <2>1 DEF Sent
  <2> QED
    BY <1>1, <1>2, <1>3, <1>4, <2>1, <2>2, <2>3, <2>4, OnceTail
<1>11. CASE Fails \/ Confirms
  <2>1. UNCHANGED <<mempool, applied>> /\ Done' = Done + 1 /\ settler' # "waiting"
    BY <1>5, <1>11 DEF Fails, Confirms, Ended
  <2>2. Sent' = Done + 1
    BY <2>1 DEF Sent
  <2> QED
    BY <1>2, <1>7, <2>1, <2>2
<1>12. CASE Skips
  <2>1. /\ UNCHANGED <<mempool, applied, settler>> /\ Done' > Done /\ settler # "waiting"
    BY <1>12 DEF Skips
  <2>2. Sent = Done /\ Sent' = Done'
    BY <2>1 DEF Sent
  <2>3. Sent <= Sent'
    BY <1>2, <2>1, <2>2
  <2> QED
    BY <1>7, <2>1, <2>3
<1> QED
  BY <1>6, <1>8, <1>9, <1>10, <1>11, <1>12

LEMMA OnceStarts == DaemonInit => SentOnce
<1> SUFFICES ASSUME DaemonInit PROVE SentOnce
  OBVIOUS
<1>1. mempool = <<>> /\ \A k \in Fills : applied[k] = 0
  BY DEF DaemonInit
<1> QED
  BY <1>1 DEF SentOnce, OnceUpTo

\* Where a send that reports an error has not reached the node, no fill is settled twice,
\* as ENGINE_SYNC_SPEC.md:30 has it: the loop of send_settle_trade_with_retry
\* (settler.rs:183) sends again after such an error only, and gives up, with the fill
\* counted as failed, when it is the receipt that does not come (settler.rs:195).
THEOREM NoReplayWhenAnswered == AnsweredSpec => []NoReplay
<1>1. DaemonInv /\ [DaemonNext /\ AnswersArrive]_allVars => DaemonInv'
  <2>1. [DaemonNext /\ AnswersArrive]_allVars => [DaemonNext]_allVars
    OBVIOUS
  <2> QED
    BY <2>1, DaemonKept
<1>2. AnsweredSpec => []DaemonInv
  BY <1>1, DaemonStarts, PTL DEF AnsweredSpec
<1>3. DaemonInv /\ DaemonInv' /\ SentOnce /\ [DaemonNext /\ AnswersArrive]_allVars => SentOnce'
  BY OnceStep
<1>4. AnsweredSpec => []SentOnce
  BY <1>2, <1>3, OnceStarts, PTL DEF AnsweredSpec
<1>5. SentOnce => NoReplay
  BY DEF SentOnce, OnceUpTo, NoReplay
<1> QED
  BY <1>4, <1>5, PTL
=============================================================================
