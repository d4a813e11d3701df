------------------------- MODULE ChainStream_proofs -------------------------
(***************************************************************************)
(* Theorems about ChainStream.                                             *)
(***************************************************************************)
EXTENDS ChainStream, Sums_proofs, SequenceTheorems

-----------------------------------------------------------------------------
(* Sequences of messages, the events in them, and their order.              *)
LEMMA DrainsFromTheFront ==
  ASSUME NEW q \in Seq(Message), NEW n \in Nat
  PROVE  DrainCount(q, n) \in 0..Len(q)
<1> DEFINE late == {i \in 1..Len(q) : n < q[i].block + Confirmations}
           Fits(k) == /\ \A i \in 1..k : n >= q[i].block + Confirmations
                      /\ k < Len(q) => n < q[k + 1].block + Confirmations
<1>0. Len(q) \in Nat /\ \A i \in 1..Len(q) : q[i] \in Message
  OBVIOUS
<1>1. \A i \in 1..Len(q) : q[i].block \in Nat
  BY <1>0 DEF Message, Heights
<1>2. Confirmations \in Nat
  BY StreamAssumption
<1>3. CASE late = {}
  <2>1. \A i \in 1..Len(q) : n >= q[i].block + Confirmations
    BY <1>1, <1>2, <1>3
  <2>2. Fits(Len(q)) /\ Len(q) \in 0..Len(q)
    BY <2>1, <1>0
  <2> QED
    BY <2>2 DEF DrainCount
<1>4. CASE late # {}
  <2>1. late \subseteq Nat
    BY <1>0
  <2>2. PICK m \in late : \A i \in late : m <= i
    BY <2>1, <1>4, LeastElement
  <2>3. m \in 1..Len(q) /\ (m - 1) + 1 = m /\ m - 1 \in 0..Len(q)
    BY <2>2, <1>0
  <2>4. \A i \in 1..(m - 1) : i \in 1..Len(q) /\ i \notin late
    BY <2>2, <2>3, <1>0
  <2>5. \A i \in 1..(m - 1) : n >= q[i].block + Confirmations
    BY <2>4, <1>1, <1>2
  <2>6. n < q[(m - 1) + 1].block + Confirmations
    BY <2>2, <2>3
  <2>7. Fits(m - 1)
    BY <2>5, <2>6
  <2> HIDE DEF late
  <2> QED
    BY <2>3, <2>7 DEF DrainCount
<1> QED
  BY <1>3, <1>4

LEMMA EventsOfAppend ==
  ASSUME NEW S, NEW q \in Seq(S), NEW e
  PROVE  /\ IsMarket(e) => Events(Append(q, e)) = Events(q) \cup {e}
         /\ ~IsMarket(e) => Events(Append(q, e)) = Events(q)
<1>1. /\ DOMAIN Append(q, e) = 1..(Len(q) + 1) /\ DOMAIN q = 1..Len(q)
      /\ \A i \in 1..Len(q) : Append(q, e)[i] = q[i]
      /\ Append(q, e)[Len(q) + 1] = e
      /\ Len(q) \in Nat
  OBVIOUS
<1>2. \A i \in 1..(Len(q) + 1) : i \in 1..Len(q) \/ i = Len(q) + 1
  BY <1>1
<1>3. Len(q) + 1 \in 1..(Len(q) + 1) /\ 1..Len(q) \subseteq 1..(Len(q) + 1)
  BY <1>1
<1>4. ToSet(Append(q, e)) = {Append(q, e)[i] : i \in 1..(Len(q) + 1)}
  BY <1>1 DEF ToSet
<1>5. ToSet(q) = {q[i] : i \in 1..Len(q)}
  BY <1>1 DEF ToSet
<1>6. ToSet(Append(q, e)) = ToSet(q) \cup {e}
  BY <1>1, <1>2, <1>3, <1>4, <1>5
<1> QED
  BY <1>6 DEF Events

LEMMA EventsOfTail ==
  ASSUME NEW S, NEW q \in Seq(S), q # <<>>
  PROVE  /\ IsMarket(Head(q)) => Events(q) = Events(Tail(q)) \cup {Head(q)}
         /\ ~IsMarket(Head(q)) => Events(q) = Events(Tail(q))
<1>1. /\ DOMAIN Tail(q) = 1..(Len(q) - 1) /\ DOMAIN q = 1..Len(q)
      /\ \A i \in 1..(Len(q) - 1) : Tail(q)[i] = q[i + 1]
      /\ Head(q) = q[1] /\ Len(q) \in Nat \ {0}
  OBVIOUS
<1>2. \A i \in 1..Len(q) : i = 1 \/ (i - 1 \in 1..(Len(q) - 1) /\ i = (i - 1) + 1)
  BY <1>1
<1>3. 1 \in 1..Len(q) /\ \A i \in 1..(Len(q) - 1) : i + 1 \in 1..Len(q)
  BY <1>1
<1>4. ToSet(q) = {q[i] : i \in 1..Len(q)}
  BY <1>1 DEF ToSet
<1>5. ToSet(Tail(q)) = {Tail(q)[i] : i \in 1..(Len(q) - 1)}
  BY <1>1 DEF ToSet
<1>6. ToSet(q) \subseteq ToSet(Tail(q)) \cup {Head(q)}
  <2> SUFFICES ASSUME NEW i \in 1..Len(q)
               PROVE  q[i] \in ToSet(Tail(q)) \cup {Head(q)}
    BY <1>4
  <2>1. CASE i = 1
    BY <2>1, <1>1
  <2>2. CASE i # 1
    <3>1. i - 1 \in 1..(Len(q) - 1) /\ Tail(q)[i - 1] = q[i]
      BY <2>2, <1>1, <1>2
    <3> QED
      BY <3>1, <1>5
  <2> QED
    BY <2>1, <2>2
<1>7. ToSet(Tail(q)) \cup {Head(q)} \subseteq ToSet(q)
  BY <1>1, <1>3, <1>4, <1>5
<1> QED
  BY <1>6, <1>7 DEF Events

LEMMA PartsOfSeq ==
  ASSUME NEW S, NEW q \in Seq(S), NEW k \in 0..Len(q)
  PROVE  /\ DOMAIN q = 1..Len(q) /\ Len(q) \in Nat
         /\ SubSeq(q, 1, k) \in Seq(S) /\ SubSeq(q, k + 1, Len(q)) \in Seq(S)
         /\ Len(SubSeq(q, 1, k)) = k /\ DOMAIN SubSeq(q, 1, k) = 1..k
         /\ \A i \in 1..k : SubSeq(q, 1, k)[i] = q[i]
         /\ Len(SubSeq(q, k + 1, Len(q))) = Len(q) - k
         /\ DOMAIN SubSeq(q, k + 1, Len(q)) = 1..(Len(q) - k)
         /\ \A i \in 1..(Len(q) - k) : SubSeq(q, k + 1, Len(q))[i] = q[k + i]
<1>0. Len(q) \in Nat /\ k \in Nat /\ k <= Len(q) /\ DOMAIN q = 1..Len(q)
  OBVIOUS
<1>1. \A i \in 1..Len(q) : q[i] \in S
  BY <1>0
<1>2. /\ SubSeq(q, 1, k) \in Seq(S)
      /\ Len(SubSeq(q, 1, k)) = (IF 1 <= k THEN k - 1 + 1 ELSE 0)
      /\ \A i \in 1..(k - 1 + 1) : SubSeq(q, 1, k)[i] = q[1 + i - 1]
  <2>1. \A i \in 1..k : q[i] \in S
    BY <1>0, <1>1
  <2> QED
    BY <2>1, <1>0, SubSeqProperties
<1>3. /\ SubSeq(q, k + 1, Len(q)) \in Seq(S)
      /\ Len(SubSeq(q, k + 1, Len(q))) =
           (IF k + 1 <= Len(q) THEN Len(q) - (k + 1) + 1 ELSE 0)
      /\ \A i \in 1..(Len(q) - (k + 1) + 1) :
           SubSeq(q, k + 1, Len(q))[i] = q[(k + 1) + i - 1]
  <2>1. \A i \in (k + 1)..Len(q) : q[i] \in S
    BY <1>0, <1>1
  <2>2. k + 1 \in 1..(Len(q) + 1) /\ Len(q) \in Nat
    BY <1>0
  <2> QED
    BY <2>1, <2>2, SubSeqProperties
<1>4. k - 1 + 1 = k /\ (~(1 <= k) => k = 0) /\ \A i \in 1..k : 1 + i - 1 = i
  BY <1>0
<1>5. /\ Len(q) - (k + 1) + 1 = Len(q) - k
      /\ ~(k + 1 <= Len(q)) => Len(q) - k = 0
      /\ \A i \in 1..(Len(q) - k) : (k + 1) + i - 1 = k + i
  <2> SUFFICES ASSUME NEW n \in Nat, NEW d \in Nat, d <= n
               PROVE  /\ n - (d + 1) + 1 = n - d
                      /\ ~(d + 1 <= n) => n - d = 0
                      /\ \A i \in 1..(n - d) : (d + 1) + i - 1 = d + i
    BY <1>0
  <2> QED
    OBVIOUS
<1>6. /\ Len(SubSeq(q, 1, k)) = k
      /\ \A i \in 1..k : SubSeq(q, 1, k)[i] = q[i]
  BY <1>2, <1>4
<1>7. /\ Len(SubSeq(q, k + 1, Len(q))) = Len(q) - k
      /\ \A i \in 1..(Len(q) - k) : SubSeq(q, k + 1, Len(q))[i] = q[k + i]
  BY <1>3, <1>5
<1>8. /\ DOMAIN SubSeq(q, 1, k) = 1..k
      /\ DOMAIN SubSeq(q, k + 1, Len(q)) = 1..(Len(q) - k)
  BY <1>2, <1>3, <1>6, <1>7
<1> QED
  BY <1>0, <1>2, <1>3, <1>6, <1>7, <1>8

LEMMA EventsOfParts ==
  ASSUME NEW S, NEW q \in Seq(S), NEW k \in 0..Len(q)
  PROVE  Events(q) = Events(SubSeq(q, 1, k)) \cup Events(SubSeq(q, k + 1, Len(q)))
<1>1. \A m : m \in ToSet(q) <=> \E i \in 1..Len(q) : m = q[i]
  BY PartsOfSeq DEF ToSet
<1>2. \A m : m \in ToSet(SubSeq(q, 1, k)) <=> \E i \in 1..k : m = q[i]
  <2>1. DOMAIN SubSeq(q, 1, k) = 1..k /\ \A i \in 1..k : SubSeq(q, 1, k)[i] = q[i]
    BY PartsOfSeq
  <2> QED
    BY <2>1 DEF ToSet
<1>3. \A m : m \in ToSet(SubSeq(q, k + 1, Len(q))) <=> \E i \in (k + 1)..Len(q) : m = q[i]
  <2> DEFINE r == SubSeq(q, k + 1, Len(q))
  <2>1. DOMAIN r = 1..(Len(q) - k) /\ \A i \in 1..(Len(q) - k) : r[i] = q[k + i]
    BY PartsOfSeq
  <2>2. ToSet(r) = {r[i] : i \in 1..(Len(q) - k)}
    BY <2>1 DEF ToSet
  <2>3. \A i \in 1..(Len(q) - k) : k + i \in (k + 1)..Len(q)
    OBVIOUS
  <2>4. \A i \in (k + 1)..Len(q) : i - k \in 1..(Len(q) - k) /\ k + (i - k) = i
    OBVIOUS
  <2> HIDE DEF r
  <2>5. \A m \in ToSet(r) : \E i \in (k + 1)..Len(q) : m = q[i]
    BY <2>1, <2>2, <2>3
  <2>6. \A i \in (k + 1)..Len(q) : q[i] \in ToSet(r)
    <3> SUFFICES ASSUME NEW i \in (k + 1)..Len(q) PROVE q[i] \in ToSet(r)
      OBVIOUS
    <3>1. r[i - k] = q[i] /\ i - k \in 1..(Len(q) - k)
      BY <2>1, <2>4
    <3> QED
      BY <3>1, <2>2
  <2> QED
    BY <2>5, <2>6 DEF r
<1>4. \A i \in 1..Len(q) : i \in 1..k \/ i \in (k + 1)..Len(q)
  OBVIOUS
<1>5. 1..k \subseteq 1..Len(q) /\ (k + 1)..Len(q) \subseteq 1..Len(q)
  OBVIOUS
<1>6. ToSet(q) = ToSet(SubSeq(q, 1, k)) \cup ToSet(SubSeq(q, k + 1, Len(q)))
  BY <1>1, <1>2, <1>3, <1>4, <1>5
<1> QED
  BY <1>6 DEF Events

LEMMA SortedAppend ==
  ASSUME NEW S, NEW q \in Seq(S), NEW e, Sorted(q),
         IsMarket(e) => \A m \in Events(q) : m.block < e.block
  PROVE  Sorted(Append(q, e))
BY DEF Sorted, Events, ToSet

LEMMA SortedTail ==
  ASSUME NEW S, NEW q \in Seq(S), q # <<>>, Sorted(q)
  PROVE  /\ Sorted(Tail(q))
         /\ IsMarket(Head(q)) => \A m \in Events(Tail(q)) : Head(q).block < m.block
BY DEF Sorted, Events, ToSet

LEMMA SortedParts ==
  ASSUME NEW S, NEW q \in Seq(S), Sorted(q), NEW k \in 0..Len(q)
  PROVE  /\ Sorted(SubSeq(q, 1, k))
         /\ Sorted(SubSeq(q, k + 1, Len(q)))
         /\ \A e \in Events(SubSeq(q, 1, k)), f \in Events(SubSeq(q, k + 1, Len(q))) :
              e.block < f.block
<1> DEFINE p == SubSeq(q, 1, k)
           r == SubSeq(q, k + 1, Len(q))
<1>1. /\ DOMAIN p = 1..k /\ Len(p) = k /\ \A i \in 1..k : p[i] = q[i]
      /\ DOMAIN r = 1..(Len(q) - k) /\ Len(r) = Len(q) - k
      /\ \A i \in 1..(Len(q) - k) : r[i] = q[k + i]
  BY PartsOfSeq
<1>2. 1..k \subseteq 1..Len(q) /\ \A i \in 1..(Len(q) - k) : k + i \in 1..Len(q)
  OBVIOUS
<1> HIDE DEF p, r
<1>3. Sorted(p)
  BY <1>1, <1>2 DEF Sorted
<1>4. Sorted(r)
  <2> SUFFICES ASSUME NEW i \in 1..(Len(q) - k), NEW j \in 1..(Len(q) - k),
                      i < j, IsMarket(r[i]), IsMarket(r[j])
               PROVE  r[i].block < r[j].block
    BY <1>1 DEF Sorted
  <2>1. r[i] = q[k + i] /\ r[j] = q[k + j]
    BY <1>1
  <2>2. k + i \in 1..Len(q) /\ k + j \in 1..Len(q) /\ k + i < k + j
    BY <1>2
  <2> QED
    BY <2>1, <2>2 DEF Sorted
<1>5. ASSUME NEW e \in Events(p), NEW f \in Events(r) PROVE e.block < f.block
  <2>1. PICK i \in 1..k : e = q[i]
    BY <1>1 DEF Events, ToSet
  <2>2. PICK j \in 1..(Len(q) - k) : f = q[k + j]
    BY <1>1 DEF Events, ToSet
  <2>3. i \in 1..Len(q) /\ k + j \in 1..Len(q) /\ i < k + j
    BY <1>2
  <2> QED
    BY <2>1, <2>2, <2>3 DEF Sorted, Events
<1> QED
  BY <1>3, <1>4, <1>5 DEF p, r

-----------------------------------------------------------------------------
(* Logs, blocks and messages. *)
LEMMA MessageFacts ==
  ASSUME NEW m \in Message
  PROVE  /\ m.block \in Nat
         /\ m.block \in Heights
         /\ m.kind = "OrderPlaced" => m.order_id \in 2..MaxOrder /\ m.company_id \in Companies
         /\ m.kind = "OrderCancelled" => m.order_id \in 1..MaxOrder
         /\ m.kind \in {"OrderPlaced", "OrderCancelled", "TradeSettled", "NewHead", "NewBlock"}
         /\ m.kind \notin {"OrderPlaced", "OrderCancelled"} => m.order_id = 0
BY DEF Message, Heights

LEMMA LogFacts ==
  ASSUME NEW log \in Log
  PROVE  /\ log.kind \in {"OrderPlaced", "OrderCancelled", "TradeSettled"}
         /\ log.kind = "OrderPlaced" => log.order_id \in 2..MaxOrder /\ log.company_id \in Companies
         /\ log.kind = "OrderCancelled" => log.order_id \in 1..MaxOrder /\ log.company_id = 0
         /\ log.kind = "TradeSettled" => log.order_id = 0 /\ log.company_id = 0
BY DEF Log, Placed, Cancelled, Settled

LEMMA LogMakesMessage ==
  ASSUME NEW log \in Log, NEW b \in Heights
  PROVE  /\ At(b, log) \in Message
         /\ IsMarket(At(b, log))
         /\ At(b, log).block = b
         /\ At(b, log).kind = log.kind
         /\ At(b, log).order_id = log.order_id
<1>1. /\ At(b, log).block = b /\ At(b, log).kind = log.kind
      /\ At(b, log).order_id = log.order_id /\ At(b, log).company_id = log.company_id
  BY DEF At
<1>2. IsMarket(At(b, log))
  BY <1>1, LogFacts DEF IsMarket
<1>3. CASE log.kind = "OrderPlaced"
  <2>1. At(b, log) \in [kind : {"OrderPlaced"}, block : Heights, order_id : 2..MaxOrder, company_id : Companies]
    BY <1>3, LogFacts DEF At
  <2> QED
    BY <1>1, <1>2, <2>1 DEF Message
<1>4. CASE log.kind = "OrderCancelled"
  <2>1. At(b, log) \in [kind : {"OrderCancelled"}, block : Heights, order_id : 1..MaxOrder,
              company_id : Companies \cup {0}]
    BY <1>4, LogFacts DEF At
  <2> QED
    BY <1>1, <1>2, <2>1 DEF Message
<1>5. CASE log.kind = "TradeSettled"
  <2>1. At(b, log) \in [kind : {"TradeSettled", "NewHead", "NewBlock"}, block : Heights,
              order_id : {0}, company_id : {0}]
    BY <1>5, LogFacts DEF At
  <2> QED
    BY <1>1, <1>2, <2>1 DEF Message
<1> QED
  BY <1>1, <1>2, <1>3, <1>4, <1>5, LogFacts

LEMMA HeightMakesMessage ==
  ASSUME NEW b \in Heights, NEW kind \in {"NewHead", "NewBlock"}
  PROVE  BlockMsg(kind, b) \in Message /\ ~IsMarket(BlockMsg(kind, b))
BY DEF BlockMsg, Message, IsMarket

LEMMA BlockFacts ==
  ASSUME NEW block \in Block
  PROVE  block = <<>> \/ \E log \in Log : block = <<log>>
BY DEF Block

LEMMA LogsOfHeight ==
  ASSUME chain \in Seq(Block), Len(chain) <= MaxBlocks, NEW b \in Nat \ {0}
  PROVE  \/ /\ LogMsgs(b) = <<>>
            /\ b \in 1..Len(chain) => chain[b] = <<>>
         \/ /\ b \in 1..Len(chain) /\ b \in Heights
            /\ \E log \in Log : chain[b] = <<log>> /\ LogMsgs(b) = <<At(b, log)>>
<1>1. CASE b > Len(chain)
  BY <1>1 DEF LogMsgs
<1>2. CASE ~(b > Len(chain))
  <2>1. b \in 1..Len(chain) /\ b \in Heights /\ chain[b] \in Block
    BY <1>2, StreamAssumption DEF Heights
  <2>2. LogMsgs(b) = [i \in 1..Len(chain[b]) |-> At(b, chain[b][i])]
    BY <1>2 DEF LogMsgs
  <2>3. CASE chain[b] = <<>>
    BY <2>2, <2>3
  <2>4. ASSUME NEW log \in Log, chain[b] = <<log>>
        PROVE  LogMsgs(b) = <<At(b, log)>>
    BY <2>2, <2>4
  <2> QED
    BY <2>1, <2>3, <2>4, BlockFacts
<1> QED
  BY <1>1, <1>2

LEMMA NewBlocks ==
  ASSUME NEW blocks \in Seq(Block), NEW logs \in BlocksAfter(blocks)
  PROVE  /\ logs \in Block
         /\ logs = <<>> \/ \E log \in PossibleLogs(blocks) : logs = <<log>>
<1>1. ASSUME NEW log \in LogsIn(blocks) PROVE log \in Log
  <2>1. PICK b \in 1..Len(blocks) : log \in ToSet(blocks[b])
    BY DEF LogsIn
  <2>2. blocks[b] \in Block
    BY <2>1
  <2> QED
    BY <2>1, <2>2, BlockFacts DEF ToSet
<1>2. ASSUME NEW id \in {1} \cup IdsIn(blocks, "OrderPlaced")
      PROVE  Cancelled(id) \in Log
  <2>1. CASE id = 1
    BY <2>1, StreamAssumption DEF Log
  <2>2. CASE id # 1
    <3>1. PICK log \in LogsIn(blocks) : log.kind = "OrderPlaced" /\ log.order_id = id
      BY <2>2 DEF IdsIn
    <3>2. id \in 1..MaxOrder
      BY <3>1, <1>1, LogFacts, StreamAssumption
    <3> QED
      BY <3>2 DEF Log
  <2> QED
    BY <2>1, <2>2
<1>3. PossibleLogs(blocks) \subseteq Log
  <2>1. ASSUME NEW id \in 2..MaxOrder, NEW c \in Companies PROVE Placed(id, c) \in Log
    BY DEF Log
  <2>2. Settled \in Log
    BY DEF Log
  <2> QED
    BY <1>2, <2>1, <2>2 DEF PossibleLogs
<1> QED
  BY <1>3 DEF BlocksAfter, Block

-----------------------------------------------------------------------------
(* Types. *)
LEMMA TypeInit == Init => TypeOK
<1> SUFFICES ASSUME Init PROVE TypeOK
  OBVIOUS
<1>1. PICK logs \in BlocksAfter(<<>>) : chain = <<logs>>
  BY DEF Init
<1>2. logs \in Block
  <2>1. <<>> \in Seq(Block)
    OBVIOUS
  <2> QED
    BY <2>1, NewBlocks
<1>3. chain \in Seq(Block) /\ Len(chain) = 1 /\ 1 <= MaxBlocks
  BY <1>1, <1>2, StreamAssumption
<1>4. {head, last_block_height} \subseteq Heights
  BY StreamAssumption DEF Init, Heights
<1>5. order_company \in [DOMAIN order_company -> Companies] /\ DOMAIN order_company = {}
  BY DEF Init
<1>6. {chain_chan, buf, confirmed, event_chan, delivered} \subseteq Seq(Message)
  BY DEF Init
<1>7. /\ Len(chain_chan) <= ChainCapacity
      /\ Len(event_chan) <= EventCapacity
      /\ reorgs \in 0..MaxReorgs
  BY StreamAssumption DEF Init
<1> QED
  BY <1>3, <1>4, <1>5, <1>6, <1>7 DEF Init, TypeOK

LEMMA Numbers ==
  ASSUME TypeOK
  PROVE  /\ Len(chain) \in Nat /\ Len(chain) <= MaxBlocks /\ head \in Nat
         /\ cursor \in Nat /\ FirstCursor \in Nat
<1>1. chain \in Seq(Block) /\ Len(chain) <= MaxBlocks
  BY DEF TypeOK
<1>2. FirstCursor \in Nat
  BY StreamAssumption DEF FirstCursor
<1>3. cursor \in Nat
  <2>1. cursor = FirstCursor \/ cursor \in FirstCursor..MaxBlocks
    BY DEF TypeOK
  <2>2. MaxBlocks \in Nat
    BY StreamAssumption
  <2> QED
    BY <1>2, <2>1, <2>2
<1>4. head \in Nat
  BY StreamAssumption DEF TypeOK, Heights
<1> QED
  BY <1>1, <1>2, <1>3, <1>4

LEMMA TypeMine == TypeOK /\ Mine => TypeOK'
<1> SUFFICES ASSUME TypeOK, Mine PROVE TypeOK'
  OBVIOUS
<1>1. PICK logs \in BlocksAfter(chain) : chain' = Append(chain, logs)
  BY DEF Mine
<1>2. logs \in Block
  BY NewBlocks DEF TypeOK
<1>3. chain' \in Seq(Block) /\ Len(chain') <= MaxBlocks
  BY <1>1, <1>2, StreamAssumption DEF TypeOK, Mine
<1> QED
  BY <1>3 DEF TypeOK, Mine, listenerVars

LEMMA TypeReorg == TypeOK /\ Reorg => TypeOK'
<1> SUFFICES ASSUME TypeOK, Reorg PROVE TypeOK'
  OBVIOUS
<1>1. PICK depth \in 1..Confirmations :
        depth <= Len(chain) /\ chain' = SubSeq(chain, 1, Len(chain) - depth)
  BY DEF Reorg
<1>2. chain \in Seq(Block) /\ Len(chain) - depth \in 0..Len(chain)
  <2>1. chain \in Seq(Block) /\ Len(chain) \in Nat
    BY DEF TypeOK
  <2>2. depth \in Nat
    BY StreamAssumption
  <2> QED
    BY <1>1, <2>1, <2>2
<1>3. chain' \in Seq(Block) /\ Len(chain') = Len(chain) - depth
  BY <1>1, <1>2, PartsOfSeq
<1>4. Len(chain') <= MaxBlocks
  <2>1. Len(chain) <= MaxBlocks /\ Len(chain) \in Nat /\ MaxBlocks \in Nat
    BY StreamAssumption DEF TypeOK
  <2>2. depth \in Nat
    BY StreamAssumption
  <2> QED
    BY <1>3, <2>1, <2>2
<1>5. reorgs' \in 0..MaxReorgs
  <2>1. MaxReorgs \in Nat /\ reorgs \in 0..MaxReorgs /\ reorgs < MaxReorgs
    BY StreamAssumption DEF TypeOK, Reorg
  <2>2. reorgs' = reorgs + 1
    BY DEF Reorg
  <2> QED
    BY <2>1, <2>2
<1> QED
  BY <1>3, <1>4, <1>5 DEF TypeOK, Reorg, listenerVars

LEMMA TypePoll == TypeOK /\ Poll => TypeOK'
<1> SUFFICES ASSUME TypeOK, Poll PROVE TypeOK'
  OBVIOUS
<1>1. Len(chain) \in Heights
  BY StreamAssumption DEF TypeOK, Heights
<1>2. BlockMsg("NewHead", Len(chain)) \in Message
  BY <1>1, HeightMakesMessage
<1>3. chain_chan' \in Seq(Message) /\ Len(chain_chan') = Len(chain_chan) + 1
  BY <1>2 DEF TypeOK, Poll
<1>4. Len(chain_chan') <= ChainCapacity
  BY <1>3, StreamAssumption DEF TypeOK, Poll
<1>5. head' \in Heights
  BY <1>1 DEF Poll
<1> QED
  BY <1>3, <1>4, <1>5 DEF TypeOK, Poll

\* The height after the cursor, and what the listener sends of it.
LEMMA NextHeight ==
  ASSUME TypeOK, FetchBlock
  PROVE  /\ cursor \in Nat /\ cursor' = cursor + 1
         /\ cursor + 1 \in (FirstCursor + 1)..MaxBlocks
         /\ \/ /\ cursor + 1 \in 1..Len(chain) => chain[cursor + 1] = <<>>
               /\ LogMsgs(cursor + 1) = <<>> /\ chain_chan' = chain_chan
            \/ /\ cursor + 1 \in 1..Len(chain)
               /\ \E log \in Log :
                    /\ chain[cursor + 1] = <<log>>
                    /\ LogMsgs(cursor + 1) = <<At(cursor + 1, log)>>
                    /\ At(cursor + 1, log) \in Message
                    /\ chain_chan' = Append(chain_chan, At(cursor + 1, log))
                    /\ Len(chain_chan) + 1 <= ChainCapacity
<1>1. FirstCursor \in Nat /\ cursor \in Nat /\ cursor >= FirstCursor
  BY StreamAssumption DEF TypeOK, FirstCursor
<1>2. head <= MaxBlocks /\ head \in Nat /\ cursor < head
  BY StreamAssumption DEF TypeOK, Heights, FetchBlock
<1>3. cursor' = cursor + 1 /\ chain_chan' = chain_chan \o LogMsgs(cursor + 1)
  BY DEF FetchBlock, NextBlock
<1>4. cursor + 1 \in (FirstCursor + 1)..MaxBlocks /\ cursor + 1 \in Nat \ {0}
  BY <1>1, <1>2, StreamAssumption
<1>5. chain_chan \in Seq(Message)
  BY DEF TypeOK
<1>6. CASE /\ LogMsgs(cursor + 1) = <<>>
           /\ cursor + 1 \in 1..Len(chain) => chain[cursor + 1] = <<>>
  <2>1. chain_chan \o <<>> = chain_chan
    BY <1>5
  <2> QED
    BY <1>1, <1>3, <1>4, <1>6, <2>1
<1>7. ASSUME NEW log \in Log, cursor + 1 \in 1..Len(chain), cursor + 1 \in Heights,
             chain[cursor + 1] = <<log>>, LogMsgs(cursor + 1) = <<At(cursor + 1, log)>>
      PROVE  /\ At(cursor + 1, log) \in Message
             /\ chain_chan' = Append(chain_chan, At(cursor + 1, log))
             /\ Len(chain_chan) + 1 <= ChainCapacity
  <2>1. At(cursor + 1, log) \in Message
    BY <1>7, LogMakesMessage
  <2>2. chain_chan \o <<At(cursor + 1, log)>> = Append(chain_chan, At(cursor + 1, log))
    BY <1>5, <2>1
  <2>3. Len(LogMsgs(cursor + 1)) = 1
    BY <1>7
  <2>4. Len(chain_chan) + 1 <= ChainCapacity
    BY <2>3 DEF FetchBlock
  <2> QED
    BY <1>3, <1>7, <2>1, <2>2, <2>4
<1>8. \/ /\ LogMsgs(cursor + 1) = <<>>
         /\ cursor + 1 \in 1..Len(chain) => chain[cursor + 1] = <<>>
      \/ /\ cursor + 1 \in 1..Len(chain) /\ cursor + 1 \in Heights
         /\ \E log \in Log : /\ chain[cursor + 1] = <<log>>
                             /\ LogMsgs(cursor + 1) = <<At(cursor + 1, log)>>
  BY <1>4, LogsOfHeight DEF TypeOK
<1> QED
  BY <1>1, <1>3, <1>4, <1>6, <1>7, <1>8

LEMMA TypeFetchBlock == TypeOK /\ FetchBlock => TypeOK'
<1> SUFFICES ASSUME TypeOK, FetchBlock PROVE TypeOK'
  OBVIOUS
<1>1. cursor' \in FirstCursor..MaxBlocks
  BY NextHeight, StreamAssumption DEF FirstCursor
<1>2. chain_chan' \in Seq(Message) /\ Len(chain_chan') <= ChainCapacity
  <2>1. chain_chan \in Seq(Message) /\ Len(chain_chan) <= ChainCapacity
    BY DEF TypeOK
  <2>2. ASSUME NEW m \in Message, chain_chan' = Append(chain_chan, m),
               Len(chain_chan) + 1 <= ChainCapacity
        PROVE  chain_chan' \in Seq(Message) /\ Len(chain_chan') <= ChainCapacity
    BY <2>1, <2>2
  <2> QED
    BY <2>1, <2>2, NextHeight
<1> QED
  BY <1>1, <1>2 DEF TypeOK, FetchBlock

LEMMA TypeListenerExits == TypeOK /\ ListenerExits => TypeOK'
BY DEF TypeOK, ListenerExits

\* The message that the streamer takes.
LEMMA TakenMessage ==
  ASSUME TypeOK, chain_chan # <<>>
  PROVE  /\ Head(chain_chan) \in Message
         /\ Tail(chain_chan) \in Seq(Message)
         /\ Len(Tail(chain_chan)) <= ChainCapacity
BY StreamAssumption DEF TypeOK

\* What a confirmed prefix of the buffer and its rest are.
LEMMA Drained ==
  ASSUME TypeOK, NEW n \in Heights
  PROVE  LET k == DrainCount(buf, n) IN
         /\ k \in 0..Len(buf)
         /\ SubSeq(buf, 1, k) \in Seq(Message)
         /\ SubSeq(buf, k + 1, Len(buf)) \in Seq(Message)
         /\ SubSeq(buf, 1, k) \o <<BlockMsg("NewBlock", n)>>
              = Append(SubSeq(buf, 1, k), BlockMsg("NewBlock", n))
         /\ SubSeq(buf, 1, k) \o <<BlockMsg("NewBlock", n)>> \in Seq(Message)
<1> DEFINE k == DrainCount(buf, n)
<1>1. buf \in Seq(Message) /\ n \in Nat
  BY DEF TypeOK, Heights
<1>2. k \in 0..Len(buf)
  BY <1>1, DrainsFromTheFront
<1>3. BlockMsg("NewBlock", n) \in Message
  BY HeightMakesMessage
<1> HIDE DEF k
<1>4. SubSeq(buf, 1, k) \in Seq(Message) /\ SubSeq(buf, k + 1, Len(buf)) \in Seq(Message)
  BY <1>1, <1>2, PartsOfSeq
<1>5. SubSeq(buf, 1, k) \o <<BlockMsg("NewBlock", n)>>
        = Append(SubSeq(buf, 1, k), BlockMsg("NewBlock", n))
  BY <1>3, <1>4, AppendIsConcat
<1>6. SubSeq(buf, 1, k) \o <<BlockMsg("NewBlock", n)>> \in Seq(Message)
  BY <1>3, <1>4, <1>5
<1> QED
  BY <1>2, <1>4, <1>5, <1>6 DEF k

\* The alternatives of Receive.
TakesHead(m) ==
  /\ m.kind = "NewHead"
  /\ last_block_height' = m.block
  /\ confirmed' = SubSeq(buf, 1, DrainCount(buf, m.block)) \o <<BlockMsg("NewBlock", m.block)>>
  /\ buf' = SubSeq(buf, DrainCount(buf, m.block) + 1, Len(buf))
  /\ UNCHANGED order_company
TakesPlaced(m) ==
  /\ m.kind = "OrderPlaced"
  /\ order_company' = Remember(m.order_id, m.company_id)
  /\ buf' = Append(buf, m)
  /\ UNCHANGED <<confirmed, last_block_height>>
TakesSettled(m) ==
  /\ m.kind = "TradeSettled"
  /\ buf' = Append(buf, m)
  /\ UNCHANGED <<confirmed, last_block_height, order_company>>
TakesCancelled(m) ==
  /\ m.kind = "OrderCancelled"
  /\ m.order_id \in DOMAIN order_company
  /\ buf' = Append(buf, [m EXCEPT !.company_id = order_company[m.order_id]])
  /\ order_company' = Forget(m.order_id)
  /\ UNCHANGED <<confirmed, last_block_height>>
TakesUnknown(m) ==
  /\ m.kind = "OrderCancelled"
  /\ m.order_id \notin DOMAIN order_company
  /\ UNCHANGED <<buf, order_company, confirmed, last_block_height>>

LEMMA ReceiveCases ==
  ASSUME Receive
  PROVE  /\ confirmed = <<>> /\ chain_chan # <<>> /\ chain_chan' = Tail(chain_chan)
         /\ UNCHANGED <<chain, alive, cursor, head, event_chan, delivered, reorgs>>
         /\ LET m == Head(chain_chan) IN
            \/ TakesHead(m) \/ TakesPlaced(m) \/ TakesSettled(m)
            \/ TakesCancelled(m) \/ TakesUnknown(m)
BY DEF Receive, listenerVars, Push, TakesHead, TakesPlaced, TakesSettled,
       TakesCancelled, TakesUnknown

\* A cancellation that is passed on names the company of the order.
LEMMA Resolved ==
  ASSUME NEW m \in Message, m.kind = "OrderCancelled", NEW c \in Companies
  PROVE  LET e == [m EXCEPT !.company_id = c] IN
         /\ e \in Message /\ IsMarket(e)
         /\ e.kind = "OrderCancelled" /\ e.block = m.block
         /\ e.order_id = m.order_id /\ e.company_id = c
<1>1. m \in [kind : {"OrderCancelled"}, block : Heights, order_id : 1..MaxOrder,
             company_id : Companies \cup {0}]
  BY DEF Message
<1> QED
  BY <1>1 DEF Message, IsMarket

LEMMA TypeReceive == TypeOK /\ Receive => TypeOK'
<1> SUFFICES ASSUME TypeOK, Receive PROVE TypeOK'
  OBVIOUS
<1> DEFINE m == Head(chain_chan)
<1>1. /\ confirmed = <<>> /\ chain_chan # <<>> /\ chain_chan' = Tail(chain_chan)
      /\ UNCHANGED <<chain, alive, cursor, head, event_chan, delivered, reorgs>>
      /\ \/ TakesHead(m) \/ TakesPlaced(m) \/ TakesSettled(m)
         \/ TakesCancelled(m) \/ TakesUnknown(m)
  BY ReceiveCases
<1>2. m \in Message /\ chain_chan' \in Seq(Message) /\ Len(chain_chan') <= ChainCapacity
  BY <1>1, TakenMessage
<1> HIDE DEF m
<1>3. buf \in Seq(Message) /\ confirmed \in Seq(Message) /\ last_block_height \in Heights
  BY DEF TypeOK
<1>4. /\ DOMAIN order_company \subseteq 2..MaxOrder
      /\ \A id \in DOMAIN order_company : order_company[id] \in Companies
      /\ order_company \in [DOMAIN order_company -> Companies]
  BY DEF TypeOK
<1>5. SUFFICES /\ buf' \in Seq(Message) /\ confirmed' \in Seq(Message)
               /\ last_block_height' \in Heights
               /\ DOMAIN order_company' \subseteq 2..MaxOrder
               /\ order_company' \in [DOMAIN order_company' -> Companies]
  BY <1>1, <1>2 DEF TypeOK
<1>6. CASE TakesHead(m)
  <2>1. m.block \in Heights
    BY <1>2, MessageFacts
  <2>2. confirmed' \in Seq(Message) /\ buf' \in Seq(Message)
    BY <2>1, <1>6, Drained DEF TakesHead
  <2> QED
    BY <2>1, <2>2, <1>4, <1>6 DEF TakesHead
<1>7. CASE TakesPlaced(m)
  <2>1. m.order_id \in 2..MaxOrder /\ m.company_id \in Companies
    BY <1>2, <1>7, MessageFacts DEF TakesPlaced
  <2>2. order_company' = [o \in DOMAIN order_company \cup {m.order_id} |->
                            IF o = m.order_id THEN m.company_id ELSE order_company[o]]
    BY <1>7 DEF TakesPlaced, Remember
  <2>3. /\ DOMAIN order_company' = DOMAIN order_company \cup {m.order_id}
        /\ \A o \in DOMAIN order_company' : order_company'[o] \in Companies
    BY <2>1, <2>2, <1>4
  <2>4. order_company' \in [DOMAIN order_company' -> Companies]
    BY <2>2, <2>3
  <2>5. buf' \in Seq(Message)
    BY <1>2, <1>3, <1>7 DEF TakesPlaced
  <2> QED
    BY <2>1, <2>3, <2>4, <2>5, <1>3, <1>4, <1>7 DEF TakesPlaced
<1>8. CASE TakesSettled(m)
  <2>1. buf' \in Seq(Message)
    BY <1>2, <1>3, <1>8 DEF TakesSettled
  <2> QED
    BY <2>1, <1>3, <1>4, <1>8 DEF TakesSettled
<1>9. CASE TakesCancelled(m)
  <2>1. order_company' = [o \in DOMAIN order_company \ {m.order_id} |-> order_company[o]]
    BY <1>9 DEF TakesCancelled, Forget
  <2>2. /\ DOMAIN order_company' = DOMAIN order_company \ {m.order_id}
        /\ \A o \in DOMAIN order_company' : order_company'[o] \in Companies
    BY <2>1, <1>4
  <2>3. order_company' \in [DOMAIN order_company' -> Companies]
    BY <2>1, <2>2
  <2>4. [m EXCEPT !.company_id = order_company[m.order_id]] \in Message
    BY <1>2, <1>4, <1>9, Resolved DEF TakesCancelled
  <2>5. buf' \in Seq(Message)
    BY <2>4, <1>3, <1>9 DEF TakesCancelled
  <2> QED
    BY <2>2, <2>3, <2>5, <1>3, <1>4, <1>9 DEF TakesCancelled
<1>10. CASE TakesUnknown(m)
  BY <1>3, <1>4, <1>10 DEF TakesUnknown
<1> QED
  BY <1>1, <1>6, <1>7, <1>8, <1>9, <1>10

LEMMA TypeSend == TypeOK /\ Send => TypeOK'
<1> SUFFICES ASSUME TypeOK, Send PROVE TypeOK'
  OBVIOUS
<1>1. confirmed \in Seq(Message) /\ event_chan \in Seq(Message) /\ confirmed # <<>>
  BY DEF TypeOK, Send
<1>2. /\ event_chan' = Append(event_chan, Head(confirmed))
      /\ confirmed' = Tail(confirmed)
      /\ Len(event_chan) < EventCapacity
  BY DEF Send
<1>3. Head(confirmed) \in Message /\ confirmed' \in Seq(Message)
  BY <1>1, <1>2
<1>4. event_chan' \in Seq(Message) /\ Len(event_chan') <= EventCapacity
  BY <1>1, <1>2, <1>3, StreamAssumption
<1> QED
  BY <1>3, <1>4 DEF TypeOK, Send, listenerVars

LEMMA TypeRunnerTakes == TypeOK /\ RunnerTakes => TypeOK'
<1> SUFFICES ASSUME TypeOK, RunnerTakes PROVE TypeOK'
  OBVIOUS
<1> DEFINE ev == Head(event_chan)
<1>1. /\ delivered \in Seq(Message) /\ event_chan \in Seq(Message) /\ event_chan # <<>>
      /\ Len(event_chan) <= EventCapacity
  BY DEF TypeOK, RunnerTakes
<1>2. /\ event_chan' = Tail(event_chan)
      /\ IF ev.kind \in {"NewBlock", "TradeSettled"}
           THEN last_block_height' = ev.block ELSE UNCHANGED last_block_height
      /\ IF ev.kind = "NewBlock" THEN UNCHANGED delivered
                                 ELSE delivered' = Append(delivered, ev)
  BY DEF RunnerTakes
<1>3. ev \in Message /\ event_chan' \in Seq(Message) /\ Len(event_chan') <= EventCapacity
  BY <1>1, <1>2, StreamAssumption
<1> HIDE DEF ev
<1>4. delivered' \in Seq(Message)
  <2>1. Append(delivered, ev) \in Seq(Message)
    BY <1>1, <1>3
  <2> QED
    BY <1>1, <1>2, <2>1
<1>5. last_block_height' \in Heights
  BY <1>2, <1>3, MessageFacts DEF TypeOK
<1> QED
  BY <1>3, <1>4, <1>5 DEF TypeOK, RunnerTakes, listenerVars

LEMMA TypeStep == TypeOK /\ [Next]_vars => TypeOK'
<1> SUFFICES ASSUME TypeOK, [Next]_vars PROVE TypeOK'
  OBVIOUS
<1>1. CASE UNCHANGED vars
  BY <1>1 DEF vars, TypeOK
<1> QED
  BY <1>1, TypeMine, TypeReorg, TypePoll, TypeFetchBlock, TypeListenerExits,
     TypeReceive, TypeSend, TypeRunnerTakes DEF Next

\* Chain, listener, streamer and runner keep their types, and both channels their
\* capacities, for any companies, bounds and confirmations (aide_daemon.rs:386).
THEOREM TypeCorrect == Spec => []TypeOK
<1> QED
  BY TypeInit, TypeStep, PTL DEF Spec

-----------------------------------------------------------------------------
(* The order of events, queue by queue, and the heights they come from. *)
Before(A, B) == \A e \in A, f \in B : e.block < f.block

Ordered ==
  /\ Sorted(delivered) /\ Sorted(event_chan) /\ Sorted(confirmed)
  /\ Sorted(buf) /\ Sorted(chain_chan)
  /\ Before(Events(delivered), Events(event_chan) \cup Events(confirmed)
                                 \cup Events(buf) \cup Events(chain_chan))
  /\ Before(Events(event_chan), Events(confirmed) \cup Events(buf) \cup Events(chain_chan))
  /\ Before(Events(confirmed), Events(buf) \cup Events(chain_chan))
  /\ Before(Events(buf), Events(chain_chan))

Passed == Events(delivered) \cup Events(event_chan) \cup Events(confirmed) \cup Events(buf)
OnTheWay == Passed \cup Events(chain_chan)

\* Heights are read in order, from the first cursor.
ReadOnce == \A m \in OnTheWay : m.block \in (FirstCursor + 1)..cursor

\* The head of one queue moves to the end of the one before it.
LEMMA MoveHead ==
  ASSUME NEW S, NEW q \in Seq(S), NEW r \in Seq(S), r # <<>>, NEW e,
         Sorted(q), Sorted(r), Before(Events(q), Events(r)),
         IsMarket(e) => IsMarket(Head(r)) /\ e.block = Head(r).block
  PROVE  /\ Sorted(Append(q, e)) /\ Sorted(Tail(r))
         /\ Before(Events(Append(q, e)), Events(Tail(r)))
<1>1. Sorted(Tail(r)) /\ (IsMarket(Head(r)) => Before({Head(r)}, Events(Tail(r))))
  BY SortedTail DEF Before
<1>2. CASE ~IsMarket(e)
  <2>1. Events(Append(q, e)) = Events(q) /\ Sorted(Append(q, e))
    BY <1>2, EventsOfAppend, SortedAppend
  <2>2. Events(Tail(r)) \subseteq Events(r)
    BY EventsOfTail
  <2> QED
    BY <1>1, <2>1, <2>2 DEF Before
<1>3. CASE IsMarket(e)
  <2>1. Events(r) = Events(Tail(r)) \cup {Head(r)}
    BY <1>3, EventsOfTail
  <2>2. \A m \in Events(q) : m.block < e.block
    BY <2>1, <1>3 DEF Before
  <2>3. Sorted(Append(q, e))
    BY <2>2, SortedAppend
  <2>4. Events(Append(q, e)) = Events(q) \cup {e}
    BY <1>3, EventsOfAppend
  <2> QED
    BY <1>1, <1>3, <2>1, <2>3, <2>4 DEF Before
<1> QED
  BY <1>2, <1>3

LEMMA EventsOfMove ==
  ASSUME NEW S, NEW q \in Seq(S), NEW r \in Seq(S), r # <<>>
  PROVE  Events(Append(q, Head(r))) \cup Events(Tail(r)) = Events(q) \cup Events(r)
<1>1. CASE IsMarket(Head(r))
  <2>1. Events(Append(q, Head(r))) = Events(q) \cup {Head(r)}
    BY <1>1, EventsOfAppend
  <2>2. Events(r) = Events(Tail(r)) \cup {Head(r)}
    BY <1>1, EventsOfTail
  <2> QED
    BY <2>1, <2>2
<1>2. CASE ~IsMarket(Head(r))
  <2>1. Events(Append(q, Head(r))) = Events(q)
    BY <1>2, EventsOfAppend
  <2>2. Events(r) = Events(Tail(r))
    BY <1>2, EventsOfTail
  <2> QED
    BY <2>1, <2>2
<1> QED
  BY <1>1, <1>2

LEMMA OrderInit == Init => Ordered /\ OnTheWay = {}
<1> SUFFICES ASSUME Init PROVE Ordered /\ OnTheWay = {}
  OBVIOUS
<1>1. Sorted(<<>>) /\ Events(<<>>) = {}
  BY DEF Sorted, Events, ToSet
<1>2. /\ delivered = <<>> /\ event_chan = <<>> /\ confirmed = <<>> /\ buf = <<>>
      /\ chain_chan = <<>>
  BY DEF Init
<1> QED
  BY <1>1, <1>2 DEF Ordered, OnTheWay, Passed, Before

\* Steps that leave the queues alone.
LEMMA OrderIdle ==
  ASSUME Ordered, ReadOnce, cursor' = cursor,
         UNCHANGED <<delivered, event_chan, confirmed, buf, chain_chan>>
  PROVE  Ordered' /\ ReadOnce' /\ Passed' = Passed /\ OnTheWay' = OnTheWay
BY DEF Ordered, ReadOnce, OnTheWay, Passed, Sorted, Before, Events

LEMMA OrderPoll ==
  ASSUME TypeOK, Ordered, ReadOnce, Poll
  PROVE  Ordered' /\ ReadOnce' /\ Passed' = Passed /\ OnTheWay' = OnTheWay
<1> DEFINE e == BlockMsg("NewHead", Len(chain))
<1>1. chain_chan' = Append(chain_chan, e) /\ cursor' = cursor
      /\ UNCHANGED <<delivered, event_chan, confirmed, buf>>
  BY DEF Poll
<1>2. chain_chan \in Seq(Message)
  BY DEF TypeOK
<1>3. ~IsMarket(e)
  BY DEF BlockMsg, IsMarket
<1> HIDE DEF e
<1>4. Events(chain_chan') = Events(chain_chan)
  BY <1>1, <1>2, <1>3, EventsOfAppend
<1>5. Sorted(chain_chan')
  BY <1>1, <1>2, <1>3, SortedAppend DEF Ordered
<1>6. Passed' = Passed /\ OnTheWay' = OnTheWay
  BY <1>1, <1>4 DEF Passed, OnTheWay
<1>7. Ordered'
  BY <1>1, <1>4, <1>5 DEF Ordered
<1> QED
  BY <1>1, <1>6, <1>7 DEF ReadOnce

LEMMA OrderFetchBlock ==
  ASSUME TypeOK, Ordered, ReadOnce, FetchBlock
  PROVE  /\ Ordered' /\ ReadOnce' /\ Passed' = Passed
         /\ \/ OnTheWay' = OnTheWay /\ chain_chan' = chain_chan
            \/ \E log \in Log :
                 /\ cursor + 1 \in 1..Len(chain) /\ chain[cursor + 1] = <<log>>
                 /\ OnTheWay' = OnTheWay \cup {At(cursor + 1, log)}
<1>1. /\ cursor \in Nat /\ cursor' = cursor + 1
      /\ cursor + 1 \in (FirstCursor + 1)..MaxBlocks
      /\ FirstCursor \in Nat /\ MaxBlocks \in Nat
  BY NextHeight, StreamAssumption DEF FirstCursor
<1>2. UNCHANGED <<delivered, event_chan, confirmed, buf, chain>>
  BY DEF FetchBlock
<1>3. Passed' = Passed
  BY <1>2 DEF Passed
<1>4. \A m \in OnTheWay : m.block \in (FirstCursor + 1)..(cursor + 1) /\ m.block < cursor + 1
  BY <1>1 DEF ReadOnce
<1>5. CASE chain_chan' = chain_chan
  <2>1. OnTheWay' = OnTheWay
    BY <1>3, <1>5 DEF OnTheWay
  <2>2. Ordered'
    BY <1>2, <1>5 DEF Ordered
  <2>3. ReadOnce'
    BY <1>1, <1>4, <2>1 DEF ReadOnce
  <2> QED
    BY <1>3, <1>5, <2>1, <2>2, <2>3
<1>6. ASSUME NEW log \in Log, cursor + 1 \in 1..Len(chain), chain[cursor + 1] = <<log>>,
             At(cursor + 1, log) \in Message,
             chain_chan' = Append(chain_chan, At(cursor + 1, log))
      PROVE  Ordered' /\ ReadOnce' /\ OnTheWay' = OnTheWay \cup {At(cursor + 1, log)}
  <2> DEFINE e == At(cursor + 1, log)
  <2>1. IsMarket(e) /\ e.block = cursor + 1
    BY <1>6, LogFacts DEF At, IsMarket
  <2>2. chain_chan \in Seq(Message) /\ chain_chan' = Append(chain_chan, e)
    BY <1>6 DEF TypeOK
  <2> HIDE DEF e
  <2>3. Events(chain_chan') = Events(chain_chan) \cup {e}
    BY <2>1, <2>2, EventsOfAppend
  <2>4. Before(OnTheWay, {e})
    BY <1>4, <2>1 DEF Before
  <2>5. Sorted(chain_chan')
    <3>1. \A m \in Events(chain_chan) : m.block < e.block
      BY <2>4 DEF Before, OnTheWay
    <3> QED
      BY <2>2, <3>1, SortedAppend DEF Ordered
  <2>6. /\ Before(Events(delivered), {e}) /\ Before(Events(event_chan), {e})
        /\ Before(Events(confirmed), {e}) /\ Before(Events(buf), {e})
    BY <2>4 DEF Before, OnTheWay, Passed
  <2>7. OnTheWay' = OnTheWay \cup {e}
    BY <1>3, <2>3 DEF OnTheWay
  <2>8. Ordered'
    <3> DEFINE ch == Events(chain_chan) \cup {e}
    <3>1. /\ Before(Events(delivered), Events(event_chan) \cup Events(confirmed)
                                         \cup Events(buf) \cup ch)
          /\ Before(Events(event_chan), Events(confirmed) \cup Events(buf) \cup ch)
          /\ Before(Events(confirmed), Events(buf) \cup ch)
          /\ Before(Events(buf), ch)
      BY <2>6 DEF Ordered, Before
    <3>2. Sorted(delivered) /\ Sorted(event_chan) /\ Sorted(confirmed) /\ Sorted(buf)
      BY DEF Ordered
    <3> QED
      BY <1>2, <2>3, <2>5, <3>1, <3>2 DEF Ordered
  <2>9. ReadOnce'
    BY <1>1, <1>4, <2>1, <2>7 DEF ReadOnce
  <2> QED
    BY <2>7, <2>8, <2>9 DEF e
<1> QED
  BY <1>3, <1>5, <1>6, NextHeight

LEMMA OrderRunnerTakes ==
  ASSUME TypeOK, Ordered, ReadOnce, RunnerTakes
  PROVE  Ordered' /\ ReadOnce' /\ Passed' = Passed /\ OnTheWay' = OnTheWay
<1> DEFINE ev == Head(event_chan)
<1>1. /\ delivered \in Seq(Message) /\ event_chan \in Seq(Message) /\ event_chan # <<>>
  BY DEF TypeOK, RunnerTakes
<1>2. /\ event_chan' = Tail(event_chan) /\ cursor' = cursor
      /\ UNCHANGED <<confirmed, buf, chain_chan>>
      /\ IF ev.kind = "NewBlock" THEN UNCHANGED delivered
                                 ELSE delivered' = Append(delivered, ev)
  BY DEF RunnerTakes, listenerVars
<1>3. Sorted(delivered) /\ Sorted(event_chan) /\ Before(Events(delivered), Events(event_chan))
  BY DEF Ordered, Before
<1>4. Sorted(delivered') /\ Sorted(event_chan') /\ Before(Events(delivered'), Events(event_chan'))
  <2>1. CASE ev.kind = "NewBlock"
    <3>1. Events(event_chan') = Events(event_chan)
      BY <1>1, <1>2, <2>1, EventsOfTail DEF IsMarket
    <3>2. Sorted(event_chan')
      BY <1>1, <1>2, <1>3, SortedTail
    <3> QED
      BY <1>2, <1>3, <2>1, <3>1, <3>2
  <2>2. CASE ev.kind # "NewBlock"
    <3>1. delivered' = Append(delivered, ev)
      BY <1>2, <2>2
    <3> QED
      BY <1>1, <1>2, <1>3, <3>1, MoveHead
  <2> QED
    BY <2>1, <2>2
<1>5. Events(delivered') \cup Events(event_chan') = Events(delivered) \cup Events(event_chan)
  <2>1. CASE ev.kind = "NewBlock"
    <3>1. Events(event_chan') = Events(event_chan)
      BY <1>1, <1>2, <2>1, EventsOfTail DEF IsMarket
    <3> QED
      BY <1>2, <2>1, <3>1
  <2>2. CASE ev.kind # "NewBlock"
    <3>1. delivered' = Append(delivered, ev)
      BY <1>2, <2>2
    <3> QED
      BY <1>1, <1>2, <3>1, EventsOfMove
  <2> QED
    BY <2>1, <2>2
<1> HIDE DEF ev
<1>6. Passed' = Passed /\ OnTheWay' = OnTheWay
  BY <1>2, <1>5 DEF Passed, OnTheWay
<1>7. ReadOnce'
  BY <1>2, <1>6 DEF ReadOnce
<1>8. Ordered'
  <2> DEFINE rest == Events(confirmed) \cup Events(buf) \cup Events(chain_chan)
  <2>1. Before(Events(delivered) \cup Events(event_chan), rest)
    BY DEF Before, Ordered
  <2>2. Before(Events(delivered') \cup Events(event_chan'), rest)
    BY <1>5, <2>1
  <2>3. /\ Before(Events(delivered'), Events(event_chan') \cup rest)
        /\ Before(Events(event_chan'), rest)
    BY <1>4, <2>2 DEF Before
  <2>4. Before(Events(delivered'), Events(event_chan') \cup Events(confirmed)
                                     \cup Events(buf) \cup Events(chain_chan))
    BY <2>3 DEF Before
  <2> QED
    BY <1>2, <1>4, <2>3, <2>4 DEF Ordered
<1> QED
  BY <1>6, <1>7, <1>8

LEMMA OrderSend ==
  ASSUME TypeOK, Ordered, ReadOnce, Send
  PROVE  Ordered' /\ ReadOnce' /\ Passed' = Passed /\ OnTheWay' = OnTheWay
<1>1. /\ confirmed \in Seq(Message) /\ event_chan \in Seq(Message) /\ confirmed # <<>>
  BY DEF TypeOK, Send
<1>2. /\ event_chan' = Append(event_chan, Head(confirmed)) /\ confirmed' = Tail(confirmed)
      /\ UNCHANGED <<delivered, buf, chain_chan, cursor>>
  BY DEF Send, listenerVars
<1>3. Sorted(event_chan) /\ Sorted(confirmed) /\ Before(Events(event_chan), Events(confirmed))
  BY DEF Ordered, Before
<1>4. Sorted(event_chan') /\ Sorted(confirmed') /\ Before(Events(event_chan'), Events(confirmed'))
  BY <1>1, <1>2, <1>3, MoveHead
<1>5. Events(event_chan') \cup Events(confirmed') = Events(event_chan) \cup Events(confirmed)
  BY <1>1, <1>2, EventsOfMove
<1>6. Passed' = Passed /\ OnTheWay' = OnTheWay
  BY <1>2, <1>5 DEF Passed, OnTheWay
<1>7. ReadOnce'
  BY <1>2, <1>6 DEF ReadOnce
<1>8. Ordered'
  <2> DEFINE rest == Events(buf) \cup Events(chain_chan)
  <2>1. Before(Events(event_chan) \cup Events(confirmed), rest)
    BY DEF Before, Ordered
  <2>2. /\ Before(Events(event_chan'), Events(confirmed') \cup rest)
        /\ Before(Events(confirmed'), rest)
    BY <1>4, <1>5, <2>1 DEF Before
  <2>3. Before(Events(delivered), (Events(event_chan) \cup Events(confirmed)) \cup rest)
    BY DEF Before, Ordered
  <2>4. Before(Events(delivered), Events(event_chan') \cup Events(confirmed')
                                    \cup Events(buf) \cup Events(chain_chan))
    BY <1>5, <2>3 DEF Before
  <2>5. Before(Events(event_chan'), Events(confirmed') \cup Events(buf) \cup Events(chain_chan))
    BY <2>2 DEF Before
  <2> QED
    BY <1>2, <1>4, <2>2, <2>4, <2>5 DEF Ordered
<1> QED
  BY <1>6, <1>7, <1>8

\* A head releases a prefix of the buffer.
LEMMA OrderHead ==
  ASSUME TypeOK, Ordered, ReadOnce, Receive, TakesHead(Head(chain_chan))
  PROVE  Ordered' /\ ReadOnce' /\ Passed' = Passed /\ OnTheWay' = OnTheWay
<1> DEFINE m == Head(chain_chan)
           k == DrainCount(buf, m.block)
           p == SubSeq(buf, 1, k)
           nb == BlockMsg("NewBlock", m.block)
<1>1. /\ confirmed = <<>> /\ chain_chan # <<>> /\ chain_chan' = Tail(chain_chan)
      /\ UNCHANGED <<event_chan, delivered, cursor>>
  BY ReceiveCases
<1>2. m \in Message /\ m.block \in Heights /\ m.kind = "NewHead"
  BY <1>1, TakenMessage, MessageFacts DEF TakesHead
<1>3. /\ k \in 0..Len(buf) /\ p \in Seq(Message)
      /\ confirmed' = Append(p, nb) /\ buf' = SubSeq(buf, k + 1, Len(buf))
  BY <1>2, Drained DEF TakesHead
<1>4. buf \in Seq(Message) /\ Sorted(buf) /\ Sorted(chain_chan) /\ chain_chan \in Seq(Message)
  BY DEF TypeOK, Ordered
<1>5. ~IsMarket(nb) /\ ~IsMarket(m)
  BY <1>2 DEF BlockMsg, IsMarket
<1> HIDE DEF k, p, nb
<1>6. /\ Sorted(p) /\ Sorted(buf')
      /\ Events(buf) = Events(p) \cup Events(buf') /\ Before(Events(p), Events(buf'))
  BY <1>3, <1>4, EventsOfParts, SortedParts DEF p, Before
<1>7. Events(confirmed') = Events(p) /\ Sorted(confirmed')
  BY <1>3, <1>5, <1>6, EventsOfAppend, SortedAppend
<1>8. Events(chain_chan') = Events(chain_chan) /\ Sorted(chain_chan')
  BY <1>1, <1>4, <1>5, EventsOfTail, SortedTail
<1> HIDE DEF m
<1>9. Events(confirmed) = {}
  BY <1>1 DEF Events, ToSet
<1>10. Passed' = Passed /\ OnTheWay' = OnTheWay
  BY <1>1, <1>6, <1>7, <1>8, <1>9 DEF Passed, OnTheWay
<1>11. ReadOnce'
  BY <1>1, <1>10 DEF ReadOnce
<1>12. Ordered'
  <2> DEFINE ch == Events(chain_chan)
  <2>1. /\ Before(Events(delivered), Events(event_chan) \cup Events(buf) \cup ch)
        /\ Before(Events(event_chan), Events(buf) \cup ch)
        /\ Before(Events(buf), ch)
    BY <1>9 DEF Ordered, Before
  <2>2. /\ Before(Events(delivered), Events(event_chan) \cup Events(p) \cup Events(buf') \cup ch)
        /\ Before(Events(event_chan), Events(p) \cup Events(buf') \cup ch)
        /\ Before(Events(p), Events(buf') \cup ch)
        /\ Before(Events(buf'), ch)
    BY <1>6, <2>1 DEF Before
  <2>3. /\ Sorted(delivered) /\ Sorted(event_chan)
    BY DEF Ordered
  <2> QED
    BY <1>1, <1>6, <1>7, <1>8, <2>2, <2>3 DEF Ordered
<1> QED
  BY <1>10, <1>11, <1>12

\* An event goes from the channel to the end of the buffer; e is what is buffered
\* of it.
LEMMA OrderPush ==
  ASSUME TypeOK, Ordered, ReadOnce, Receive,
         NEW e, buf' = Append(buf, e), UNCHANGED confirmed,
         IsMarket(Head(chain_chan)), IsMarket(e), e.block = Head(chain_chan).block
  PROVE  /\ Ordered' /\ ReadOnce'
         /\ Passed' = Passed \cup {e}
         /\ OnTheWay = Passed \cup Events(chain_chan') \cup {Head(chain_chan)}
         /\ OnTheWay' = Passed \cup Events(chain_chan') \cup {e}
         /\ Before(Passed, {e}) /\ Before({e}, Events(chain_chan'))
<1> DEFINE m == Head(chain_chan)
<1>1. /\ chain_chan # <<>> /\ chain_chan' = Tail(chain_chan)
      /\ UNCHANGED <<event_chan, delivered, cursor>>
  BY ReceiveCases
<1>2. buf \in Seq(Message) /\ chain_chan \in Seq(Message)
  BY DEF TypeOK
<1>3. Sorted(buf) /\ Sorted(chain_chan) /\ Before(Events(buf), Events(chain_chan))
  BY DEF Ordered
<1>4. Sorted(buf') /\ Sorted(chain_chan') /\ Before(Events(buf'), Events(chain_chan'))
  BY <1>1, <1>2, <1>3, MoveHead
<1>5. Events(buf') = Events(buf) \cup {e}
  BY <1>2, EventsOfAppend
<1>6. Events(chain_chan) = Events(chain_chan') \cup {m}
  BY <1>1, <1>2, EventsOfTail
<1> HIDE DEF m
<1>7. /\ Passed' = Passed \cup {e}
      /\ OnTheWay = Passed \cup Events(chain_chan') \cup {m}
      /\ OnTheWay' = Passed \cup Events(chain_chan') \cup {e}
  BY <1>1, <1>5, <1>6 DEF Passed, OnTheWay
<1>8. ReadOnce'
  BY <1>1, <1>7 DEF ReadOnce, m
<1>9. Before(Passed, {e}) /\ Before({e}, Events(chain_chan'))
  <2>1. Before(Passed, Events(chain_chan))
    BY DEF Ordered, Passed, Before
  <2> QED
    BY <2>1, <1>4, <1>5, <1>6 DEF Before, m
<1>10. Ordered'
  <2> DEFINE ch == Events(chain_chan')
  <2>1. /\ Before(Events(delivered), {e}) /\ Before(Events(event_chan), {e})
        /\ Before(Events(confirmed), {e})
    BY <1>9 DEF Before, Passed
  <2>2. /\ Before(Events(delivered), Events(event_chan) \cup Events(confirmed)
                                       \cup (Events(buf) \cup {e}) \cup ch)
        /\ Before(Events(event_chan), Events(confirmed) \cup (Events(buf) \cup {e}) \cup ch)
        /\ Before(Events(confirmed), (Events(buf) \cup {e}) \cup ch)
    BY <2>1, <1>6 DEF Ordered, Before
  <2>3. Sorted(delivered) /\ Sorted(event_chan) /\ Sorted(confirmed)
    BY DEF Ordered
  <2> QED
    BY <1>1, <1>4, <1>5, <2>2, <2>3 DEF Ordered
<1> QED
  BY <1>7, <1>8, <1>9, <1>10 DEF m

\* The cancellation of an unknown order is dropped.
LEMMA OrderDrop ==
  ASSUME TypeOK, Ordered, ReadOnce, Receive, IsMarket(Head(chain_chan)),
         UNCHANGED <<buf, confirmed>>
  PROVE  /\ Ordered' /\ ReadOnce' /\ Passed' = Passed
         /\ OnTheWay = OnTheWay' \cup {Head(chain_chan)}
         /\ Before({Head(chain_chan)}, Events(chain_chan'))
         /\ Before(Passed, {Head(chain_chan)})
<1> DEFINE m == Head(chain_chan)
<1>1. /\ chain_chan # <<>> /\ chain_chan' = Tail(chain_chan)
      /\ UNCHANGED <<event_chan, delivered, cursor>>
  BY ReceiveCases
<1>2. chain_chan \in Seq(Message) /\ Sorted(chain_chan)
  BY DEF TypeOK, Ordered
<1>3. Events(chain_chan) = Events(chain_chan') \cup {m}
  BY <1>1, <1>2, EventsOfTail
<1>4. Sorted(chain_chan') /\ Before({m}, Events(chain_chan'))
  BY <1>1, <1>2, SortedTail DEF Before
<1> HIDE DEF m
<1>5. Passed' = Passed /\ OnTheWay = OnTheWay' \cup {m}
  BY <1>1, <1>3 DEF Passed, OnTheWay
<1>6. ReadOnce'
  BY <1>1, <1>5 DEF ReadOnce
<1>7. Before(Passed, {m})
  BY <1>3 DEF Ordered, Passed, Before
<1>8. Ordered'
  BY <1>1, <1>3, <1>4 DEF Ordered, Before
<1> QED
  BY <1>4, <1>5, <1>6, <1>7, <1>8 DEF m

\* A cancellation with the company that the order map has for its order.
Named(m) == [m EXCEPT !.company_id = order_company[m.order_id]]

\* What a step does to the events that are passed on and to those on their way:
\* nothing, or the listener adds the log of the next height, or the streamer takes
\* the first event of its channel.
StaysPut == Passed' = Passed /\ OnTheWay' = OnTheWay
Reads ==
  /\ FetchBlock /\ cursor' = cursor + 1 /\ Passed' = Passed
  /\ \/ OnTheWay' = OnTheWay /\ chain_chan' = chain_chan
     \/ \E log \in Log :
          /\ cursor + 1 \in 1..Len(chain) /\ chain[cursor + 1] = <<log>>
          /\ OnTheWay' = OnTheWay \cup {At(cursor + 1, log)}
TakesEvent(m, e) ==
  /\ m \in Message /\ e \in Message /\ IsMarket(m) /\ IsMarket(e)
  /\ e.block = m.block /\ e.kind = m.kind /\ e.order_id = m.order_id
  /\ Passed' = Passed \cup {e}
  /\ OnTheWay = Passed \cup Events(chain_chan') \cup {m}
  /\ OnTheWay' = Passed \cup Events(chain_chan') \cup {e}
  /\ Before(Passed, {m}) /\ Before({m}, Events(chain_chan'))
Drops(m) ==
  /\ m \in Message /\ IsMarket(m)
  /\ Passed' = Passed /\ OnTheWay = OnTheWay' \cup {m}
  /\ OnTheWay' = Passed \cup Events(chain_chan')
  /\ Before(Passed, {m}) /\ Before({m}, Events(chain_chan'))

ReceiveEvent ==
  LET m == Head(chain_chan) IN
  \/ /\ TakesHead(m) /\ StaysPut
  \/ /\ TakesPlaced(m) \/ TakesSettled(m)
     /\ TakesEvent(m, m)
  \/ /\ TakesCancelled(m) /\ TakesEvent(m, Named(m))
     /\ Named(m).company_id = order_company[m.order_id]
  \/ /\ TakesUnknown(m) /\ Drops(m)

LEMMA OrderReceive ==
  ASSUME TypeOK, Ordered, ReadOnce, Receive
  PROVE  Ordered' /\ ReadOnce' /\ ReceiveEvent
<1> DEFINE m == Head(chain_chan)
<1>1. /\ confirmed = <<>> /\ chain_chan # <<>> /\ chain_chan' = Tail(chain_chan)
      /\ UNCHANGED <<event_chan, delivered, cursor>>
      /\ \/ TakesHead(m) \/ TakesPlaced(m) \/ TakesSettled(m)
         \/ TakesCancelled(m) \/ TakesUnknown(m)
  BY ReceiveCases
<1>2. m \in Message
  BY <1>1, TakenMessage
<1>3. CASE TakesHead(m)
  BY <1>3, OrderHead DEF ReceiveEvent, StaysPut
<1>4. CASE TakesPlaced(m) \/ TakesSettled(m)
  <2>1. IsMarket(m) /\ buf' = Append(buf, m) /\ UNCHANGED confirmed
    BY <1>4 DEF TakesPlaced, TakesSettled, IsMarket
  <2>2. /\ Ordered' /\ ReadOnce' /\ Passed' = Passed \cup {m}
        /\ OnTheWay = Passed \cup Events(chain_chan') \cup {m}
        /\ OnTheWay' = Passed \cup Events(chain_chan') \cup {m}
        /\ Before(Passed, {m}) /\ Before({m}, Events(chain_chan'))
    BY <2>1, OrderPush
  <2>3. TakesEvent(m, m)
    BY <1>2, <2>1, <2>2 DEF TakesEvent
  <2> QED
    BY <1>4, <2>2, <2>3 DEF ReceiveEvent
<1>5. CASE TakesCancelled(m)
  <2> DEFINE e == Named(m)
  <2>1. /\ m.kind = "OrderCancelled" /\ m.order_id \in DOMAIN order_company
        /\ buf' = Append(buf, e) /\ UNCHANGED confirmed
    BY <1>5 DEF TakesCancelled, Named
  <2>2. order_company[m.order_id] \in Companies
    BY <2>1 DEF TypeOK
  <2>3. /\ e \in Message /\ IsMarket(e) /\ e.kind = "OrderCancelled"
        /\ e.block = m.block /\ e.order_id = m.order_id
        /\ e.company_id = order_company[m.order_id]
    BY <1>2, <2>1, <2>2, Resolved DEF Named
  <2>4. IsMarket(m)
    BY <2>1 DEF IsMarket
  <2> HIDE DEF e
  <2>5. /\ Ordered' /\ ReadOnce' /\ Passed' = Passed \cup {e}
        /\ OnTheWay = Passed \cup Events(chain_chan') \cup {m}
        /\ OnTheWay' = Passed \cup Events(chain_chan') \cup {e}
        /\ Before(Passed, {e}) /\ Before({e}, Events(chain_chan'))
    BY <2>1, <2>3, <2>4, OrderPush
  <2>6. Before(Passed, {m}) /\ Before({m}, Events(chain_chan'))
    BY <2>3, <2>5 DEF Before
  <2>7. TakesEvent(m, e)
    BY <1>2, <2>1, <2>3, <2>4, <2>5, <2>6 DEF TakesEvent
  <2> QED
    BY <1>5, <2>3, <2>5, <2>7 DEF ReceiveEvent, e
<1>6. CASE TakesUnknown(m)
  <2>1. IsMarket(m) /\ UNCHANGED <<buf, confirmed>>
    BY <1>6 DEF TakesUnknown, IsMarket
  <2>2. /\ Ordered' /\ ReadOnce' /\ Passed' = Passed
        /\ OnTheWay = OnTheWay' \cup {m}
        /\ Before({m}, Events(chain_chan')) /\ Before(Passed, {m})
    BY <2>1, OrderDrop
  <2>3. OnTheWay' = Passed \cup Events(chain_chan')
    BY <2>2 DEF OnTheWay
  <2>4. Drops(m)
    BY <1>2, <2>1, <2>2, <2>3 DEF Drops
  <2> QED
    BY <1>6, <2>2, <2>4 DEF ReceiveEvent
<1> QED
  BY <1>1, <1>3, <1>4, <1>5, <1>6

\* Every step keeps the order; seen as a step of sets of events it is one of these.
LEMMA OrderStep ==
  ASSUME TypeOK, Ordered, ReadOnce, [Next]_vars
  PROVE  /\ Ordered' /\ ReadOnce'
         /\ \/ Receive /\ ReceiveEvent
            \/ Reads /\ UNCHANGED <<chain, order_company, reorgs>>
            \/ Mine /\ StaysPut
            \/ Reorg /\ StaysPut
            \/ StaysPut /\ UNCHANGED <<chain, order_company, reorgs, cursor>>
<1>1. CASE Mine
  <2>1. UNCHANGED <<delivered, event_chan, confirmed, buf, chain_chan, cursor>>
    BY <1>1 DEF Mine, listenerVars
  <2> QED
    BY <1>1, <2>1, OrderIdle DEF StaysPut
<1>2. CASE Reorg
  <2>1. UNCHANGED <<delivered, event_chan, confirmed, buf, chain_chan, cursor>>
    BY <1>2 DEF Reorg, listenerVars
  <2> QED
    BY <1>2, <2>1, OrderIdle DEF StaysPut
<1>3. CASE Poll
  BY <1>3, OrderPoll DEF StaysPut, Poll
<1>4. CASE FetchBlock
  <2>1. cursor' = cursor + 1 /\ UNCHANGED <<chain, order_company, reorgs>>
    BY <1>4 DEF FetchBlock, NextBlock
  <2> QED
    BY <1>4, <2>1, OrderFetchBlock DEF Reads
<1>5. CASE ListenerExits \/ UNCHANGED vars
  <2>1. UNCHANGED <<delivered, event_chan, confirmed, buf, chain_chan, cursor>>
    BY <1>5 DEF ListenerExits, vars
  <2>2. UNCHANGED <<chain, order_company, reorgs>>
    BY <1>5 DEF ListenerExits, vars
  <2> QED
    BY <2>1, <2>2, OrderIdle DEF StaysPut
<1>6. CASE Receive
  BY <1>6, OrderReceive
<1>7. CASE Send
  BY <1>7, OrderSend DEF StaysPut, Send, listenerVars
<1>8. CASE RunnerTakes
  BY <1>8, OrderRunnerTakes DEF StaysPut, RunnerTakes, listenerVars
<1> QED
  BY <1>1, <1>2, <1>3, <1>4, <1>5, <1>6, <1>7, <1>8 DEF Next

LEMMA OrderShown == Ordered => InBlockOrder
<1> SUFFICES ASSUME Ordered PROVE InBlockOrder
  OBVIOUS
<1>1. /\ Stages[1] = delivered /\ Stages[2] = event_chan /\ Stages[3] = confirmed
      /\ Stages[4] = buf /\ Stages[5] = chain_chan
  BY DEF Stages
<1>2. \A s \in 1..5 : s = 1 \/ s = 2 \/ s = 3 \/ s = 4 \/ s = 5
  OBVIOUS
<1>3. \A s \in 1..5 : Sorted(Stages[s])
  BY <1>1, <1>2 DEF Ordered
<1>4. /\ Before(Events(Stages[1]), Events(Stages[2])) /\ Before(Events(Stages[1]), Events(Stages[3]))
      /\ Before(Events(Stages[1]), Events(Stages[4])) /\ Before(Events(Stages[1]), Events(Stages[5]))
      /\ Before(Events(Stages[2]), Events(Stages[3])) /\ Before(Events(Stages[2]), Events(Stages[4]))
      /\ Before(Events(Stages[2]), Events(Stages[5])) /\ Before(Events(Stages[3]), Events(Stages[4]))
      /\ Before(Events(Stages[3]), Events(Stages[5])) /\ Before(Events(Stages[4]), Events(Stages[5]))
  BY <1>1 DEF Ordered, Before
<1>5. \A s, t \in 1..5 : s < t => Before(Events(Stages[s]), Events(Stages[t]))
  BY <1>2, <1>4
<1> QED
  BY <1>3, <1>5 DEF InBlockOrder, Before

\* For any number of blocks, logs and reorganisations, and whatever fills the
\* channels: the events of a block never overtake those of an earlier one, so that
\* draining the buffer from the front leaves no confirmed event behind
\* (aide_daemon.rs:75).
THEOREM EventsKeepBlockOrder == Spec => []InBlockOrder
<1> DEFINE I == TypeOK /\ Ordered /\ ReadOnce
<1>1. Init => I
  BY TypeInit, OrderInit DEF ReadOnce
<1>2. I /\ [Next]_vars => I'
  BY TypeStep, OrderStep
<1>3. I => InBlockOrder
  BY OrderShown
<1> QED
  BY <1>1, <1>2, <1>3, PTL DEF Spec

-----------------------------------------------------------------------------
(* Cancellations and the order map. *)
Places(p, id, c) == p.kind = "OrderPlaced" /\ p.order_id = id /\ p.company_id = c

\* p is the last event of its order before m.
LastBefore(p, m, events) ==
  /\ p.block < m.block
  /\ \A e \in events : p.block < e.block /\ e.block < m.block => e.order_id # m.order_id

CancelsResolved ==
  \A m \in Passed : m.kind = "OrderCancelled" =>
    \E p \in Passed : Places(p, m.order_id, m.company_id) /\ LastBefore(p, m, Passed)

MapIsLatest ==
  \A id \in DOMAIN order_company :
    \E p \in Passed : /\ Places(p, id, order_company[id])
                      /\ \A e \in Passed : p.block < e.block => e.order_id # id

MapForgetsCancelled ==
  \A p \in Passed : p.kind = "OrderPlaced" =>
    \/ p.order_id \in DOMAIN order_company
    \/ \E r \in Passed : r.kind = "OrderCancelled" /\ r.order_id = p.order_id

MapFine == CancelsResolved /\ MapIsLatest /\ MapForgetsCancelled

\* A new last event leaves the cancellations before it resolved.
LEMMA StayResolved ==
  ASSUME CancelsResolved, \A m \in Passed : m.block \in Nat,
         NEW e, e.block \in Nat, Before(Passed, {e})
  PROVE  \A m \in Passed : m.kind = "OrderCancelled" =>
           \E p \in Passed : /\ Places(p, m.order_id, m.company_id)
                             /\ LastBefore(p, m, Passed \cup {e})
<1> SUFFICES ASSUME NEW m \in Passed, m.kind = "OrderCancelled"
             PROVE  \E p \in Passed : /\ Places(p, m.order_id, m.company_id)
                                      /\ LastBefore(p, m, Passed \cup {e})
  OBVIOUS
<1>1. PICK p \in Passed : Places(p, m.order_id, m.company_id) /\ LastBefore(p, m, Passed)
  BY DEF CancelsResolved
<1>2. m.block \in Nat /\ m.block < e.block
  BY DEF Before
<1>3. ~(e.block < m.block)
  BY <1>2
<1>4. LastBefore(p, m, Passed \cup {e})
  BY <1>1, <1>3 DEF LastBefore
<1> QED
  BY <1>1, <1>4

LEMMA PassedAreMessages ==
  ASSUME TypeOK
  PROVE  \A m \in OnTheWay : m \in Message /\ IsMarket(m) /\ m.block \in Nat
<1>1. \A q \in {delivered, event_chan, confirmed, buf, chain_chan} : q \in Seq(Message)
  BY DEF TypeOK
<1>2. ASSUME NEW q \in Seq(Message), NEW m \in Events(q)
      PROVE  m \in Message /\ IsMarket(m)
  BY DEF Events, ToSet
<1> QED
  BY <1>1, <1>2, MessageFacts DEF OnTheWay, Passed

LEMMA MapInit == Init => MapFine
<1> SUFFICES ASSUME Init PROVE MapFine
  OBVIOUS
<1>1. Passed = {}
  BY OrderInit DEF OnTheWay
<1>2. DOMAIN order_company = {}
  BY DEF Init
<1> QED
  BY <1>1, <1>2 DEF MapFine, CancelsResolved, MapIsLatest, MapForgetsCancelled

LEMMA MapIdle ==
  ASSUME MapFine, Passed' = Passed, UNCHANGED order_company
  PROVE  MapFine'
BY DEF MapFine, CancelsResolved, MapIsLatest, MapForgetsCancelled

LEMMA MapPlaced ==
  ASSUME TypeOK, MapFine, NEW m, TakesPlaced(m), TakesEvent(m, m)
  PROVE  MapFine'
<1> DEFINE id == m.order_id
<1>1. /\ m \in Message /\ m.kind = "OrderPlaced" /\ Passed' = Passed \cup {m}
      /\ Before(Passed, {m})
  BY DEF TakesPlaced, TakesEvent
<1>2. m.block \in Nat /\ \A e \in Passed : e.block \in Nat /\ e.block < m.block
  BY <1>1, MessageFacts, PassedAreMessages DEF OnTheWay, Before
<1>3. order_company' = [o \in DOMAIN order_company \cup {id} |->
                          IF o = id THEN m.company_id ELSE order_company[o]]
  BY DEF TakesPlaced, Remember
<1>4. CancelsResolved'
  <2>1. \A c \in Passed : c.kind = "OrderCancelled" =>
          \E p \in Passed : /\ Places(p, c.order_id, c.company_id)
                            /\ LastBefore(p, c, Passed \cup {m})
    BY <1>1, <1>2, StayResolved DEF MapFine
  <2> QED
    BY <1>1, <2>1 DEF CancelsResolved
<1>5. MapIsLatest'
  <2> SUFFICES ASSUME NEW o \in DOMAIN order_company \cup {id}
               PROVE  \E p \in Passed' :
                        /\ Places(p, o, order_company'[o])
                        /\ \A e \in Passed' : p.block < e.block => e.order_id # o
    BY <1>3 DEF MapIsLatest
  <2>1. CASE o = id
    <3>1. order_company'[o] = m.company_id
      BY <1>3, <2>1
    <3>2. Places(m, o, order_company'[o])
      BY <1>1, <2>1, <3>1 DEF Places
    <3>3. \A e \in Passed' : ~(m.block < e.block)
      BY <1>1, <1>2
    <3> QED
      BY <1>1, <3>2, <3>3
  <2>2. CASE o # id
    <3>1. o \in DOMAIN order_company /\ order_company'[o] = order_company[o]
      BY <1>3, <2>2
    <3>2. PICK p \in Passed : /\ Places(p, o, order_company[o])
                              /\ \A e \in Passed : p.block < e.block => e.order_id # o
      BY <3>1 DEF MapFine, MapIsLatest
    <3>3. \A e \in Passed' : p.block < e.block => e.order_id # o
      BY <1>1, <2>2, <3>2
    <3> QED
      BY <1>1, <3>1, <3>2, <3>3
  <2> QED
    BY <2>1, <2>2
<1>6. MapForgetsCancelled'
  BY <1>1, <1>3 DEF MapFine, MapForgetsCancelled
<1> QED
  BY <1>4, <1>5, <1>6 DEF MapFine

LEMMA MapSettled ==
  ASSUME TypeOK, MapFine, NEW m, TakesSettled(m), TakesEvent(m, m)
  PROVE  MapFine'
<1>1. /\ m \in Message /\ m.kind = "TradeSettled" /\ Passed' = Passed \cup {m}
      /\ Before(Passed, {m}) /\ m.order_id = 0 /\ UNCHANGED order_company
  BY MessageFacts DEF TakesSettled, TakesEvent
<1>2. m.block \in Nat /\ \A e \in Passed : e.block \in Nat
  BY <1>1, MessageFacts, PassedAreMessages DEF OnTheWay
<1>3. CancelsResolved'
  <2>1. \A c \in Passed : c.kind = "OrderCancelled" =>
          \E p \in Passed : /\ Places(p, c.order_id, c.company_id)
                            /\ LastBefore(p, c, Passed \cup {m})
    BY <1>1, <1>2, StayResolved DEF MapFine
  <2> QED
    BY <1>1, <2>1 DEF CancelsResolved
<1>4. \A id \in DOMAIN order_company : id # 0
  BY DEF TypeOK
<1>5. MapIsLatest'
  <2> SUFFICES ASSUME NEW o \in DOMAIN order_company
               PROVE  \E p \in Passed' :
                        /\ Places(p, o, order_company[o])
                        /\ \A e \in Passed' : p.block < e.block => e.order_id # o
    BY <1>1 DEF MapIsLatest
  <2>1. PICK p \in Passed : /\ Places(p, o, order_company[o])
                            /\ \A e \in Passed : p.block < e.block => e.order_id # o
    BY DEF MapFine, MapIsLatest
  <2> QED
    BY <1>1, <1>4, <2>1
<1>6. MapForgetsCancelled'
  BY <1>1 DEF MapFine, MapForgetsCancelled
<1> QED
  BY <1>3, <1>5, <1>6 DEF MapFine

LEMMA MapCancelled ==
  ASSUME TypeOK, MapFine, NEW m, TakesCancelled(m), NEW n, TakesEvent(m, n),
         n.company_id = order_company[m.order_id]
  PROVE  MapFine'
<1> DEFINE id == m.order_id
<1>1. /\ n \in Message /\ n.kind = "OrderCancelled" /\ Passed' = Passed \cup {n}
      /\ n.order_id = id /\ id \in DOMAIN order_company
      /\ n.company_id = order_company[id]
      /\ \A e \in Passed : e.block < n.block
  BY DEF TakesCancelled, TakesEvent, Before
<1>2. n.block \in Nat /\ \A e \in Passed : e.block \in Nat
  BY <1>1, MessageFacts, PassedAreMessages DEF OnTheWay
<1>3. order_company' = [o \in DOMAIN order_company \ {id} |-> order_company[o]]
  BY DEF TakesCancelled, Forget
<1>4. CancelsResolved'
  <2>1. \A c \in Passed : c.kind = "OrderCancelled" =>
          \E p \in Passed : /\ Places(p, c.order_id, c.company_id)
                            /\ LastBefore(p, c, Passed \cup {n})
    BY <1>1, <1>2, StayResolved DEF MapFine, Before
  <2>2. PICK p \in Passed : /\ Places(p, id, order_company[id])
                            /\ \A e \in Passed : p.block < e.block => e.order_id # id
    BY <1>1 DEF MapFine, MapIsLatest
  <2>3. ~(n.block < n.block) /\ p.block < n.block
    BY <1>1, <1>2
  <2>4. LastBefore(p, n, Passed \cup {n}) /\ Places(p, n.order_id, n.company_id)
    BY <1>1, <2>2, <2>3 DEF LastBefore
  <2> QED
    BY <1>1, <2>1, <2>4 DEF CancelsResolved
<1>5. MapIsLatest'
  <2> SUFFICES ASSUME NEW o \in DOMAIN order_company \ {id}
               PROVE  \E p \in Passed' :
                        /\ Places(p, o, order_company'[o])
                        /\ \A e \in Passed' : p.block < e.block => e.order_id # o
    BY <1>3 DEF MapIsLatest
  <2>1. order_company'[o] = order_company[o]
    BY <1>3
  <2>2. PICK p \in Passed : /\ Places(p, o, order_company[o])
                            /\ \A e \in Passed : p.block < e.block => e.order_id # o
    BY DEF MapFine, MapIsLatest
  <2> QED
    BY <1>1, <2>1, <2>2
<1>6. MapForgetsCancelled'
  <2> SUFFICES ASSUME NEW p \in Passed', p.kind = "OrderPlaced"
               PROVE  \/ p.order_id \in DOMAIN order_company \ {id}
                      \/ \E r \in Passed' : r.kind = "OrderCancelled" /\ r.order_id = p.order_id
    BY <1>3 DEF MapForgetsCancelled
  <2>1. p \in Passed
    BY <1>1
  <2>2. CASE p.order_id = id
    BY <1>1, <2>2
  <2>3. CASE p.order_id # id
    BY <1>1, <2>1, <2>3 DEF MapFine, MapForgetsCancelled
  <2> QED
    BY <2>2, <2>3
<1> QED
  BY <1>4, <1>5, <1>6 DEF MapFine

LEMMA MapStep ==
  ASSUME TypeOK, Ordered, ReadOnce, MapFine, [Next]_vars
  PROVE  MapFine'
<1>1. CASE Receive /\ ReceiveEvent
  <2> DEFINE m == Head(chain_chan)
  <2>1. CASE TakesHead(m) /\ StaysPut
    BY <2>1, MapIdle DEF TakesHead, StaysPut
  <2>2. CASE TakesPlaced(m) /\ TakesEvent(m, m)
    BY <2>2, MapPlaced
  <2>3. CASE TakesSettled(m) /\ TakesEvent(m, m)
    BY <2>3, MapSettled
  <2>4. CASE /\ TakesCancelled(m) /\ TakesEvent(m, Named(m))
             /\ Named(m).company_id = order_company[m.order_id]
    BY <2>4, MapCancelled
  <2>5. CASE TakesUnknown(m) /\ Drops(m)
    BY <2>5, MapIdle DEF TakesUnknown, Drops
  <2> QED
    BY <1>1, <2>1, <2>2, <2>3, <2>4, <2>5 DEF ReceiveEvent
<1>2. CASE Passed' = Passed /\ UNCHANGED order_company
  BY <1>2, MapIdle
<1>3. Mine \/ Reorg => UNCHANGED order_company
  BY DEF Mine, Reorg
<1> QED
  BY <1>1, <1>2, <1>3, OrderStep DEF StaysPut, Reads

LEMMA CancelsShown ==
  ASSUME TypeOK, Ordered, MapFine
  PROVE  CancelsFollowPlacements
<1> SUFFICES ASSUME NEW i \in 1..Len(delivered), delivered[i].kind = "OrderCancelled"
             PROVE  \E j \in 1..(i - 1) :
                      /\ delivered[j].kind = "OrderPlaced"
                      /\ delivered[j].order_id = delivered[i].order_id
                      /\ delivered[j].company_id = delivered[i].company_id
                      /\ \A k \in (j + 1)..(i - 1) :
                           delivered[k].order_id # delivered[i].order_id
  BY DEF CancelsFollowPlacements
<1> DEFINE m == delivered[i]
<1>1. delivered \in Seq(Message) /\ Sorted(delivered) /\ Len(delivered) \in Nat
  BY DEF TypeOK, Ordered
<1>2. m \in Events(delivered) /\ IsMarket(m)
  BY <1>1 DEF Events, ToSet, IsMarket
<1>3. PICK p \in Passed : Places(p, m.order_id, m.company_id) /\ LastBefore(p, m, Passed)
  BY <1>2 DEF MapFine, CancelsResolved, Passed
<1>4. m.block \in Nat /\ p.block \in Nat /\ m \in Message
  BY <1>2, <1>3, PassedAreMessages DEF OnTheWay, Passed
<1>5. p \in Events(delivered)
  <2>1. Before(Events(delivered), Events(event_chan) \cup Events(confirmed) \cup Events(buf))
    BY DEF Ordered, Before
  <2>2. p.block < m.block
    BY <1>3 DEF LastBefore
  <2>3. ~(m.block < p.block)
    BY <1>4, <2>2
  <2> QED
    BY <1>2, <1>3, <2>1, <2>3 DEF Passed, Before
<1>6. PICK j \in 1..Len(delivered) : p = delivered[j] /\ IsMarket(p)
  BY <1>1, <1>5 DEF Events, ToSet
<1>7. j < i
  <2>1. p.block < m.block
    BY <1>3 DEF LastBefore
  <2>2. j # i
    BY <1>4, <1>6, <2>1
  <2>3. ~(i < j)
    <3>1. i < j => m.block < p.block
      BY <1>1, <1>2, <1>6 DEF Sorted
    <3> QED
      BY <1>4, <2>1, <3>1
  <2> QED
    BY <2>2, <2>3
<1>8. ASSUME NEW k \in (j + 1)..(i - 1) PROVE delivered[k].order_id # m.order_id
  <2>1. k \in 1..Len(delivered) /\ j < k /\ k < i
    BY <1>1
  <2>2. delivered[k] \in Message
    BY <1>1, <2>1
  <2>3. CASE IsMarket(delivered[k])
    <3>1. p.block < delivered[k].block /\ delivered[k].block < m.block
      BY <1>1, <1>2, <1>6, <2>1, <2>3 DEF Sorted
    <3>2. delivered[k] \in Passed
      BY <1>1, <2>1, <2>3 DEF Passed, Events, ToSet
    <3> QED
      BY <1>3, <3>1, <3>2 DEF LastBefore
  <2>4. CASE ~IsMarket(delivered[k])
    <3>1. delivered[k].order_id = 0
      BY <2>2, <2>4, MessageFacts DEF IsMarket
    <3>2. m.order_id \in 1..MaxOrder
      BY <1>4, MessageFacts
    <3> QED
      BY <3>1, <3>2
  <2> QED
    BY <2>3, <2>4
<1>9. j \in 1..(i - 1)
  BY <1>7
<1> QED
  BY <1>3, <1>6, <1>8, <1>9 DEF Places

\* Whatever the chain reorganises, a cancellation reaches the engine after the
\* placement it belongs to and with the company of that placement, and nothing else
\* of that order lies between the two (aide_daemon.rs:416, 457).
THEOREM CancelsComeAfterPlacements == Spec => []CancelsFollowPlacements
<1> DEFINE I == TypeOK /\ Ordered /\ ReadOnce /\ MapFine
<1>1. Init => I
  BY TypeInit, OrderInit, MapInit DEF ReadOnce
<1>2. I /\ [Next]_vars => I'
  BY TypeStep, OrderStep, MapStep
<1>3. I => CancelsFollowPlacements
  BY CancelsShown
<1> QED
  BY <1>1, <1>2, <1>3, PTL DEF Spec

-----------------------------------------------------------------------------
(* The logs of the chain: an order is placed before it is cancelled, and         *)
(* cancelled once.                                                               *)
On(blocks, b, kind, id) ==
  /\ b \in 1..Len(blocks)
  /\ \E log \in ToSet(blocks[b]) : log.kind = kind /\ log.order_id = id

Sane(blocks) ==
  /\ \A b, c, id : On(blocks, b, "OrderPlaced", id) /\ On(blocks, c, "OrderCancelled", id)
       => b < c
  /\ \A b, c, id : On(blocks, b, "OrderCancelled", id) /\ On(blocks, c, "OrderCancelled", id)
       => b = c
  /\ \A c, id : On(blocks, c, "OrderCancelled", id) =>
       id = 1 \/ \E b : b < c /\ On(blocks, b, "OrderPlaced", id)

LEMMA IdsAreOn ==
  ASSUME NEW blocks, NEW kind, NEW id
  PROVE  id \in IdsIn(blocks, kind) <=> \E b : On(blocks, b, kind, id)
BY DEF IdsIn, LogsIn, On

LEMMA OnAppend ==
  ASSUME NEW blocks \in Seq(Block), NEW logs
  PROVE  \A b, kind, id : On(Append(blocks, logs), b, kind, id) <=>
           \/ On(blocks, b, kind, id)
           \/ /\ b = Len(blocks) + 1
              /\ \E log \in ToSet(logs) : log.kind = kind /\ log.order_id = id
<1>1. /\ Len(blocks) \in Nat /\ Len(Append(blocks, logs)) = Len(blocks) + 1
      /\ \A b \in 1..Len(blocks) : Append(blocks, logs)[b] = blocks[b]
      /\ Append(blocks, logs)[Len(blocks) + 1] = logs
  OBVIOUS
<1>2. \A b : b \in 1..(Len(blocks) + 1) <=> b \in 1..Len(blocks) \/ b = Len(blocks) + 1
  BY <1>1
<1>3. Len(blocks) + 1 \notin 1..Len(blocks)
  BY <1>1
<1> QED
  BY <1>1, <1>2, <1>3 DEF On

LEMMA SaneAppend ==
  ASSUME NEW blocks \in Seq(Block), Sane(blocks), NEW logs \in BlocksAfter(blocks)
  PROVE  Sane(Append(blocks, logs))
<1> DEFINE n == Len(blocks) + 1
           New(kind, id) == \E log \in ToSet(logs) : log.kind = kind /\ log.order_id = id
<1>1. \A b, kind, id : On(Append(blocks, logs), b, kind, id) <=>
        On(blocks, b, kind, id) \/ (b = n /\ New(kind, id))
  BY OnAppend
<1>2. n \in Nat /\ \A b, kind, id : On(blocks, b, kind, id) => b \in Nat /\ b < n
  BY DEF On
<1>3. logs = <<>> \/ \E log \in PossibleLogs(blocks) : logs = <<log>>
  BY NewBlocks
<1>4. ASSUME NEW id, New("OrderPlaced", id)
      PROVE  id \in 2..MaxOrder /\ IdsIn(blocks, "OrderPlaced") = 2..(id - 1)
  <2>1. PICK log \in PossibleLogs(blocks) : log.kind = "OrderPlaced" /\ log.order_id = id
    BY <1>3, <1>4 DEF ToSet
  <2>2. PICK i \in {j \in 2..MaxOrder : IdsIn(blocks, "OrderPlaced") = 2..(j - 1)},
             c \in Companies : log = Placed(i, c)
    BY <2>1 DEF PossibleLogs, Cancelled, Settled
  <2>3. i = id
    BY <2>1, <2>2 DEF Placed
  <2> QED
    BY <2>2, <2>3
<1>5. ASSUME NEW id, New("OrderCancelled", id)
      PROVE  /\ id = 1 \/ id \in IdsIn(blocks, "OrderPlaced")
             /\ id \notin IdsIn(blocks, "OrderCancelled")
  <2>1. PICK log \in PossibleLogs(blocks) : log.kind = "OrderCancelled" /\ log.order_id = id
    BY <1>3, <1>5 DEF ToSet
  <2>2. PICK i \in ({1} \cup IdsIn(blocks, "OrderPlaced")) \ IdsIn(blocks, "OrderCancelled") :
          log = Cancelled(i)
    BY <2>1 DEF PossibleLogs, Placed, Settled
  <2>3. i = id
    BY <2>1, <2>2 DEF Cancelled
  <2> QED
    BY <2>2, <2>3
<1>6. ASSUME NEW id, NEW i PROVE ~(New("OrderPlaced", id) /\ New("OrderCancelled", i))
  BY <1>3 DEF ToSet
<1>7. ASSUME NEW id, New("OrderPlaced", id)
      PROVE  \A c : ~On(blocks, c, "OrderCancelled", id)
  <2> SUFFICES ASSUME NEW c, On(blocks, c, "OrderCancelled", id) PROVE FALSE
    OBVIOUS
  <2>1. id \in 2..MaxOrder /\ IdsIn(blocks, "OrderPlaced") = 2..(id - 1)
    BY <1>4, <1>7
  <2>2. id \in IdsIn(blocks, "OrderPlaced")
    BY <2>1, IdsAreOn DEF Sane
  <2>3. id \notin 2..(id - 1)
    BY <2>1
  <2> QED
    BY <2>1, <2>2, <2>3
<1>8. ASSUME NEW id, New("OrderCancelled", id)
      PROVE  \A c : ~On(blocks, c, "OrderCancelled", id)
  BY <1>5, <1>8, IdsAreOn
<1>9. ASSUME NEW id, New("OrderCancelled", id)
      PROVE  id = 1 \/ \E b : b < n /\ On(blocks, b, "OrderPlaced", id)
  BY <1>2, <1>5, <1>9, IdsAreOn
<1> DEFINE app == Append(blocks, logs)
<1> HIDE DEF n, New, app
<1>10. \A b, kind, id : On(app, b, kind, id) <=>
         On(blocks, b, kind, id) \/ (b = n /\ New(kind, id))
  BY <1>1 DEF app
<1>11. \A b, c, id : On(app, b, "OrderPlaced", id) /\ On(app, c, "OrderCancelled", id)
         => b < c
  BY <1>2, <1>6, <1>7, <1>10 DEF Sane
<1>12. \A b, c, id : On(app, b, "OrderCancelled", id) /\ On(app, c, "OrderCancelled", id)
         => b = c
  BY <1>8, <1>10 DEF Sane
<1>13. \A c, id : On(app, c, "OrderCancelled", id) =>
         id = 1 \/ \E b : b < c /\ On(app, b, "OrderPlaced", id)
  BY <1>9, <1>10 DEF Sane
<1> QED
  BY <1>11, <1>12, <1>13 DEF Sane, app

LEMMA SanePrefix ==
  ASSUME NEW blocks \in Seq(Block), Sane(blocks), NEW k \in 0..Len(blocks)
  PROVE  Sane(SubSeq(blocks, 1, k))
<1> DEFINE p == SubSeq(blocks, 1, k)
<1>1. /\ Len(p) = k /\ \A b \in 1..k : p[b] = blocks[b]
  BY PartsOfSeq
<1>2. Len(blocks) \in Nat /\ 1..k \subseteq 1..Len(blocks) /\ k \in Nat
  OBVIOUS
<1> HIDE DEF p
<1>3. \A b, kind, id : On(p, b, kind, id) <=> b \in 1..k /\ On(blocks, b, kind, id)
  BY <1>1, <1>2 DEF On
<1>4. \A b, c, kind, id : c \in 1..k /\ b < c /\ On(blocks, b, kind, id) => b \in 1..k
  BY <1>2 DEF On
<1>5. \A b, c, id : On(p, b, "OrderPlaced", id) /\ On(p, c, "OrderCancelled", id) => b < c
  BY <1>3 DEF Sane
<1>6. \A b, c, id : On(p, b, "OrderCancelled", id) /\ On(p, c, "OrderCancelled", id) => b = c
  BY <1>3 DEF Sane
<1>7. \A c, id : On(p, c, "OrderCancelled", id) =>
        id = 1 \/ \E b : b < c /\ On(p, b, "OrderPlaced", id)
  BY <1>3, <1>4 DEF Sane
<1> QED
  BY <1>5, <1>6, <1>7 DEF Sane, p

LEMMA SaneInit == Init => Sane(chain)
<1> SUFFICES ASSUME Init PROVE Sane(chain)
  OBVIOUS
<1>1. PICK logs \in BlocksAfter(<<>>) : chain = <<logs>>
  BY DEF Init
<1>2. <<>> \in Seq(Block) /\ Sane(<<>>)
  BY DEF Sane, On
<1>3. Append(<<>>, logs) = <<logs>>
  OBVIOUS
<1>4. Sane(Append(<<>>, logs))
  BY <1>2, SaneAppend
<1> QED
  BY <1>1, <1>3, <1>4

LEMMA SaneStep ==
  ASSUME TypeOK, Sane(chain), [Next]_vars
  PROVE  Sane(chain)'
<1>1. CASE Mine
  <2>1. PICK logs \in BlocksAfter(chain) : chain' = Append(chain, logs)
    BY <1>1 DEF Mine
  <2>2. Sane(Append(chain, logs))
    BY SaneAppend DEF TypeOK
  <2> QED
    BY <2>1, <2>2
<1>2. CASE Reorg
  <2>1. PICK depth \in 1..Confirmations :
          depth <= Len(chain) /\ chain' = SubSeq(chain, 1, Len(chain) - depth)
    BY <1>2 DEF Reorg
  <2>2. chain \in Seq(Block) /\ Len(chain) - depth \in 0..Len(chain)
    <3>1. chain \in Seq(Block) /\ Len(chain) \in Nat
      BY DEF TypeOK
    <3>2. depth \in Nat
      BY StreamAssumption
    <3> QED
      BY <2>1, <3>1, <3>2
  <2>3. Sane(SubSeq(chain, 1, Len(chain) - depth))
    BY <2>2, SanePrefix
  <2> QED
    BY <2>1, <2>3
<1>3. CASE chain' = chain
  BY <1>3
<1> QED
  BY <1>1, <1>2, <1>3 DEF Next, vars, Poll, FetchBlock, ListenerExits, Receive, Send, RunnerTakes

-----------------------------------------------------------------------------
(* Nothing is lost: events and logs correspond as long as nothing is reorganised. *)
OnChain(m) == On(chain, m.block, m.kind, m.order_id)
Carries(m, b, log) == m.block = b /\ m.kind = log.kind /\ m.order_id = log.order_id

HeadSeen == head <= Len(chain) /\ (cursor = FirstCursor \/ cursor <= Len(chain))
FromChain == \A m \in OnTheWay : OnChain(m)
AllThere ==
  \A b \in (FirstCursor + 1)..cursor : b \in 1..Len(chain) =>
    \A log \in ToSet(chain[b]) : Known(log) => \E m \in OnTheWay : Carries(m, b, log)

Faithful == reorgs = 0 => HeadSeen /\ FromChain /\ AllThere

LEMMA PlacedOn ==
  ASSUME NEW id
  PROVE  PlacedSince(id) <=> \E b \in (FirstCursor + 1)..Len(chain) :
                               On(chain, b, "OrderPlaced", id)
<1>1. FirstCursor \in Nat
  BY StreamAssumption DEF FirstCursor
<1>2. \A b \in (FirstCursor + 1)..Len(chain) : b \in 1..Len(chain)
  BY <1>1
<1> QED
  BY <1>2 DEF PlacedSince, On

LEMMA FaithfulInit == Init => Faithful
<1> SUFFICES ASSUME Init PROVE HeadSeen /\ FromChain /\ AllThere
  BY DEF Faithful
<1>1. head = 0 /\ cursor = FirstCursor /\ FirstCursor \in Nat
  BY StreamAssumption DEF Init, FirstCursor
<1>2. Len(chain) \in Nat
  BY TypeInit DEF TypeOK
<1>3. (FirstCursor + 1)..cursor = {}
  BY <1>1
<1> QED
  BY <1>1, <1>2, <1>3, OrderInit DEF HeadSeen, FromChain, AllThere

\* A new block changes neither what was read nor which cancellations are known.
LEMMA FaithfulMine ==
  ASSUME TypeOK, Sane(chain), Faithful, Mine, StaysPut
  PROVE  Faithful'
<1> SUFFICES ASSUME reorgs = 0 PROVE HeadSeen' /\ FromChain' /\ AllThere'
  BY DEF Faithful, Mine
<1>1. PICK logs \in BlocksAfter(chain) : chain' = Append(chain, logs)
  BY DEF Mine
<1>2. HeadSeen /\ FromChain /\ AllThere
  BY DEF Faithful
<1>3. /\ Len(chain) \in Nat /\ Len(chain') = Len(chain) + 1
      /\ \A b \in 1..Len(chain) : chain'[b] = chain[b]
      /\ head \in Nat /\ cursor \in Nat /\ FirstCursor \in Nat
      /\ UNCHANGED <<head, cursor>>
  <2>1. chain \in Seq(Block)
    BY DEF TypeOK
  <2>2. /\ Len(chain) \in Nat /\ Len(chain') = Len(chain) + 1
        /\ \A b \in 1..Len(chain) : chain'[b] = chain[b]
    BY <1>1, <2>1
  <2>3. head \in Nat /\ cursor \in Nat /\ FirstCursor \in Nat
    BY Numbers
  <2>4. UNCHANGED <<head, cursor>>
    BY DEF Mine, listenerVars
  <2> QED
    BY <2>2, <2>3, <2>4
<1>4. HeadSeen'
  BY <1>2, <1>3 DEF HeadSeen
<1>5. \A b, kind, id : On(chain, b, kind, id) => On(chain', b, kind, id)
  BY <1>1, OnAppend DEF TypeOK
<1>6. FromChain'
  BY <1>2, <1>5 DEF StaysPut, FromChain, OnChain
<1>7. Sane(chain')
  BY <1>1, SaneAppend DEF TypeOK
<1>8. ASSUME NEW b \in (FirstCursor + 1)..cursor, NEW log \in ToSet(chain'[b]),
             log.kind = "OrderCancelled", PlacedSince(log.order_id)'
      PROVE  b \in 1..Len(chain) /\ log \in ToSet(chain[b]) /\ PlacedSince(log.order_id)
  <2> DEFINE id == log.order_id
  <2>1. b \in 1..Len(chain) /\ log \in ToSet(chain[b])
    BY <1>2, <1>3, <1>8 DEF HeadSeen
  <2>2. On(chain, b, "OrderCancelled", id)
    BY <1>8, <2>1 DEF On
  <2>3. PICK c \in (FirstCursor + 1)..Len(chain') : On(chain', c, "OrderPlaced", id)
    <3>1. \A c \in (FirstCursor + 1)..Len(chain') : c \in 1..Len(chain')
      BY <1>3
    <3> QED
      BY <1>8, <3>1 DEF PlacedSince, On
  <2>4. On(chain', b, "OrderCancelled", id)
    BY <1>5, <2>2
  <2>5. c < b
    BY <1>7, <2>3, <2>4 DEF Sane
  <2>6. c \in 1..Len(chain) /\ c \in (FirstCursor + 1)..Len(chain)
    BY <1>3, <2>1, <2>3, <2>5
  <2>7. On(chain, c, "OrderPlaced", id)
    BY <1>3, <2>3, <2>6 DEF On
  <2> QED
    BY <2>1, <2>6, <2>7, PlacedOn
<1>9. AllThere'
  <2> SUFFICES ASSUME NEW b \in (FirstCursor + 1)..cursor, b \in 1..Len(chain'),
                      NEW log \in ToSet(chain'[b]), Known(log)'
               PROVE  \E m \in OnTheWay : Carries(m, b, log)
    BY <1>3 DEF AllThere, StaysPut, Carries
  <2>1. b \in 1..Len(chain) /\ log \in ToSet(chain[b])
    BY <1>2, <1>3 DEF HeadSeen
  <2>2. Known(log)
    BY <1>8 DEF Known
  <2> QED
    BY <1>2, <2>1, <2>2 DEF AllThere
<1> QED
  BY <1>4, <1>6, <1>9

LEMMA FaithfulReads ==
  ASSUME TypeOK, Faithful, Reads, UNCHANGED <<chain, order_company, reorgs>>
  PROVE  Faithful'
<1> SUFFICES ASSUME reorgs = 0 PROVE HeadSeen' /\ FromChain' /\ AllThere'
  BY DEF Faithful
<1>1. HeadSeen /\ FromChain /\ AllThere
  BY DEF Faithful
<1>2. /\ FetchBlock /\ cursor < head /\ cursor' = cursor + 1 /\ head' = head
      /\ Len(chain) \in Nat /\ head \in Nat /\ cursor \in Nat /\ FirstCursor \in Nat
  BY Numbers DEF Reads, FetchBlock
<1>3. HeadSeen'
  BY <1>1, <1>2 DEF HeadSeen
<1>4. \A b \in (FirstCursor + 1)..cursor' : b \in (FirstCursor + 1)..cursor \/ b = cursor + 1
  BY <1>2
<1>5. \A log : Known(log)' <=> Known(log)
  BY DEF Known, PlacedSince
<1>6. CASE OnTheWay' = OnTheWay /\ chain_chan' = chain_chan
  <2>1. cursor + 1 \in 1..Len(chain) => chain[cursor + 1] = <<>>
    <3>1. ASSUME NEW e, chain_chan' = Append(chain_chan, e) PROVE FALSE
      <4>1. chain_chan \in Seq(Message)
        BY DEF TypeOK
      <4>2. Len(Append(chain_chan, e)) = Len(chain_chan) + 1 /\ Len(chain_chan) \in Nat
        BY <4>1
      <4> QED
        BY <1>6, <3>1, <4>2
    <3> QED
      BY <1>2, <3>1, NextHeight
  <2>2. FromChain'
    BY <1>1, <1>6 DEF FromChain, OnChain
  <2>3. \A b \in (FirstCursor + 1)..cursor' : b \in 1..Len(chain) =>
          \A log \in ToSet(chain[b]) : Known(log) => \E m \in OnTheWay : Carries(m, b, log)
    BY <1>1, <1>4, <2>1 DEF AllThere, ToSet
  <2>4. AllThere'
    BY <1>5, <1>6, <2>3 DEF AllThere, Carries
  <2> QED
    BY <1>3, <2>2, <2>4
<1>7. ASSUME NEW log \in Log, cursor + 1 \in 1..Len(chain), chain[cursor + 1] = <<log>>,
             OnTheWay' = OnTheWay \cup {At(cursor + 1, log)}
      PROVE  FromChain' /\ AllThere'
  <2> DEFINE e == At(cursor + 1, log)
  <2>1. e.block = cursor + 1 /\ e.kind = log.kind /\ e.order_id = log.order_id
    BY DEF At
  <2>2. ToSet(chain[cursor + 1]) = {log}
    BY <1>7 DEF ToSet
  <2>3. OnChain(e) /\ Carries(e, cursor + 1, log)
    BY <1>7, <2>1, <2>2 DEF OnChain, On, Carries
  <2> HIDE DEF e
  <2>4. OnTheWay' = OnTheWay \cup {e}
    BY <1>7 DEF e
  <2>5. FromChain'
    BY <1>1, <2>3, <2>4 DEF FromChain, OnChain
  <2>6. \A b \in (FirstCursor + 1)..cursor' : b \in 1..Len(chain) =>
          \A l \in ToSet(chain[b]) : Known(l) => \E m \in OnTheWay \cup {e} : Carries(m, b, l)
    BY <1>1, <1>4, <2>2, <2>3 DEF AllThere
  <2>7. AllThere'
    BY <1>5, <2>4, <2>6 DEF AllThere, Carries
  <2> QED
    BY <2>5, <2>7
<1> QED
  BY <1>3, <1>6, <1>7 DEF Reads

\* The streamer passes an event on.
LEMMA FaithfulTakes ==
  ASSUME Faithful, NEW m, NEW e, TakesEvent(m, e), UNCHANGED <<chain, reorgs, head, cursor>>
  PROVE  Faithful'
<1> SUFFICES ASSUME reorgs = 0 PROVE HeadSeen' /\ FromChain' /\ AllThere'
  BY DEF Faithful
<1>1. HeadSeen /\ FromChain /\ AllThere
  BY DEF Faithful
<1>2. /\ e.block = m.block /\ e.kind = m.kind /\ e.order_id = m.order_id
      /\ OnTheWay \subseteq OnTheWay' \cup {m} /\ e \in OnTheWay' /\ m \in OnTheWay
      /\ OnTheWay' \subseteq OnTheWay \cup {e}
  BY DEF TakesEvent
<1>3. HeadSeen'
  BY <1>1 DEF HeadSeen
<1>4. FromChain'
  BY <1>1, <1>2 DEF FromChain, OnChain
<1>5. \A b, log : (\E n \in OnTheWay : Carries(n, b, log)) =>
                  \E n \in OnTheWay' : Carries(n, b, log)
  BY <1>2 DEF Carries
<1>6. \A log : Known(log)' <=> Known(log)
  BY DEF Known, PlacedSince
<1>7. \A b \in (FirstCursor + 1)..cursor : b \in 1..Len(chain) =>
        \A log \in ToSet(chain[b]) :
          Known(log) => \E n \in OnTheWay' : Carries(n, b, log)
  BY <1>1, <1>5 DEF AllThere
<1>8. AllThere'
  BY <1>6, <1>7 DEF AllThere, Carries
<1> QED
  BY <1>3, <1>4, <1>8

\* The streamer drops a cancellation: its order was not placed in the blocks read.
LEMMA DroppedIsUnknown ==
  ASSUME TypeOK, ReadOnce, MapFine, Sane(chain), Faithful, reorgs = 0,
         NEW m, TakesUnknown(m), Drops(m)
  PROVE  ~Known(m)
<1> SUFFICES ASSUME Known(m) PROVE FALSE
  OBVIOUS
<1> DEFINE id == m.order_id
<1>1. /\ m.kind = "OrderCancelled" /\ id \notin DOMAIN order_company
      /\ m \in OnTheWay /\ OnTheWay = Passed \cup Events(chain_chan') \cup {m}
      /\ m.block \in Nat
  BY MessageFacts DEF TakesUnknown, Drops
<1>2. HeadSeen /\ FromChain /\ AllThere
  BY DEF Faithful
<1>3. PICK b \in (FirstCursor + 1)..Len(chain) : On(chain, b, "OrderPlaced", id)
  BY <1>1, PlacedOn DEF Known
<1>4. On(chain, m.block, "OrderCancelled", id)
  BY <1>1, <1>2 DEF FromChain, OnChain
<1>5. b < m.block /\ m.block \in (FirstCursor + 1)..cursor
  BY <1>1, <1>3, <1>4 DEF Sane, ReadOnce
<1>6. b \in (FirstCursor + 1)..cursor /\ b \in 1..Len(chain)
  <2>1. FirstCursor \in Nat /\ cursor \in Nat /\ Len(chain) \in Nat
    BY Numbers
  <2> QED
    BY <1>3, <1>5, <2>1
<1>7. PICK log \in ToSet(chain[b]) : log.kind = "OrderPlaced" /\ log.order_id = id
  BY <1>3 DEF On
<1>8. PICK p \in OnTheWay : Carries(p, b, log)
  BY <1>2, <1>6, <1>7 DEF AllThere, Known
<1>9. p.block = b /\ p.kind = "OrderPlaced" /\ p.order_id = id
  BY <1>7, <1>8 DEF Carries
<1>10. p \in Passed
  <2>1. p # m
    BY <1>1, <1>9
  <2>2. p \notin Events(chain_chan')
    BY <1>1, <1>5, <1>6, <1>9 DEF Drops, Before
  <2> QED
    BY <1>1, <1>8, <2>1, <2>2
<1>11. PICK r \in Passed : r.kind = "OrderCancelled" /\ r.order_id = id
  BY <1>1, <1>9, <1>10 DEF MapFine, MapForgetsCancelled
<1>12. On(chain, r.block, "OrderCancelled", id)
  BY <1>1, <1>2, <1>11 DEF FromChain, OnChain
<1>13. r.block = m.block
  BY <1>4, <1>12 DEF Sane
<1>14. r.block < m.block
  BY <1>11 DEF Drops, Before
<1> QED
  BY <1>1, <1>13, <1>14

LEMMA FaithfulDrops ==
  ASSUME TypeOK, ReadOnce, MapFine, Sane(chain), Faithful,
         NEW m, TakesUnknown(m), Drops(m), UNCHANGED <<chain, reorgs, head, cursor>>
  PROVE  Faithful'
<1> SUFFICES ASSUME reorgs = 0 PROVE HeadSeen' /\ FromChain' /\ AllThere'
  BY DEF Faithful
<1>1. HeadSeen /\ FromChain /\ AllThere
  BY DEF Faithful
<1>2. OnTheWay = OnTheWay' \cup {m} /\ ~Known(m)
  BY DroppedIsUnknown DEF Drops
<1>3. HeadSeen'
  BY <1>1 DEF HeadSeen
<1>4. FromChain'
  BY <1>1, <1>2 DEF FromChain, OnChain
<1>5. \A b, log : Carries(m, b, log) => ~Known(log)
  BY <1>2 DEF Carries, Known
<1>6. \A log : Known(log)' <=> Known(log)
  BY DEF Known, PlacedSince
<1>7. AllThere'
  BY <1>1, <1>2, <1>5, <1>6 DEF AllThere, Carries
<1> QED
  BY <1>3, <1>4, <1>7

\* Steps that move nothing between chain and engine; a poll reads the head.
LEMMA FaithfulIdle ==
  ASSUME Faithful, StaysPut, UNCHANGED <<chain, reorgs, cursor>>,
         head' = head \/ head' = Len(chain), Len(chain) \in Nat
  PROVE  Faithful'
<1> SUFFICES ASSUME reorgs = 0 PROVE HeadSeen' /\ FromChain' /\ AllThere'
  BY DEF Faithful
<1>1. HeadSeen /\ FromChain /\ AllThere
  BY DEF Faithful
<1>2. HeadSeen'
  BY <1>1 DEF HeadSeen
<1>3. \A log : Known(log)' <=> Known(log)
  BY DEF Known, PlacedSince
<1> QED
  BY <1>1, <1>2, <1>3 DEF FromChain, OnChain, AllThere, Carries, StaysPut

LEMMA FaithfulStep ==
  ASSUME TypeOK, Ordered, ReadOnce, MapFine, Sane(chain), Faithful, [Next]_vars
  PROVE  Faithful'
<1>1. CASE Mine /\ StaysPut
  BY <1>1, FaithfulMine
<1>2. CASE Reorg
  <2>1. reorgs' # 0
    BY <1>2 DEF Reorg, TypeOK
  <2> QED
    BY <2>1 DEF Faithful
<1>3. CASE Reads /\ UNCHANGED <<chain, order_company, reorgs>>
  BY <1>3, FaithfulReads
<1>4. CASE Receive /\ ReceiveEvent
  <2>1. UNCHANGED <<chain, reorgs, head, cursor>>
    BY <1>4, ReceiveCases
  <2>2. Len(chain) \in Nat
    BY DEF TypeOK
  <2> QED
    BY <1>4, <2>1, <2>2, FaithfulIdle, FaithfulTakes, FaithfulDrops DEF ReceiveEvent
<1>5. CASE StaysPut /\ UNCHANGED <<chain, order_company, reorgs, cursor>>
  <2>1. head' = head \/ head' = Len(chain)
    BY <1>5 DEF Next, vars, Mine, Reorg, Poll, FetchBlock, ListenerExits, Receive, Send,
                RunnerTakes, listenerVars
  <2>2. Len(chain) \in Nat
    BY DEF TypeOK
  <2> QED
    BY <1>5, <2>1, <2>2, FaithfulIdle
<1> QED
  BY <1>1, <1>2, <1>3, <1>4, <1>5, OrderStep

LEMMA LossShown ==
  ASSUME TypeOK, ReadOnce, Faithful
  PROVE  NothingLost
<1> SUFFICES ASSUME reorgs = 0
             PROVE  KnownOf(UNION {Events(Stages[s]) : s \in 1..5})
                      = KnownOf(UNION {ToSet(LogMsgs(b)) : b \in (FirstCursor + 1)..cursor})
  BY DEF NothingLost
<1> DEFINE there == UNION {Events(Stages[s]) : s \in 1..5}
           read == UNION {ToSet(LogMsgs(b)) : b \in (FirstCursor + 1)..cursor}
<1>1. HeadSeen /\ FromChain /\ AllThere
  BY DEF Faithful
<1>2. there = OnTheWay
  <2>1. /\ Stages[1] = delivered /\ Stages[2] = event_chan /\ Stages[3] = confirmed
        /\ Stages[4] = buf /\ Stages[5] = chain_chan
    BY DEF Stages
  <2>2. 1..5 = {1, 2, 3, 4, 5}
    OBVIOUS
  <2> QED
    BY <2>1, <2>2 DEF OnTheWay, Passed
<1>3. FirstCursor \in Nat /\ cursor \in Nat /\ Len(chain) \in Nat
  BY Numbers
\* A message is read from a block iff the block has its log.
<1>4. ASSUME NEW b \in (FirstCursor + 1)..cursor, NEW m \in ToSet(LogMsgs(b))
      PROVE  b \in 1..Len(chain) /\ \E log \in ToSet(chain[b]) : Carries(m, b, log)
  <2>1. b \in Nat \ {0}
    BY <1>3
  <2>2. LogMsgs(b) # <<>>
    BY <1>4 DEF ToSet
  <2>3. PICK log \in Log : /\ b \in 1..Len(chain) /\ chain[b] = <<log>>
                           /\ LogMsgs(b) = <<At(b, log)>>
    BY <2>1, <2>2, LogsOfHeight DEF TypeOK
  <2>4. m = At(b, log) /\ log \in ToSet(chain[b])
    BY <1>4, <2>3 DEF ToSet
  <2> QED
    BY <2>3, <2>4 DEF At, Carries
<1>5. ASSUME NEW b \in (FirstCursor + 1)..cursor, b \in 1..Len(chain),
             NEW log \in ToSet(chain[b])
      PROVE  \E m \in ToSet(LogMsgs(b)) : Carries(m, b, log)
  <2>1. b \in Nat \ {0}
    BY <1>3
  <2>2. chain[b] # <<>>
    BY <1>5 DEF ToSet
  <2>3. PICK l \in Log : chain[b] = <<l>> /\ LogMsgs(b) = <<At(b, l)>>
    BY <1>5, <2>1, <2>2, LogsOfHeight DEF TypeOK
  <2>4. l = log /\ At(b, l) \in ToSet(LogMsgs(b))
    BY <1>5, <2>3 DEF ToSet
  <2> QED
    BY <2>4 DEF At, Carries
<1>6. ASSUME NEW m, NEW n, NEW b, NEW log, Carries(m, b, log), Carries(n, b, log)
      PROVE  Plain(m) = Plain(n) /\ (Known(m) <=> Known(log)) /\ (Known(n) <=> Known(log))
  BY <1>6 DEF Carries, Plain, Known
<1>7. ASSUME NEW m \in OnTheWay, Known(m)
      PROVE  \E n \in read : Known(n) /\ Plain(n) = Plain(m)
  <2> DEFINE b == m.block
  <2>1. b \in (FirstCursor + 1)..cursor /\ On(chain, b, m.kind, m.order_id)
    BY <1>1 DEF ReadOnce, FromChain, OnChain
  <2>2. PICK log \in ToSet(chain[b]) : Carries(m, b, log)
    BY <2>1 DEF On, Carries
  <2>3. b \in 1..Len(chain)
    BY <2>1 DEF On
  <2>4. PICK n \in ToSet(LogMsgs(b)) : Carries(n, b, log)
    BY <1>5, <2>1, <2>2, <2>3
  <2> QED
    BY <1>6, <1>7, <2>1, <2>2, <2>4
<1>8. ASSUME NEW n \in read, Known(n)
      PROVE  \E m \in OnTheWay : Known(m) /\ Plain(m) = Plain(n)
  <2>1. PICK b \in (FirstCursor + 1)..cursor : n \in ToSet(LogMsgs(b))
    BY <1>8
  <2>2. PICK log \in ToSet(chain[b]) : b \in 1..Len(chain) /\ Carries(n, b, log)
    BY <1>4, <2>1
  <2>3. Known(log)
    BY <1>6, <1>8, <2>2
  <2>4. PICK m \in OnTheWay : Carries(m, b, log)
    BY <1>1, <2>1, <2>2, <2>3 DEF AllThere
  <2> QED
    BY <1>6, <2>2, <2>3, <2>4
<1> HIDE DEF read, there
<1>9. KnownOf(there) \subseteq KnownOf(read)
  BY <1>2, <1>7 DEF KnownOf
<1>10. KnownOf(read) \subseteq KnownOf(there)
  BY <1>2, <1>8 DEF KnownOf
<1> QED
  BY <1>9, <1>10 DEF read, there

\* As long as the chain does not reorganise, what the engine has and what is on its
\* way to it are exactly the logs of the heights read so far, the cancellations of
\* orders placed before the session aside; with EventsKeepBlockOrder, in their order
\* and each once (chain.rs:213, aide_daemon.rs:386).
THEOREM NothingIsLost == Spec => []NothingLost
<1> DEFINE I == TypeOK /\ Ordered /\ ReadOnce /\ MapFine /\ Sane(chain) /\ Faithful
<1>1. Init => I
  BY TypeInit, OrderInit, MapInit, SaneInit, FaithfulInit DEF ReadOnce
<1>2. I /\ [Next]_vars => I'
  BY TypeStep, OrderStep, MapStep, SaneStep, FaithfulStep
<1>3. I => NothingLost
  BY LossShown
<1> QED
  BY <1>1, <1>2, <1>3, PTL DEF Spec
=============================================================================
