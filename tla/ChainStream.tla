----------------------------- MODULE ChainStream -----------------------------
(***************************************************************************)
(* How market events travel from the chain to the matching engine: the     *)
(* polling listener of engine/src/chain.rs, the event streamer with its    *)
(* BlockBuffer, and the receiving end of the match runner, both of         *)
(* engine/src/bin/aide_daemon.rs.                                          *)
(*                                                                         *)
(* The chain is a sequence of blocks, a block a sequence of at most one    *)
(* log.  A reorganisation drops the last blocks; other blocks are mined in *)
(* their place.  The listener reads each height once, from the chain as it *)
(* is then.  Reading and sending are one step: a value that was read and   *)
(* waits for room is one more place in the channel.                        *)
(*                                                                         *)
(* delivered and reorgs are history.                                       *)
(***************************************************************************)
EXTENDS Integers, SequencesExt

CONSTANTS
  Companies,       \* company ids, positive: 0 means "unknown" in the streamer
  MaxOrder,        \* bound on order ids; order 1 is older than the first block
  MaxBlocks,       \* bound on the height of the chain
  MaxLogs,         \* bound on the logs of one chain
  MaxReorgs,       \* bound on the number of reorganisations
  FromBlock,       \* ChainListenerConfig::from_block
  Confirmations,   \* BlockBuffer::confirmations
  ChainCapacity,   \* places in the channel listener -> streamer
  EventCapacity    \* places in the channel streamer -> match runner

ASSUME StreamAssumption ==
  /\ Companies \subseteq Nat \ {0}
  /\ {MaxLogs, MaxReorgs, FromBlock, Confirmations} \subseteq Nat
  /\ {MaxOrder, MaxBlocks, ChainCapacity, EventCapacity} \subseteq Nat \ {0}

VARIABLES
  chain,              \* the canonical blocks
  alive,              \* the listener task runs
  cursor,             \* last height whose logs the listener has read
  head,               \* the height of its current poll
  chain_chan,         \* chain_tx / chain_rx
  buf,                \* BlockBuffer::queue
  order_company,      \* order id -> company, of orders seen and not cancelled
  confirmed,          \* what the streamer still has to send for one NewHead
  event_chan,         \* event_tx / event_rx
  last_block_height,
  delivered,          \* market events the match runner has taken
  reorgs              \* number of reorganisations so far

listenerVars == <<alive, cursor, head>>
vars == <<chain, alive, cursor, head, chain_chan, buf, order_company, confirmed,
          event_chan, last_block_height, delivered, reorgs>>

-----------------------------------------------------------------------------
(* Logs of the market contract and the messages made of them. *)
Placed(id, c) == [kind |-> "OrderPlaced", order_id |-> id, company_id |-> c]
\* The log of a cancelled order does not name the company.
Cancelled(id) == [kind |-> "OrderCancelled", order_id |-> id, company_id |-> 0]
Settled == [kind |-> "TradeSettled", order_id |-> 0, company_id |-> 0]

LogsIn(blocks) == UNION {ToSet(blocks[b]) : b \in 1..Len(blocks)}
IdsIn(blocks, kind) ==
  {log.order_id : log \in {l \in LogsIn(blocks) : l.kind = kind}}

\* The market gives out ids in order and cancels an active order once; order 1
\* is active, and trades of older orders settle.
PossibleLogs(blocks) ==
  {Placed(id, c) :
     id \in {i \in 2..MaxOrder : IdsIn(blocks, "OrderPlaced") = 2..(i - 1)},
     c \in Companies}
    \cup {Cancelled(id) : id \in ({1} \cup IdsIn(blocks, "OrderPlaced"))
                                   \ IdsIn(blocks, "OrderCancelled")}
    \cup {log \in {Settled} : IdsIn(blocks, "TradeSettled") = {}}
BlocksAfter(blocks) ==
  {<<>>} \cup {<<log>> : log \in {l \in PossibleLogs(blocks) :
       Cardinality({b \in 1..Len(blocks) : blocks[b] # <<>>}) < MaxLogs}}

At(block, log) ==
  [kind |-> log.kind, block |-> block, order_id |-> log.order_id,
   company_id |-> log.company_id]
BlockMsg(kind, n) ==
  [kind |-> kind, block |-> n, order_id |-> 0, company_id |-> 0]

\* The channel message of each log of block b.
LogMsgs(b) ==
  IF b > Len(chain) THEN <<>>
  ELSE [i \in 1..Len(chain[b]) |-> At(b, chain[b][i])]

-----------------------------------------------------------------------------
\* Without a configured block the listener starts one below the head.
FirstCursor == IF FromBlock > 0 THEN FromBlock ELSE 0

Init ==
  /\ chain \in {<<logs>> : logs \in BlocksAfter(<<>>)}
  /\ alive = TRUE
  /\ cursor = FirstCursor
  /\ head = 0
  /\ chain_chan = <<>>
  /\ buf = <<>>
  /\ order_company = [id \in {} |-> 0]
  /\ confirmed = <<>>
  /\ event_chan = <<>>
  /\ last_block_height = 0
  /\ delivered = <<>>
  /\ reorgs = 0

\* The chain: a block with at most one log of the market, or a reorganisation
\* no deeper than the confirmations waited for.
Mine ==
  /\ Len(chain) < MaxBlocks
  /\ \E logs \in BlocksAfter(chain) : chain' = Append(chain, logs)
  /\ UNCHANGED <<listenerVars, chain_chan, buf, order_company, confirmed,
                 event_chan, last_block_height, delivered, reorgs>>

Reorg ==
  /\ reorgs < MaxReorgs
  /\ \E depth \in 1..Confirmations :
       /\ depth <= Len(chain)
       /\ chain' = SubSeq(chain, 1, Len(chain) - depth)
  /\ reorgs' = reorgs + 1
  /\ UNCHANGED <<listenerVars, chain_chan, buf, order_company, confirmed,
                 event_chan, last_block_height, delivered>>

\* The listener: a poll of the head, sent as NewHead before the logs of the
\* blocks it makes readable; a height at a time after that.
Poll ==
  /\ alive
  /\ cursor >= head
  /\ Len(chain_chan) < ChainCapacity
  /\ head' = Len(chain)
  /\ chain_chan' = Append(chain_chan, BlockMsg("NewHead", Len(chain)))
  /\ UNCHANGED <<chain, alive, cursor, buf, order_company, confirmed,
                 event_chan, last_block_height, delivered, reorgs>>

Mutant_SkipsBlock(at) == at + 2
NextBlock(at) == at + 1

FetchBlock ==
  /\ alive
  /\ cursor < head
  /\ Len(chain_chan) + Len(LogMsgs(cursor + 1)) <= ChainCapacity
  /\ cursor' = NextBlock(cursor)
  /\ chain_chan' = chain_chan \o LogMsgs(cursor + 1)
  /\ UNCHANGED <<chain, alive, head, buf, order_company, confirmed,
                 event_chan, last_block_height, delivered, reorgs>>

\* Any failed RPC ends the listener for good: nothing starts it again.
ListenerExits ==
  /\ alive
  /\ alive' = FALSE
  /\ UNCHANGED <<chain, cursor, head, chain_chan, buf, order_company, confirmed,
                 event_chan, last_block_height, delivered, reorgs>>

-----------------------------------------------------------------------------
(* The streamer. *)
Mutant_PushFront(q, ev) == <<ev>> \o q
Push(q, ev) == Append(q, ev)

Mutant_StrictlyDeeper(q, n) ==
  CHOOSE k \in 0..Len(q) :
    /\ \A i \in 1..k : n > q[i].block + Confirmations
    /\ k < Len(q) => n <= q[k + 1].block + Confirmations

\* drain_confirmed takes events from the front while they are confirmed at n.
DrainCount(q, n) ==
  CHOOSE k \in 0..Len(q) :
    /\ \A i \in 1..k : n >= q[i].block + Confirmations
    /\ k < Len(q) => n < q[k + 1].block + Confirmations

Mutant_FirstCompany(id, c) ==
  [o \in DOMAIN order_company \cup {id} |->
     IF o \in DOMAIN order_company THEN order_company[o] ELSE c]

Remember(id, c) ==
  [o \in DOMAIN order_company \cup {id} |->
     IF o = id THEN c ELSE order_company[o]]
Mutant_Blanks(id) == [order_company EXCEPT ![id] = 0]
Forget(id) == [o \in DOMAIN order_company \ {id} |-> order_company[o]]

Receive ==
  LET m == Head(chain_chan) IN
  /\ confirmed = <<>>
  /\ chain_chan # <<>>
  /\ chain_chan' = Tail(chain_chan)
  /\ \/ /\ m.kind = "NewHead"
        /\ last_block_height' = m.block
        /\ LET k == DrainCount(buf, m.block) IN
           /\ confirmed' = SubSeq(buf, 1, k) \o <<BlockMsg("NewBlock", m.block)>>
           /\ buf' = SubSeq(buf, k + 1, Len(buf))
        /\ UNCHANGED order_company
     \/ /\ m.kind = "OrderPlaced"
        /\ order_company' = Remember(m.order_id, m.company_id)
        /\ buf' = Push(buf, m)
        /\ UNCHANGED <<confirmed, last_block_height>>
     \/ /\ m.kind = "TradeSettled"
        /\ buf' = Push(buf, m)
        /\ UNCHANGED <<confirmed, last_block_height, order_company>>
     \/ /\ m.kind = "OrderCancelled"
        /\ m.order_id \in DOMAIN order_company
        /\ buf' = Push(buf, [m EXCEPT !.company_id = order_company[m.order_id]])
        /\ order_company' = Forget(m.order_id)
        /\ UNCHANGED <<confirmed, last_block_height>>
     \/ /\ m.kind = "OrderCancelled"
        /\ m.order_id \notin DOMAIN order_company
        /\ UNCHANGED <<buf, order_company, confirmed, last_block_height>>
  /\ UNCHANGED <<chain, listenerVars, event_chan, delivered, reorgs>>

Send ==
  /\ confirmed # <<>>
  /\ Len(event_chan) < EventCapacity
  /\ event_chan' = Append(event_chan, Head(confirmed))
  /\ confirmed' = Tail(confirmed)
  /\ UNCHANGED <<chain, listenerVars, chain_chan, buf, order_company,
                 last_block_height, delivered, reorgs>>

\* The match runner: NewBlock and TradeSettled both store a height.
RunnerTakes ==
  LET ev == Head(event_chan) IN
  /\ event_chan # <<>>
  /\ event_chan' = Tail(event_chan)
  /\ IF ev.kind \in {"NewBlock", "TradeSettled"}
       THEN last_block_height' = ev.block
       ELSE UNCHANGED last_block_height
  /\ IF ev.kind = "NewBlock" THEN UNCHANGED delivered
                             ELSE delivered' = Append(delivered, ev)
  /\ UNCHANGED <<chain, listenerVars, chain_chan, buf, order_company, confirmed,
                 reorgs>>

Next ==
  \/ Mine \/ Reorg
  \/ Poll \/ FetchBlock \/ ListenerExits
  \/ Receive \/ Send \/ RunnerTakes

\* The three tasks are scheduled; nothing makes the chain grow or fail.
Spec ==
  /\ Init
  /\ [][Next]_vars
  /\ WF_vars(Poll \/ FetchBlock)
  /\ WF_vars(Receive \/ Send)
  /\ WF_vars(RunnerTakes)

-----------------------------------------------------------------------------
Heights == 0..MaxBlocks
Message ==
  [kind : {"OrderPlaced"}, block : Heights, order_id : 2..MaxOrder, company_id : Companies]
    \cup [kind : {"OrderCancelled"}, block : Heights, order_id : 1..MaxOrder,
          company_id : Companies \cup {0}]
    \cup [kind : {"TradeSettled", "NewHead", "NewBlock"}, block : Heights,
          order_id : {0}, company_id : {0}]
Log == {Placed(id, c) : id \in 2..MaxOrder, c \in Companies}
         \cup {Cancelled(id) : id \in 1..MaxOrder} \cup {Settled}
Block == {<<>>} \cup {<<log>> : log \in Log}

\* Type invariant of the chain, the listener and the streamer.
TypeOK ==
  /\ chain \in Seq(Block)
  /\ Len(chain) <= MaxBlocks
  /\ alive \in BOOLEAN
  /\ cursor = FirstCursor \/ cursor \in FirstCursor..MaxBlocks
  /\ {head, last_block_height} \subseteq Heights
  /\ {chain_chan, buf, confirmed, event_chan, delivered} \subseteq Seq(Message)
  /\ Len(chain_chan) <= ChainCapacity
  /\ Len(event_chan) <= EventCapacity
  /\ DOMAIN order_company \subseteq 2..MaxOrder
  /\ order_company \in [DOMAIN order_company -> Companies]
  /\ reorgs \in 0..MaxReorgs

IsMarket(m) == m.kind \notin {"NewHead", "NewBlock"}
Events(q) == {m \in ToSet(q) : IsMarket(m)}

\* Everything between the listener's cursor and the engine, oldest first.
Stages == <<delivered, event_chan, confirmed, buf, chain_chan>>

\* The streamer drops the cancellation of an order whose placement the session
\* has not read.
PlacedSince(id) ==
  \E b \in (FirstCursor + 1)..Len(chain) : \E log \in ToSet(chain[b]) :
    log.kind = "OrderPlaced" /\ log.order_id = id
Known(m) == m.kind = "OrderCancelled" => PlacedSince(m.order_id)
Plain(m) == [kind |-> m.kind, block |-> m.block, order_id |-> m.order_id]
KnownOf(events) == {Plain(m) : m \in {e \in events : Known(e)}}

\* Without a reorganisation nothing is lost or made up: what the engine has and
\* what is on its way are the logs of the blocks read so far.  With InBlockOrder
\* nothing is repeated or reordered either.
NothingLost ==
  reorgs = 0 =>
    KnownOf(UNION {Events(Stages[s]) : s \in 1..5})
      = KnownOf(UNION {ToSet(LogMsgs(b)) : b \in (FirstCursor + 1)..cursor})

Sorted(q) ==
  \A i, j \in 1..Len(q) :
    i < j /\ IsMarket(q[i]) /\ IsMarket(q[j]) => q[i].block < q[j].block

\* With reorganisations too: heights are read once each, and their events reach
\* the engine in the order of their heights, so that drain_confirmed, which
\* stops at the first unconfirmed event, leaves no confirmed one behind it.
InBlockOrder ==
  /\ \A s \in 1..5 : Sorted(Stages[s])
  /\ \A s, t \in 1..5 :
       s < t => \A e \in Events(Stages[s]), f \in Events(Stages[t]) :
                  e.block < f.block

\* With reorganisations too: a cancellation reaches the engine after the
\* placement it belongs to, with the company of that placement, and a placement
\* is cancelled at most once.
CancelsFollowPlacements ==
  \A i \in 1..Len(delivered) :
    LET ev == delivered[i] IN
    ev.kind = "OrderCancelled" =>
      \E j \in 1..(i - 1) :
        /\ delivered[j].kind = "OrderPlaced"
        /\ delivered[j].order_id = ev.order_id
        /\ delivered[j].company_id = ev.company_id
        /\ \A k \in (j + 1)..(i - 1) : delivered[k].order_id # ev.order_id

IsDelivered(b) == \E i \in 1..Len(delivered) : delivered[i].block = b

\* A log that is confirmed on a chain that does not reorganise is delivered,
\* even when the chain stops growing, as long as the listener lives.
ConfirmedIsDelivered ==
  \A b \in (FirstCursor + 1)..(MaxBlocks - Confirmations) :
    (Len(chain) >= b + Confirmations /\ KnownOf(ToSet(LogMsgs(b))) # {})
      ~> (IsDelivered(b) \/ ~alive \/ reorgs > 0)

\* aide_daemon.rs:56 calls the buffer reorg-safe: it releases an event only when
\* `confirmations` blocks are on top of it, so that a reorganisation no deeper
\* than that leaves the engine no event that the chain does not have.
ReorgSafe ==
  \A i \in 1..Len(delivered) :
    LET ev == delivered[i] IN
    \E j \in 1..Len(LogMsgs(ev.block)) : Plain(LogMsgs(ev.block)[j]) = Plain(ev)
=============================================================================
