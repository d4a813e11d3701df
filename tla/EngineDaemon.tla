---------------------------- MODULE EngineDaemon ----------------------------
(***************************************************************************)
(* The daemon's path from a confirmed order to its settlement on chain:    *)
(* run_match_runner, run_settler_queue and flush_batch of                  *)
(* engine/src/bin/aide_daemon.rs, send_settle_trade_with_retry of          *)
(* engine/src/settler.rs, and the orders of contracts/InternalMarket.sol.  *)
(*                                                                         *)
(* The runner is the only caller of the engine, so this module extends     *)
(* MatchEngine: the runner's placement is that module's.  A fill is known  *)
(* by its number: made[k] is the k-th fill that the engine has returned,   *)
(* and channels, batches and transactions carry numbers.  Events arrive    *)
(* here in the order of the chain, which is what ChainStream is about.     *)
(*                                                                         *)
(* made, applied and resolved are history.                                 *)
(***************************************************************************)
EXTENDS MatchEngine

CONSTANTS
  Runner,         \* the match runner task
  FillCapacity,   \* places in the channel runner -> settler (8192)
  BatchSize,      \* fills that make a full batch (256)
  MaxAttempts,    \* MAX_ATTEMPTS of send_settle_trade_with_retry (8)
  FailureLimit    \* consecutive failures that pause matching (3)

ASSUME DaemonAssumption ==
  /\ Callers = {Runner}
  /\ {FillCapacity, BatchSize, MaxAttempts, FailureLimit} \subseteq Positive

VARIABLES
  market,        \* InternalMarket.orders: id -> order, remaining, active
  events,        \* confirmed events on their way to the runner
  match_paused,  \* SharedState::match_paused, beside the engine's own flag
  unsent,        \* fills of the runner's last placement still to be sent
  counted,       \* the first of them is already in pending_settlements
  fill_queue,    \* fill_tx / fill_rx
  batch,         \* fills the settler has collected
  calls,         \* settleTrade calls of the batch being flushed
  settler,       \* what the settler task does
  attempt,       \* failed sends of the current call
  mempool,       \* transactions of the signer, in nonce order
  pending_settlements,
  settlement_fail_streak,
  signer,        \* RPC, market address and signing key are configured
  made,          \* fills returned by the engine
  applied,       \* fill -> times that settleTrade has executed it
  resolved       \* fill -> what the settler made of it

chainVars == <<market, mempool, applied>>
runnerVars == <<events, unsent, counted, made>>
settlerVars == <<batch, calls, settler, attempt, settlement_fail_streak, resolved>>
daemonVars == <<match_paused, fill_queue, pending_settlements, signer,
                chainVars, runnerVars, settlerVars>>
allVars == <<vars, daemonVars>>

OrderOnChain == [order: Requests, remaining: Nat, active: BOOLEAN]
Event == [kind: {"OrderPlaced", "OrderCancelled"}, order: Requests]

\* Every fill exhausts an order, so there are no more fills than orders.
Fills == 1..MaxArrivals
Serials(q) == [i \in 1..Len(q) |-> Len(made) + i]

DaemonInit ==
  /\ Init
  /\ market = EmptyMap
  /\ events = <<>>
  /\ match_paused = FALSE
  /\ unsent = <<>>
  /\ counted = FALSE
  /\ fill_queue = <<>>
  /\ batch = <<>>
  /\ calls = <<>>
  /\ settler = "collecting"
  /\ attempt = 0
  /\ mempool = <<>>
  /\ pending_settlements = 0
  /\ settlement_fail_streak = 0
  /\ signer \in BOOLEAN
  /\ made = <<>>
  /\ applied = [k \in Fills |-> 0]
  /\ resolved = [k \in Fills |-> "open"]

-----------------------------------------------------------------------------
(* Traders on chain. *)
PlaceOrder ==
  \E r \in Requests :
    /\ r.order_id = Cardinality(DOMAIN market) + 1
    /\ r.order_id <= MaxArrivals
    /\ market' = Put(market, r.order_id,
                     [order |-> r, remaining |-> r.remaining, active |-> TRUE])
    /\ events' = Append(events, [kind |-> "OrderPlaced", order |-> r])
    /\ UNCHANGED <<vars, match_paused, fill_queue, pending_settlements, signer,
                   mempool, applied, unsent, counted, made, settlerVars>>

CancelOnChain ==
  \E id \in DOMAIN market :
    /\ market[id].active
    /\ market' = [market EXCEPT ![id].active = FALSE]
    /\ events' = Append(events, [kind |-> "OrderCancelled", order |-> market[id].order])
    /\ UNCHANGED <<vars, match_paused, fill_queue, pending_settlements, signer,
                   mempool, applied, unsent, counted, made, settlerVars>>

-----------------------------------------------------------------------------
(* The match runner. *)
Mutant_TakesAgain(kind) ==
  /\ pc[Runner] = "idle"
  /\ unsent = <<>>
  /\ events # <<>>
  /\ Head(events).kind = kind
  /\ UNCHANGED events

RunnerReady(kind) ==
  /\ pc[Runner] = "idle"
  /\ unsent = <<>>
  /\ events # <<>>
  /\ Head(events).kind = kind
  /\ events' = Tail(events)

\* An order that meets a pause flag is dropped, here or in the engine's own
\* check: the effect is the same.
TakePlaced ==
  /\ RunnerReady("OrderPlaced")
  /\ IF match_paused \/ matching_paused
       THEN UNCHANGED vars
       ELSE Submit(Runner, Head(events).order)
  /\ UNCHANGED <<match_paused, fill_queue, pending_settlements, signer,
                 chainVars, unsent, counted, made, settlerVars>>

TakeCancelled ==
  /\ RunnerReady("OrderCancelled")
  /\ CancelResting(Runner, Head(events).order.company_id, Head(events).order.order_id)
  /\ UNCHANGED <<match_paused, fill_queue, pending_settlements, signer,
                 chainVars, unsent, counted, made, settlerVars>>

Match ==
  /\ Acquire(Runner) \/ MatchStep(Runner)
  /\ UNCHANGED daemonVars

\* The fills of a placement that fails go with it.
EndMatch ==
  /\ Return(Runner)
  /\ made' = made \o fills'[Runner]
  /\ unsent' = Serials(fills'[Runner])
  /\ UNCHANGED <<match_paused, fill_queue, pending_settlements, signer,
                 chainVars, events, counted, settlerVars>>

\* A fill is counted, then sent; sending waits for room in the channel.
CountFill ==
  /\ unsent # <<>>
  /\ ~counted
  /\ pending_settlements' = pending_settlements + 1
  /\ counted' = TRUE
  /\ UNCHANGED <<vars, match_paused, fill_queue, signer, chainVars, events,
                 unsent, made, settlerVars>>

SendFill ==
  /\ counted
  /\ Len(fill_queue) < FillCapacity
  /\ fill_queue' = Append(fill_queue, Head(unsent))
  /\ unsent' = Tail(unsent)
  /\ counted' = FALSE
  /\ UNCHANGED <<vars, match_paused, pending_settlements, signer, chainVars,
                 events, made, settlerVars>>

-----------------------------------------------------------------------------
(* The settler task. *)

\* flush_batch of the fills q: without a signer the calls are only uncounted.
Flush(q) ==
  /\ batch' = <<>>
  /\ \/ /\ signer
        /\ calls' = q
        /\ settler' = "sending"
        /\ UNCHANGED <<pending_settlements, resolved>>
     \/ /\ ~signer
        /\ pending_settlements' = pending_settlements - Len(q)
        /\ resolved' = [k \in Fills |->
                          IF k \in ToSet(q) THEN "skipped" ELSE resolved[k]]
        /\ UNCHANGED <<calls, settler>>

ReceiveFill ==
  LET q == Append(batch, Head(fill_queue)) IN
  /\ settler = "collecting"
  /\ fill_queue # <<>>
  /\ fill_queue' = Tail(fill_queue)
  /\ \/ Len(q) >= BatchSize /\ Flush(q)
     \/ /\ Len(q) < BatchSize
        /\ batch' = q
        /\ UNCHANGED <<pending_settlements, calls, settler, resolved>>
  /\ UNCHANGED <<vars, match_paused, signer, chainVars, runnerVars, attempt,
                 settlement_fail_streak>>

FlushInterval ==
  /\ settler = "collecting"
  /\ batch # <<>>
  /\ Flush(batch)
  /\ UNCHANGED <<vars, match_paused, fill_queue, signer, chainVars, runnerVars,
                 attempt, settlement_fail_streak>>

\* The first call is done with; the batch goes on with the next.
NextCall ==
  /\ calls' = Tail(calls)
  /\ attempt' = 0
  /\ settler' = IF Len(calls) = 1 THEN "collecting" ELSE "sending"

Mutant_NoPause(n) == UNCHANGED <<matching_paused, match_paused>>

PauseAfter(n) ==
  IF n >= FailureLimit
    THEN matching_paused' = TRUE /\ match_paused' = TRUE
    ELSE UNCHANGED <<matching_paused, match_paused>>

Mutant_StopsAtFailure ==
  /\ calls' = <<>>
  /\ attempt' = 0
  /\ settler' = "collecting"
  /\ settlement_fail_streak' = settlement_fail_streak + 1
  /\ resolved' = [resolved EXCEPT ![Head(calls)] = "failed"]
  /\ PauseAfter(settlement_fail_streak')
  /\ UNCHANGED pending_settlements

Mutant_TriesForever ==
  /\ attempt' = 0
  /\ settler' = "sending"
  /\ UNCHANGED <<calls, settlement_fail_streak, resolved, matching_paused,
                 match_paused, pending_settlements>>

\* The call failed: it is not tried again, and it stays in pending_settlements.
CallFails ==
  /\ NextCall
  /\ settlement_fail_streak' = settlement_fail_streak + 1
  /\ resolved' = [resolved EXCEPT ![Head(calls)] = "failed"]
  /\ PauseAfter(settlement_fail_streak')
  /\ UNCHANGED pending_settlements

Mutant_UncountsRest ==
  /\ NextCall
  /\ settlement_fail_streak' = 0
  /\ resolved' = [resolved EXCEPT ![Head(calls)] = "confirmed"]
  /\ pending_settlements' = pending_settlements - Len(calls)

CallSucceeds ==
  /\ NextCall
  /\ settlement_fail_streak' = 0
  /\ resolved' = [resolved EXCEPT ![Head(calls)] = "confirmed"]
  /\ pending_settlements' = pending_settlements - 1

engineRest == <<books, lock, pc, incoming, fills, outcome, historyVars>>

\* The gas price is asked for once, before the first send.
GasPriceFails ==
  /\ settler = "sending"
  /\ attempt = 0
  /\ CallFails
  /\ UNCHANGED <<engineRest, fill_queue, signer, chainVars, runnerVars, batch>>

SendSucceeds ==
  /\ settler = "sending"
  /\ mempool' = Append(mempool, Head(calls))
  /\ settler' = "waiting"
  /\ UNCHANGED <<vars, match_paused, fill_queue, pending_settlements, signer,
                 market, applied, runnerVars, batch, calls, attempt,
                 settlement_fail_streak, resolved>>

\* A send that is reported as failed may have reached the node or not.
SendFails ==
  /\ settler = "sending"
  /\ mempool' \in {mempool, Append(mempool, Head(calls))}
  /\ \/ /\ attempt + 1 = MaxAttempts
        /\ CallFails
     \/ /\ attempt + 1 < MaxAttempts
        /\ attempt' = attempt + 1
        /\ UNCHANGED <<matching_paused, match_paused, pending_settlements, calls,
                       settler, settlement_fail_streak, resolved>>
  /\ UNCHANGED <<engineRest, fill_queue, signer, market, applied, runnerVars, batch>>

\* Any receipt counts as success, one of a reverted transaction too.  The
\* transaction waited for is the last one sent.
ReceiptArrives ==
  /\ settler = "waiting"
  /\ mempool = <<>>
  /\ CallSucceeds
  /\ UNCHANGED <<vars, match_paused, fill_queue, signer, chainVars, runnerVars, batch>>

ReceiptFails ==
  /\ settler = "waiting"
  /\ CallFails
  /\ UNCHANGED <<engineRest, fill_queue, signer, chainVars, runnerVars, batch>>

-----------------------------------------------------------------------------
(* InternalMarket.settleTrade. *)
Mutant_EvenIfInactive(f) ==
  /\ \A id \in {f.maker_order_id, f.taker_order_id} : market[id].remaining >= f.vstk_amount
  /\ f.ait_notional # 0

Acceptable(f) ==
  /\ \A id \in {f.maker_order_id, f.taker_order_id} :
       market[id].active /\ market[id].remaining >= f.vstk_amount
  /\ f.ait_notional # 0

Mutant_ClosesPartial(o, qty) == [o EXCEPT !.remaining = @ - qty, !.active = FALSE]
Mutant_KeepsRemaining(o, qty) == [o EXCEPT !.active = @ /\ o.remaining > qty]

LessTraded(o, qty) ==
  [o EXCEPT !.remaining = @ - qty, !.active = @ /\ o.remaining > qty]

\* The oldest transaction is included.  It executes, or it reverts (an order is
\* gone, a balance is short, trading or the guardrail is paused), or the
\* guardrail blocks it, which leaves the same state as a revert.
Include ==
  LET f == made[Head(mempool)] IN
  /\ mempool # <<>>
  /\ mempool' = Tail(mempool)
  /\ \/ /\ Acceptable(f)
        /\ market' = [id \in DOMAIN market |->
             IF id \in {f.maker_order_id, f.taker_order_id}
               THEN LessTraded(market[id], f.vstk_amount) ELSE market[id]]
        /\ applied' = [applied EXCEPT ![Head(mempool)] = @ + 1]
     \/ UNCHANGED <<market, applied>>
  /\ UNCHANGED <<vars, match_paused, fill_queue, pending_settlements, signer,
                 runnerVars, settlerVars>>

-----------------------------------------------------------------------------
RunnerStep ==
  TakePlaced \/ TakeCancelled \/ Match \/ EndMatch \/ CountFill \/ SendFill
SettlerStep ==
  \/ ReceiveFill \/ FlushInterval
  \/ GasPriceFails \/ SendSucceeds \/ SendFails \/ ReceiptArrives \/ ReceiptFails

DaemonNext == PlaceOrder \/ CancelOnChain \/ RunnerStep \/ SettlerStep \/ Include

\* Both tasks are scheduled and the chain includes what is in the mempool: RPC
\* calls end, with or without an error.
DaemonSpec ==
  /\ DaemonInit
  /\ [][DaemonNext]_allVars
  /\ WF_allVars(RunnerStep)
  /\ WF_allVars(SettlerStep)
  /\ WF_allVars(Include)

-----------------------------------------------------------------------------
Unresolved == ToSet(fill_queue) \cup ToSet(batch) \cup ToSet(calls) \cup ToSet(unsent)

\* Type invariant of the daemon; the numbers in its queues are numbers of fills.
DaemonTypeOK ==
  /\ TypeOK
  /\ market \in [1..Cardinality(DOMAIN market) -> OrderOnChain]
  /\ \A id \in DOMAIN market : /\ market[id].order.order_id = id
                               /\ market[id].remaining <= market[id].order.remaining
  /\ events \in Seq(Event)
  /\ {match_paused, counted, signer} \subseteq BOOLEAN
  /\ made \in Seq(Fill)
  /\ {fill_queue, batch, calls, unsent, mempool} \subseteq Seq(1..Len(made))
  /\ Len(made) <= MaxArrivals
  /\ Len(fill_queue) <= FillCapacity
  /\ Len(batch) < BatchSize
  /\ settler \in {"collecting", "sending", "waiting"}
  /\ (settler = "collecting") <=> (calls = <<>>)
  /\ attempt \in 0..(MaxAttempts - 1)
  /\ {pending_settlements, settlement_fail_streak} \subseteq 0..MaxArrivals
  /\ applied \in [Fills -> Nat]
  /\ resolved \in [Fills -> {"open", "skipped", "confirmed", "failed"}]

\* pending_settlements counts every fill between the runner and the end of its
\* call once, and beyond that exactly the fills whose settlement has failed.
PendingCounts ==
  pending_settlements =
      (IF counted THEN 1 ELSE 0) + Len(fill_queue) + Len(batch) + Len(calls)
    + Cardinality({k \in Fills : resolved[k] = "failed"})

\* A fill leaves the pipeline in the order in which it was made and is in one
\* place at a time: no queue holds a fill twice or out of order.
FillsInOrder ==
  LET q == calls \o batch \o fill_queue \o unsent IN
  /\ \A i \in 1..Len(q) : q[i] = Len(made) - Len(q) + i
  /\ \A k \in 1..Len(made) : resolved[k] = "open" <=> k \in ToSet(q)

SharesOrder(f, g) ==
  {f.maker_order_id, f.taker_order_id} \cap {g.maker_order_id, g.taker_order_id} # {}

\* A fill exhausts one of its two orders, in the engine and, when every earlier
\* fill of that order has been settled, on chain too: so a settlement sent twice
\* is executed twice only after an earlier fill of the same order was lost.
ReplayNeedsLostFill ==
  \A k \in 1..Len(made) :
    applied[k] > 1 =>
      \E j \in 1..(k - 1) : applied[j] = 0 /\ SharesOrder(made[j], made[k])

\* As long as no settlement has been executed twice, an order that rests in the
\* engine has at least as much left on chain, and is active there unless its
\* cancellation is on its way: the engine never offers what the chain lacks.
ChainCoversEngine ==
  (\A k \in Fills : applied[k] <= 1) =>
    \A c \in Companies : \A id \in DOMAIN books[c].orders :
      /\ market[id].remaining >= books[c].orders[id].remaining
      /\ \/ market[id].active
         \/ \E i \in 1..Len(events) : /\ events[i].kind = "OrderCancelled"
                                      /\ events[i].order.order_id = id

\* The id of an order that the runner places is never taken in the book, so no
\* placement fails with the fills that it has made (matching.rs:125), of which
\* the runner would only log a warning (aide_daemon.rs:591).
PlacementsSucceed == outcome[Runner] # "DuplicateOrderId"

\* Whatever is in the pipeline reaches the end of its settlement, however many
\* sends fail and although the runner waits for the settler at a full channel.
FillsResolved == Unresolved # {} ~> Unresolved = {}

FailedInARow ==
  \E k \in Fills : \A i \in k..(k + FailureLimit - 1) :
    i \in Fills /\ resolved[i] = "failed"

\* FailureLimit failures in a row (aide_daemon.rs:98) end matching for good: the
\* settlements that follow, and a success among them, bring no order back.
NoOrderAfterFailures ==
  [][FailedInARow /\ pc'[Runner] = "admitted" => pc[Runner] = "admitted"]_allVars

\* ENGINE_SYNC_SPEC.md:30 gives every settlement an id against replay: no fill
\* is executed twice.
NoReplay == \A k \in Fills : applied[k] <= 1

\* The daemon on a network where a send that reports an error has not reached the
\* node: then, and only then, is a send that is tried again a send once.
AnswersArrive == SendFails => UNCHANGED mempool
AnsweredSpec == DaemonInit /\ [][DaemonNext /\ AnswersArrive]_allVars

-----------------------------------------------------------------------------
Path == INSTANCE SettlementPath

\* Whatever channels, batches, retries and lost answers do in between, traders see
\* no order filled for more than was placed, fills settled in the order in which
\* they were made, none executed before its turn or after it is confirmed, and
\* each done with in the end (aide_daemon.rs:521, 646; settler.rs:161).
ImplementsPath == Path!Spec
=============================================================================
