------------------------------ MODULE Telemetry ------------------------------
(***************************************************************************)
(* TelemetryHub of engine/src/telemetry.rs and the tasks of                 *)
(* engine/src/bin/aide_daemon.rs that write to it or read from it: the      *)
(* settler, which records the fills of a batch one call at a time and       *)
(* reports settlements that keep failing, the audit, the event streamer and *)
(* the readers behind the HTTP routes and the metrics log.  Every method of *)
(* the hub holds its lock throughout; between two of them any other task    *)
(* may run, and time passes.                                                *)
(*                                                                          *)
(* How a settlement or an audit ends, and which height and tax rate the      *)
(* settler finds, is left open here: EngineDaemon, SyncAudit and ChainStream  *)
(* are about that.  log and heights are history.                            *)
(***************************************************************************)
EXTENDS SlidingWindow

CONSTANTS
  Fills,      \* their vstk_amount and ait_notional
  Heights,    \* what last_block_height may hold
  Rates,      \* what tax_rate_bps may hold
  MaxBlocks,  \* max_blocks of the block window
  MaxFills,   \* bound on fills
  MaxTime     \* bound on time

ASSUME TelemetryAssumption ==
  /\ Fills \subseteq [vstk : 1..MaxU256, ait : 1..MaxU256]
  /\ Heights \subseteq Nat
  /\ Rates \subseteq 0..10000
  /\ MaxBlocks \in Nat \ {0}
  /\ {MaxFills, MaxTime} \subseteq Nat

WindowNames == {"vstk", "tax", "ait"}

VARIABLES
  now,
  fills,       \* how many there have been
  batch,       \* received by the settler, not flushed
  settler,     \* where the settler's task is
  bn,          \* height that flush_batch has read
  recording,   \* fills of the flushed batch still to be recorded
  calls,       \* and how many are still to be settled
  settlement_fail_streak,
  audit,       \* where the audit's task is
  matching_paused, match_paused,
  window,      \* vstk_window, tax_window, ait_notional_24h
  block_ait, chain_listener_connected, matching_pause,
  log,         \* all samples of each window
  heights      \* all samples of the block window

taskVars == <<fills, batch, settler, bn, recording, calls, settlement_fail_streak>>
pauseVars == <<matching_paused, match_paused, matching_pause>>
sampleVars == <<window, block_ait, log, heights>>
others == <<now, audit, chain_listener_connected>>
vars == <<taskVars, others, pauseVars, sampleVars>>

Init ==
  /\ now = 0
  /\ fills = 0
  /\ batch = <<>>
  /\ settler = "receive"
  /\ bn = 0
  /\ recording = <<>>
  /\ calls = 0
  /\ settlement_fail_streak = 0
  /\ audit = "asleep"
  /\ matching_paused = FALSE
  /\ match_paused = FALSE
  /\ window = [n \in WindowNames |-> NewWindow]
  /\ block_ait = <<>>
  /\ chain_listener_connected = TRUE
  /\ matching_pause = "none"
  /\ log = [n \in WindowNames |-> <<>>]
  /\ heights = <<>>

-----------------------------------------------------------------------------
Pass ==
  /\ now < MaxTime
  /\ now' = now + 1
  /\ UNCHANGED <<taskVars, audit, chain_listener_connected, pauseVars, sampleVars>>

ListenerExits ==
  /\ chain_listener_connected' = FALSE
  /\ UNCHANGED <<taskVars, now, audit, pauseVars, sampleVars>>

-----------------------------------------------------------------------------
(* The settler. *)
ReceiveFill ==
  /\ settler = "receive"
  /\ fills < MaxFills
  /\ fills' = fills + 1
  /\ \E f \in Fills : batch' = Append(batch, f)
  /\ UNCHANGED <<settler, bn, recording, calls, settlement_fail_streak, others,
                 pauseVars, sampleVars>>

\* One height for the whole batch: the head's as the streamer stored it, or that
\* of a block or trade behind it as the runner did.
FlushBatch ==
  /\ settler = "receive"
  /\ batch # <<>>
  /\ bn' \in Heights
  /\ recording' = batch
  /\ calls' = Len(batch)
  /\ batch' = <<>>
  /\ settler' = "trade"
  /\ UNCHANGED <<fills, settlement_fail_streak, others, pauseVars, sampleVars>>

RecordIn(names, amount) ==
  /\ window' = [n \in WindowNames |->
                  IF n \in names THEN Record(window[n], now, amount[n]) ELSE window[n]]
  /\ log' = [n \in WindowNames |->
               IF n \in names THEN Append(log[n], [at |-> now, amount |-> amount[n]])
                              ELSE log[n]]

Mutant_NewestDropped(blocks, b, n) ==
  IF blocks # <<>> /\ blocks[Len(blocks)].block = b
  THEN [blocks EXCEPT ![Len(blocks)].sum = SaturatingAdd(@, n)]
  ELSE IF Len(blocks) = MaxBlocks THEN blocks
  ELSE Append(blocks, [block |-> b, sum |-> n])
Mutant_Unbounded(blocks, b, n) ==
  IF blocks # <<>> /\ blocks[Len(blocks)].block = b
  THEN [blocks EXCEPT ![Len(blocks)].sum = SaturatingAdd(@, n)]
  ELSE Append(blocks, [block |-> b, sum |-> n])
Mutant_LooksAtFront(blocks, b, n) ==
  IF blocks # <<>> /\ blocks[1].block = b
  THEN [blocks EXCEPT ![1].sum = SaturatingAdd(@, n)]
  ELSE LET longer == Append(blocks, [block |-> b, sum |-> n])
       IN IF Len(longer) > MaxBlocks THEN Tail(longer) ELSE longer
\* A sample of the block at the back is added to it.
RecordBlock(blocks, b, n) ==
  IF blocks # <<>> /\ blocks[Len(blocks)].block = b
  THEN [blocks EXCEPT ![Len(blocks)].sum = SaturatingAdd(@, n)]
  ELSE LET longer == Append(blocks, [block |-> b, sum |-> n])
       IN IF Len(longer) > MaxBlocks THEN Tail(longer) ELSE longer

RecordTradeSettled ==
  /\ settler = "trade"
  /\ recording # <<>>
  /\ LET f == Head(recording)
     IN /\ block_ait' = RecordBlock(block_ait, bn, f.ait)
        /\ heights' = Append(heights, [block |-> bn, amount |-> f.ait])
        /\ RecordIn({"ait", "vstk"}, [ait |-> f.ait, vstk |-> f.vstk])
  /\ settler' = "vstk"
  /\ UNCHANGED <<fills, batch, bn, recording, calls, settlement_fail_streak, others,
                 pauseVars>>

\* A second time, beside record_trade_settled.
RecordVstkNotional ==
  /\ settler = "vstk"
  /\ RecordIn({"vstk"}, [vstk |-> Head(recording).vstk])
  /\ settler' = "tax"
  /\ UNCHANGED <<fills, batch, bn, recording, calls, settlement_fail_streak, others,
                 pauseVars, block_ait, heights>>

\* The fee is an estimate, by the rate of the moment.
RecordTax ==
  /\ settler = "tax"
  /\ \E tax_bps \in Rates :
       IF tax_bps > 0
       THEN RecordIn({"tax"}, [tax |-> (Head(recording).ait * tax_bps) \div 10000])
       ELSE UNCHANGED <<window, log>>
  /\ recording' = Tail(recording)
  /\ settler' = IF recording' = <<>> THEN "call" ELSE "trade"
  /\ UNCHANGED <<fills, batch, bn, calls, settlement_fail_streak, others, pauseVars,
                 block_ait, heights>>

Mutant_Recovers ==
  /\ settler = "call"
  /\ calls > 0
  /\ calls' = calls - 1
  /\ settlement_fail_streak' = 0
  /\ matching_pause' = "none"
  /\ UNCHANGED <<fills, batch, settler, bn, recording, others, matching_paused,
                 match_paused, sampleVars>>
CallSucceeds ==
  /\ settler = "call"
  /\ calls > 0
  /\ calls' = calls - 1
  /\ settlement_fail_streak' = 0
  /\ UNCHANGED <<fills, batch, settler, bn, recording, others, pauseVars, sampleVars>>

\* Past 3 the streak makes no difference any more.
CallFails ==
  /\ settler = "call"
  /\ calls > 0
  /\ calls' = calls - 1
  /\ settlement_fail_streak' = IF settlement_fail_streak < 3
                               THEN settlement_fail_streak + 1 ELSE 3
  /\ settler' = IF settlement_fail_streak' = 3 THEN "reason" ELSE "call"
  /\ UNCHANGED <<fills, batch, bn, recording, others, pauseVars, sampleVars>>

\* CRITICAL_SETTLEMENT_FAILURE: telemetry, the engine and the runner are told.
SettlementFailure ==
  /\ \/ /\ settler = "reason"
        /\ matching_pause' = "SettlementFailure"
        /\ settler' = "pause"
        /\ UNCHANGED <<matching_paused, match_paused>>
     \/ /\ settler = "pause"
        /\ matching_paused' = TRUE
        /\ settler' = "stop"
        /\ UNCHANGED <<matching_pause, match_paused>>
     \/ /\ settler = "stop"
        /\ match_paused' = TRUE
        /\ settler' = "call"
        /\ UNCHANGED <<matching_pause, matching_paused>>
  /\ UNCHANGED <<fills, batch, bn, recording, calls, settlement_fail_streak, others,
                 sampleVars>>

BatchDone ==
  /\ settler = "call"
  /\ calls = 0
  /\ settler' = "receive"
  /\ UNCHANGED <<fills, batch, bn, recording, calls, settlement_fail_streak, others,
                 pauseVars, sampleVars>>

-----------------------------------------------------------------------------
(* CRITICAL_DRIFT of the audit, in the opposite order: engine, telemetry, runner. *)
CriticalDrift ==
  /\ \/ /\ audit = "asleep"
        /\ matching_paused' = TRUE
        /\ audit' = "reason"
        /\ UNCHANGED <<matching_pause, match_paused>>
     \/ /\ audit = "reason"
        /\ matching_pause' = "Drift"
        /\ audit' = "stop"
        /\ UNCHANGED <<matching_paused, match_paused>>
     \/ /\ audit = "stop"
        /\ match_paused' = TRUE
        /\ audit' = "asleep"
        /\ UNCHANGED <<matching_paused, matching_pause>>
  /\ UNCHANGED <<taskVars, now, chain_listener_connected, sampleVars>>

-----------------------------------------------------------------------------
(* The readers: to_metrics_json and to_summary_json change the windows too. *)
EvictIn(names) ==
  /\ window' = [n \in WindowNames |->
                  IF n \in names THEN EvictOld(window[n], now) ELSE window[n]]
  /\ UNCHANGED <<taskVars, others, pauseVars, block_ait, log, heights>>

ToMetricsJson == EvictIn({"vstk", "tax"})
ToSummaryJson == EvictIn({"ait"})

HealthScore ==
  CASE ~chain_listener_connected -> 0
    [] chain_listener_connected /\ matching_pause # "none" -> 50
    [] OTHER -> 100

VelocityPerBlockAvg ==
  LET n == Len(block_ait)
  IN IF n = 0 THEN 0
     ELSE SaturatingSum(0, [i \in 1..n |-> block_ait[i].sum], n) \div n

Settler ==
  \/ ReceiveFill \/ FlushBatch \/ RecordTradeSettled \/ RecordVstkNotional \/ RecordTax
  \/ CallSucceeds \/ CallFails \/ SettlementFailure \/ BatchDone

Next ==
  Settler \/ CriticalDrift \/ ListenerExits \/ Pass \/ ToMetricsJson \/ ToSummaryJson

Spec == Init /\ [][Next]_vars

-----------------------------------------------------------------------------
\* Type invariant of the hub and the tasks.
TypeOK ==
  /\ {now, fills, bn, calls} \subseteq Nat
  /\ batch \in Seq(Fills) /\ recording \in Seq(Fills)
  /\ settler \in {"receive", "trade", "vstk", "tax", "call", "reason", "pause", "stop"}
  /\ settler \in {"trade", "vstk", "tax"} => recording # <<>>
  /\ settlement_fail_streak \in 0..3
  /\ audit \in {"asleep", "reason", "stop"}
  /\ {matching_paused, match_paused, chain_listener_connected} \subseteq BOOLEAN
  /\ matching_pause \in {"none", "Drift", "SettlementFailure"}
  /\ window \in [WindowNames -> Windows]
  /\ block_ait \in Seq([block : Nat, sum : 0..MaxU256])
  /\ Len(block_ait) <= MaxBlocks

\* Whenever a window is read, whichever reader evicted what before, its volume is
\* the sum of the samples of the last 24 hours; a sum that has saturated is never
\* more than that (telemetry.rs:49).
WindowsExact ==
  \A n \in WindowNames :
    LET volume == WindowVolume(window[n], now)
        exact == SumIn(log[n], Recent(log[n], now))
    IN /\ volume <= exact
       /\ SumOf(log[n]) <= MaxU256 => volume = exact

At(blocks) == {i \in 1..Len(heights) : heights[i].block \in blocks}
SumAt(b) == SumIn(heights, At({b}))
NeverBack == \A i \in 2..Len(heights) : heights[i - 1].block <= heights[i].block
HeightsSeen == {heights[i].block : i \in 1..Len(heights)}
\* The last max_blocks of the heights seen.
LastHeights == {b \in HeightsSeen : Cardinality({c \in HeightsSeen : c > b}) < MaxBlocks}

\* As long as the stored height does not go back between two flushes, the block
\* window holds the sums of the latest max_blocks heights, each in one entry, and
\* the velocity is their mean, whatever batches they came in (telemetry.rs:84).
VelocityExact ==
  NeverBack /\ SumOf(heights) <= MaxU256 =>
    /\ {block_ait[i] : i \in 1..Len(block_ait)} = {[block |-> b, sum |-> SumAt(b)] : b \in LastHeights}
    /\ LastHeights # {} =>
         VelocityPerBlockAvg =
           SumIn(heights, At(LastHeights)) \div Cardinality(LastHeights)

\* Between the steps of a pause the dashboard may disagree with the engine, and two
\* tasks may pause at once in opposite orders; when both are done, health, reason,
\* engine and runner agree, and no later audit or settlement separates them again
\* (aide_daemon.rs:331, 684).
HealthShowsPause ==
  audit = "asleep" /\ settler \notin {"pause", "stop"} =>
    /\ match_paused = matching_paused
    /\ HealthScore = CASE ~chain_listener_connected -> 0
                       [] chain_listener_connected /\ matching_paused -> 50
                       [] OTHER -> 100

\* telemetry.rs:66 and 69 call the block window one of block heights, "merged by
\* block height": no height has two entries.
BlocksMerged ==
  \A i, j \in 1..Len(block_ait) : i # j => block_ait[i].block # block_ait[j].block

\* A height has two entries only if the stored height has gone back between two
\* flushes, whatever was added up in the meantime, sums that saturate included
\* (telemetry.rs:84).
MergedUnlessBack == NeverBack => BlocksMerged
=============================================================================
