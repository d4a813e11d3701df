# A verification project for AIDE

AIDE is a market for the shares (vSTK) of AI companies, paid for in the token AIT.
Traders place and cancel orders in a contract, a Rust daemon off chain reads them,
matches them in memory and sends one `settleTrade` per fill back to the contract.
Beside the market stand an escrow for tasks, a staking pool, a treasury with a
circuit breaker and a vault for dividends, all in Solidity.

This directory holds TLA+ modules of that system, TLC configurations that check them on
small instances, and proofs that TLAPS checks. It was built in the order of the plan
below, which also says what is left out.

## 1. Inventory

### Off chain (`engine/src`)

| Component | State | Operations | Interacts with |
|---|---|---|---|
| Order book (`orderbook.rs`) | `bids`, `asks` (price -> queue of ids), `orders` | insert, cancel, best levels, level cleanup | owned by the engine, behind a mutex per company |
| Match engine (`matching.rs`) | books per company, atomic `matching_paused`, atomic tax rate | `limit_order_placement`, `ingest_chain_order`, `ingest_cancel`, pause, resume | called by the match runner and by tests; paused by the settler and the audit |
| Chain listener (`chain.rs`) | cursor (last height read) | poll the head, read logs per height, send `ChainMsg` | RPC node; bounded channel to the streamer |
| Event streamer, `BlockBuffer` (`aide_daemon.rs`) | buffer of events, `order_company`, `last_block_height` | buffer, drain what is confirmed, forward | listener and runner by bounded channels |
| Match runner (`aide_daemon.rs`) | - | take an event, place or cancel, count and send fills | engine; channel of 8192 fills to the settler |
| Settler queue (`aide_daemon.rs`, `settler.rs`) | batch, failure streak, `pending_settlements` | collect, flush at 256 or on a timer, send with up to 8 attempts, wait for the receipt, pause after 3 failures | node's mempool, `settleTrade`, both pause flags |
| Sync audit (`sync.rs`, `audit.rs`, daemon's loop) | shadow ledger of vSTK and AIT per account | apply a settled fill, snapshot, compare with the chain, freeze matching on drift, copy the tax rate | runner (fills), engine (pause, tax rate), chain |
| Telemetry (`telemetry.rs`) | windows of per-block volume and of 24 h, pause reasons | record, merge, report | settler, audit; HTTP reader |
| Forecaster (`forecaster.rs`) | a window of 24 h | record, volume, threshold warning | logs only |
| Notifier, TEE, chaos hooks | none | web hooks, attestation placeholder, delays | no decision of the daemon depends on them |

Between any two tasks of the daemon there is a bounded tokio channel, and the only other
shared state is atomics (`matching_paused`, `match_paused`, `pending_settlements`,
`last_block_height`) and the mutex of each book.

What is hard: callers race for a book while a flag they read earlier changes; a block is
read before it is final; the head is announced before its logs are read; a full fill
channel stops the runner, whose placement is then half-sent; an RPC that fails after it
took effect; a settlement that fails after the engine has already reduced its book; a
pause from one task while another is in the middle of a placement.

### On chain (`contracts`)

| Component | State | Operations | Interacts with |
|---|---|---|---|
| `InternalMarket` | orders, AIT balances, shares, dividends per share | register, deposit, withdraw, place, cancel, `settleTrade`, dividends | token, guardrail, registry; events to the listener |
| `TaskMarket` | tasks, escrow | create, fund, submit, approve, cancel | token (taxed), registry |
| `StakingPool` | stakes, reward accumulator | stake, unstake, add reward, claim | treasury |
| `DualPoolVault`, `AiPoolManager` | two pools, cumulative figures | dividends behind a gate, AI-pool spending | treasury, economist |
| `Treasury`, `Guardrail`, `AIToken`, `AI_Economist_Controller` | balances, outflow window, tax and mint state, rate | taxed transfer, evaluate an outflow, pause, mint, change the rate | all of the above |
| `AIIdentityRegistry`, `AIBank` | verification flags, listings | verify, list | guards of the other contracts |
| `circuits`, `scripts`, `contracts/mocks`, CREATE2 factory | - | commitments, deployment, audit scripts | not modelled (cryptography, one-shot scripts, test doubles) |

What is hard: the token taxes a transfer, so the amount asked for and the amount received
differ; an accumulator per share must follow every movement of shares; the guardrail
judges each outflow by a window; the order of approve and cancel decides an escrow.

### What makes each component correct

* *Order book and engine*: queues, levels and order map agree at every turn; a fill takes
  the best price and the earliest order; nobody trades beyond a limit; no crossed book;
  every unit is open, matched or cancelled, once; every placement returns.
* *Listener, streamer, runner*: every confirmed log reaches the engine once, in order, with
  the company it belongs to, and only if it is part of the chain.
* *Runner and settler*: every fill is settled or reported once, in order; the engine never
  offers what the chain lacks; repeated failure ends matching for good.
* *Audit*: the shadow equals the chain when nothing is in flight; a verdict is true when nothing
  moved during the audit; drift freezes matching before anybody is told.
* *Telemetry*: a window holds the samples of its period, whoever reads it when; the dashboard agrees
  with the engine.
* *Market, escrow, pools*: what a contract owes and what it holds differ by the tax withheld and
  nothing else; who comes late has no part in earlier profits; an escrow pays once, and whom it should.

`PROJECT.json` lists the hazards with their lines and the properties that cover them.

## 2. Plan

| | Module(s) | Composes | State |
|---|---|---|---|
| A | `OrderBook`, `MatchEngine`, abstract `PriceTimeMarket` | book as operators, engine as processes | done, proved |
| B | `ChainStream` | listener, streamer, runner's receiving end | done, proved |
| C | `EngineDaemon`, abstract `SettlementPath` | `MatchEngine` + runner + settler + mempool + the market's orders | done, proved |
| D | `SyncAudit` | shadow ledger, snapshots, drift decision, tax rate, sampling loop, the market's balances | done, proved |
| E | `SlidingWindow`, `Telemetry` | the hub, the settler's and the audit's reports, the readers | done, proved |
| F | `AiToken`, `MarketLedger` | balances, shares, dividends over token tax and breaker | done, proved in `Contracts` |
| G | `TaskMarket` | escrow with the taxed token and the registry | done, proved in `Contracts` |
| H | `StakingPool` | stakes and the reward accumulator | done, proved in `Contracts` |
| | `Contracts` | F, G and H over one token, one rate and one breaker | done, proved |
| | `Sums` | sums over sequences and finite sets, used by `MatchEngine`, `Contracts` and `SlidingWindow` | done, proved |
| I | vaults, salaries, the economist | - | left out, see section 6 |

There are two abstract specifications: `PriceTimeMarket` (what an engine promises: a set of resting orders
and at most one taker per company) and `SettlementPath` (what the daemon promises: from an order on chain to its
settlement, without anything in between). For the contracts the promise is an equation of
books, stated as an invariant instead.

All invariants and step properties of the passing runs are theorems, and so are the safety halves of both
refinements (section 5). What is left open is listed in section 6.

## 3. The modules

### `OrderBook` - `orderbook.rs`, and the inner step of `matching.rs`

A book is a value: `queues` (side -> price -> sequence of ids) and `orders` (id -> order).
A `BTreeMap` or `HashMap` is a function whose domain is the set of its keys, so that "the
level is empty" and "the level is absent" differ, as they do in the code. `match_buy` and
`match_sell` are the same text with the sides and the comparison swapped, and are one set of
operators (`Opposite`, `Crosses`, `IsBest`). `MulDivRay` multiplies modulo `UintModulus`,
as ruint's `*` on `U256` does, and then divides. `ticket` is history: the number of the
order in the sequence in which orders entered the engine.

### `MatchEngine` - `matching.rs`

Several `Callers` hold the engine. `limit_order_placement` is
`Submit` (pause check passed) or `Refuse`, `Acquire` (mutex of the book), one `MatchStep` per
turn of the loop, `Return` (the remainder rests or is a duplicate). The flag is read once,
before the mutex, so a placement that was admitted matches after `PauseMatching`; the model
has that interleaving. `IngestChainOrder` and `IngestCancel` hold the mutex throughout and
are one step. When a remainder is refused as a duplicate, the fills already made vanish with
the vector and the book stays reduced: `Return` does the same.

Splitting the loop into one step per turn is finer than the mutex allows anyone to observe;
it is what lets the properties speak of each fill.

### `PriceTimeMarket` - abstract specification

Per company a set of resting orders and at most one order being matched, with no queues,
levels, callers or locks. `MatchEngine!ImplementsMarket` is its specification under the mapping
`resting` = the values of the order maps, `taker` = the order of the mutex holder.

### `ChainStream` - `chain.rs`, and three parts of `aide_daemon.rs`

`Mine` and `Reorg` are the chain. `Poll` and `FetchBlock` are the listener: it sends `NewHead`
first, then reads the heights up to it one at a time, each once, from the chain as it is then.
`ListenerExits` is any failed RPC, after which the task is over. `Receive` is one turn of the
streamer's loop: it remembers the company of a placed order, looks it up for a cancelled one
(the log does not name it), and on `NewHead` drains from the front what is confirmed. `Send`
forwards one message, and `RunnerTakes` is the runner, which stores a height on `NewBlock` and
on `TradeSettled`. Both channels are bounded; a task that finds one full waits.

`NewHead` with block 0 and logs at height 0 do not occur: heights start at 1. The starting
point follows the code: with `from_block` set, the first height read is the one after it
(`FirstCursor`). Reading a height and sending its logs is one step, since a log that was read
and waits for room behaves as one more place in the channel. Not modelled: the local simulation branch (it
makes up orders on a timer), decoding, and logs that do not decode.

### `EngineDaemon` - `aide_daemon.rs`, `settler.rs`, the orders of `InternalMarket.sol`

Extends `MatchEngine` with one caller, the runner, so that the runner's placement is that
module's own. A fill is known by its number; channels, batches and transactions carry numbers.

| Action | Code |
|---|---|
| `PlaceOrder`, `CancelOnChain` | `placeOrder`, `cancelOrder`; the event is queued in chain order (that is what `ChainStream` is about) |
| `TakePlaced`, `TakeCancelled` | the runner takes an event; a placed order that meets a pause flag is dropped |
| `Match`, `EndMatch` | the engine's steps; the fills returned are numbered |
| `CountFill`, `SendFill` | `pending_settlements` is raised, then the fill is sent; sending waits for room |
| `ReceiveFill`, `FlushInterval` | the settler's `select!`: a full batch or the timer flushes; without a signer the fills are only uncounted |
| `SendSucceeds`, `SendFails`, `GasPriceFails` | `send_settle_trade_with_retry`: a send reported as failed may have reached the node |
| `ReceiptArrives`, `ReceiptFails` | any receipt is a success, a reverted one too; an error is a failure although the transaction may still be included |
| `Include` | the node includes the oldest transaction: `settleTrade` executes or leaves the state alone |

Traders' balances, shares and the guardrail are not in this module: that a transaction may
fail for reasons other than its orders is the free choice of `Include`. Left out: keys, gas
bumps, back-off times, calldata, log figures.

`AnsweredSpec` is the daemon on a network where a send that reports an error has not reached the node
(`AnswersArrive`): the half of `SendFails` in which an answer was lost is missing, all else is there.

### `SettlementPath` - abstract specification

Placed orders, the fills made between them, what is reported of each fill's settlement, and how often it was executed: no
engine, channels, batches, attempts or transactions. `EngineDaemon!ImplementsPath` is its specification with the daemon's
own `market`, `made`, `resolved` and `applied`: the orders on chain, the fills that placements returned, and the history of their settlements.

### `SyncAudit` - `sync.rs`, `audit.rs`, `run_sync_audit_loop`

Three parties: the contract, whose balances trades, deposits, withdrawals and issues of shares move; the runner,
which applies each confirmed trade to four entries of two maps, one at a time (`ApplyFillShadow`, with
`step` as the place in the function); and the audit loop.

| Action | Code |
|---|---|
| `NewHead`, `NewBlock`, `TakeSettled` | the three places that store `last_block_height`; it may go back |
| `Tick` | a sample of the height that is a multiple of the interval and not the one audited last |
| `SyncTreasuryTaxRate` | reads the rate and sets it in the engine, or logs that it could not |
| `ReadBalance` | one `eth_call` per key of the shadow, at the latest block of that moment |
| `NextStage`, `Compare` | the order of the two maps; `reconcile` entry by entry, against the snapshot |
| `StateMatch`, `ReportDrift` | the verdict; a drift pauses the engine, then tells telemetry, then the runner |
| `RpcFails` | any failed call ends the audit without a verdict |

One company stands for all, since keys of different companies never meet. The keys an iteration visits are
fixed when it starts (a `DashMap` may or may not show keys inserted meanwhile; they would be compared with
zero or not at all). `traded`, `mirror`, `outside`, `quiet`, `synced` and a trade's `before` are history: which keys
something other than a trade has moved, and whether either side moved during the audit.

### `Sums`

`SumTo(g, n)` is `g[1] + ... + g[n]`, `SumOver(f, S)` the sum of `f` over a finite set, taken in the order of some
listing of the set. Both are recursive functions over `Nat`, not folds, so that induction over numbers reaches them.

### `SlidingWindow`, `Telemetry` - `telemetry.rs`, `forecaster.rs`, `flush_batch`

`SlidingWindow` is the sum over 24 hours that both files implement with the same text: samples, oldest first,
and a sum that saturates in both directions: `Leaving` is how many samples the loop of `evict_old` pops, and
`SaturatingSum` what a chain of `saturating_sub` or `saturating_add` comes to. `Telemetry` is the hub with the tasks around it. Each method of the
hub holds its lock throughout and is one step; between two methods time passes and other tasks run. The settler
flushes a batch: it reads the height once, records each fill by three calls (`RecordTradeSettled`,
`RecordVstkNotional`, `RecordTax`; the shares are recorded by two of them), and then settles the calls; the third
failure in a row tells telemetry, engine and runner in this order, while `CriticalDrift` of the audit tells engine,
telemetry and runner. `ToMetricsJson` and `ToSummaryJson` evict from different windows. Which height and which rate
the settler finds, and how a settlement ends, is left open here. `log` and `heights` are history.

### `AiToken`, `MarketLedger`, `TaskMarket`, `StakingPool`, `Contracts` - the Solidity contracts

`AiToken` is what they share: `AIToken._update` withholds a tax unless the sender is exempt (the deployment exempts
the two markets), `Treasury.collectTax` and `setTaxRate`, and the breaker of `Guardrail`, which pauses instead of
reverting. `MarketLedger`, `TaskMarket` and `StakingPool` have one action per function; a `require` or a failing
transfer is a guard, since a transaction that reverts changes nothing, and a blocked settlement, which does not
revert, is an action. `Contracts` is their interleaving: one transaction at a time, of any user, the settler or an admin.
Integers are not bounded: Solidity 0.8 reverts on overflow, and an underflow is a guard. `marketShort`, `taskShort`,
`stakeShort`, `rewarded`, `claimed`, `stakeRewards`, `rewardsClaimed`, `issues`, `settlements` and `resold` are history.
Left out: allowances (given), roles, orders of the market (they are in `EngineDaemon`; here a trade may be settled between any two
users), payout vaults, worker names, hashes, and minting after the start.

## 4. The runs

| Run | Question | Answer |
|---|---|---|
| `placement` | two threads place, match and cancel in one book, with pauses | types; no crossed book (`Uncrossed`); the fills of a call add up (`FillsAddUp`); `PriceTimePriority`; nobody beyond a limit (`WithinLimits`); implements the abstract market (`ImplementsMarket`); every call returns (`CallsReturn`) |
| `ingest` | two threads, two companies, every operation, `ingest_chain_order` too | `BooksConsistent`, `QueuesInTimeOrder`, `QuantityConserved` |
| `notional_wrap` | is a notional the quotient its comment states? | no: violated (finding 1) |
| `stream` | do events survive a growing and reorganising chain and two bounded channels? | `NothingLost` while nothing reorganises; `InBlockOrder`, `CancelsFollowPlacements` always; `ConfirmedIsDelivered` while the listener lives |
| `reorg` | is the buffer safe against reorganisations it waited for? | no: violated (finding 2) |
| `settlement` | from an order on chain to its settlement, with every RPC allowed to fail | `PendingCounts`, `FillsInOrder`, `ReplayNeedsLostFill`, `ChainCoversEngine`, `FillsResolved`, `NoOrderAfterFailures`, `PlacementsSucceed`; implements the settlement path (`ImplementsPath`) |
| `settlement_replay` | can a fill be executed twice? | yes: violated (finding 3) |
| `sync_audit` | can the shadow and the audit be trusted while everything moves? | `SharesMirrored` for shares that came by trades; `VerdictsTrue` for an audit with nothing moving; `PausedBeforeTold` always |
| `sync_payments` | does the shadow of `aitBalance` follow the trades? | no: violated (finding 4) |
| `telemetry` | do windows and health show what happened? | `WindowsExact` (no more than the truth once a sum has saturated); `VelocityExact` and `MergedUnlessBack` while heights do not go back; `HealthShowsPause` when no pause is half done |
| `telemetry_blocks` | has a height one entry in the block window? | no: violated (finding 5) |
| `contracts` | do the contracts hold what they owe? | `MarketBooks`, `EscrowBooks`, `StakeBooks` up to exactly the tax withheld; `DividendsCovered` until shares are traded after a profit; `RewardsCovered`; `PaidToMachines` |

### Bounds, and why they are enough

* `placement`, 3 orders (`MaxArrivals`) of one company chosen from `DeepRequests`: two prices, quantities of 1 to
  3, ids that repeat. Three orders give two makers on one level or on two levels and a taker
  that exhausts both, one and a part of the other, or neither, and a cancel or a duplicate
  between them. Two threads suffice for every race between a lock and a flag.
* `ingest`, 3 orders over two companies with the same ids in both: a caller that mixes up books or
  releases the wrong mutex shows. The two callers are symmetric and the run has only
  invariants, so `SYMMETRY` is sound.
* `notional_wrap`: the word size is 4, so that a product of small numbers wraps; in the other
  runs it is larger than any product.
* `stream`: 4 blocks (`MaxBlocks`), at most 2 logs in them (`MaxLogs`), one reorganisation of the depth of
  `Confirmations` = 1, channels of one place (both tasks block on them at once). Two logs give every
  order of placement, cancellation and settlement; a reorganisation can replace the company of an id.
  Order 1 is older than the first block, so that a cancellation without a placement happens.
* `settlement`: up to 4 orders, a fill channel of one place, batches of 2, 2 attempts, a pause after 2
  failures. The code's 8192, 256, 8 and 3 only move the points at which the same things happen: a placement
  with two fills fills the channel, a batch is flushed full or by the timer, a call is retried, the
  streak is broken or reaches its limit. `settlement_replay` has the same bounds.

* `sync_audit`: two users, one unit of each kind (`MaxAmount`), 2 events on chain (`MaxFlows`), 2 heights
  (`MaxHead`), an audit at every height (`Interval` 1; a longer one only removes audits), threshold 0. The contract starts with any
  balances. Two trades of a user with another and with himself, a deposit between two reads, and audits before, between and after
  the four updates of an entry all occur. `sync_payments` needs a notional of any size and one trade.
* `telemetry`: a window of one unit of time and two ticks (`MaxTime`), so that samples are exactly as old as the window and
  older; 3 fills of one kind, 3 heights, 2 places in the block window, so that it overflows and a height comes back; a
  word of 6, so that the volume of shares saturates and that of tokens does not. A pause needs three failures in a row: three fills suffice. `telemetry_blocks` needs
  no time and three fills.
* `contracts`: two users, two tasks, one amount, rates of 0, half and all, a fee limit of one half (so that the breaker trips
  at the highest rate), shares worth halves (`ONE` = 2, so that rounding loses), 7 transactions (`MaxTx`): a post,
  a funding, a revoked machine, a late approval and a cancellation fit, and so do a stake, a reward, a late stake and two claims.
  Users and tasks are interchangeable and their sets are declared symmetric; the properties quantify over them evenly.

`CHECK_DEADLOCK FALSE` is given where the system may stop: `stream` and `reorg` when the listener
has ended and the bounded chain is full, `settlement` (with its variants) when traders place no more, and `sync_audit`,
`telemetry` and `contracts` (with their variants) when the bounds on events, time or transactions are used up.
`MaxArrivals`, `MaxOrder`, `MaxBlocks`, `MaxLogs` and `MaxReorgs` are bounds of the model, the
capacities and limits are constants of the code.

### Fairness

* `MatchEngine`: weak fairness of `Acquire`, `MatchStep` and `Return` of each thread. A thread that
  can run is scheduled; nothing is assumed of the order in which waiters get a mutex (`CallsReturn`
  holds because the bounded number of placements leaves the mutex free in the end). Submitting,
  cancelling, pausing and resuming are never forced.
* `ChainStream`: weak fairness of the listener's `Poll` or `FetchBlock`, of the streamer and of the
  runner: tokio schedules tasks that are ready. The chain need not grow, and the listener may
  end at any time.
* `EngineDaemon`: weak fairness of the runner, of the settler and of `Include`. The settler's
  steps include both outcomes of each RPC, so what is assumed is that a call ends, not that it succeeds;
  for `get_receipt`, which has no time limit in the code, that is a real assumption, listed as a hazard.
  `SettlementPath` asks only that a fill is done with in the end, weak fairness of `Resolve \/ Skip`, and the daemon's
  fairness gives it.

* `SyncAudit`, `Telemetry` and `Contracts` state no fairness: an audit need not come (its height may be skipped), and nobody must
  send a transaction. Their properties are about safety.

### What the violations show

1. `mul_div_ray` multiplies before it divides and the product wraps: the notional of a fill is the
   remainder's quotient, not `vSTK * price_ray / 1e18`.
2. `BlockBuffer` delays an event by `confirmations` blocks, but a height is read once, at the tip, and
   nothing takes a buffered event back: after a reorganisation no deeper than the delay, the runner gets an
   order that the chain does not have.
3. The `settlementId` is emitted and never checked. A send whose answer is lost is retried, and
   both transactions may execute. `ReplayNeedsLostFill` says why this is rare: a fill normally exhausts one of
   its orders on chain, so a replay needs an earlier fill of the same order to be lost.
   And the lost answer of a send is the only way: where each answer arrives there is no replay, however many
   attempts fail and receipts are lost (`NoReplayWhenAnswered`).

4. `apply_fill_shadow` adds the price to the seller's shadow `aitBalance`; `settleTrade` pays the seller by a transfer of the token and
   leaves that balance alone. One confirmed trade is enough: the next audit reports drift and stops matching for good.
5. The block window merges a sample only with the entry at its back. The height it is given goes back when the
   runner stores the height of a confirmed trade, and a height then has two entries.
   Without a height that goes back none has two (`MergedUnlessBack`).

Read from the code and not the subject of a run: with `from_block` set the block itself is
skipped; `pending_settlements` never comes back from a failure (`PendingCounts` states it exactly);
an audit during which balances move may report a drift that is none, or miss one; each fill's shares are recorded
twice (`RecordTradeSettled`, `RecordVstkNotional`), and fills are recorded before they are settled, whatever comes of it; `depositAit`,
`fundTask` and `stake` credit what was asked for, and the contract is short by the tax (`MarketBooks`, `EscrowBooks` and `StakeBooks` say by how much exactly);
after a resale of shares, claims on dividends no longer add up to the profits.

## 5. Proofs

A module `X_proofs` holds the theorems about module `X`; `OrderBook_proofs` and `Sums_proofs` hold only lemmas, about
the book's operators and about sums. The theorems hold for all values of the constants under the
assumptions that the modules name: `ArithmeticAssumption` (the unit and the modulus are positive),
`RequestsAssumption` (an order has a positive price and quantity, as `placeOrder` requires), `CallersAssumption`
(`NoCaller` is not a caller), `StreamAssumption` and `DaemonAssumption` (capacities and limits are positive, the runner is the only caller), `AuditAssumption`, `WindowAssumption`, `TelemetryAssumption`
(amounts fit in a `U256`), `TokenAssumption`, `AccountsAssumption`, `LedgerAssumption`, `TaskAssumption`, `StakeAssumption`,
`ContractsAssumption` (rates are at most 10000, a user is not a contract, there are finitely many users and tasks), and
`BoundAssumption` (bounds are numbers).

| Module | Theorem | States |
|---|---|---|
| `MatchEngine_proofs` | `TypeCorrect` | `Spec => []TypeOK` |
| | `BooksStayConsistent` | `Spec => []BooksConsistent` |
| | `QueuesStayInTimeOrder` | `Spec => []QueuesInTimeOrder` |
| | `Exclusive` | `Spec => []MutualExclusion` |
| | `PriceTimePriorityHolds` | `Spec => PriceTimePriority` |
| | `NeverCrossed` | `PlacementSpec => []Uncrossed` |
| | `QuantityIsConserved` | `Spec => []QuantityConserved` |
| | `FillsAlwaysAddUp` | `Spec => []FillsAddUp` |
| | `NotionalsAreQuotients` | `NotionalIsQuotient` always, if `NoneWraps` |
| | `FillsKeepLimits` | `WithinLimits`, if `NoneWraps` |
| | `RefinesMarket` | `Spec => Market!Safety`: the safety half of `ImplementsMarket` |
| `ChainStream_proofs` | `TypeCorrect` | `Spec => []TypeOK` |
| | `EventsKeepBlockOrder` | `Spec => []InBlockOrder` |
| | `CancelsComeAfterPlacements` | `Spec => []CancelsFollowPlacements` |
| | `NothingIsLost` | `Spec => []NothingLost` |
| `EngineDaemon_proofs` | `EngineHoldsInDaemon` | the engine's invariants hold under `DaemonSpec` |
| | `DaemonTypeCorrect` | `DaemonSpec => []DaemonTypeOK` |
| | `FillsStayInOrder` | `DaemonSpec => []FillsInOrder` |
| | `PendingIsCounted` | `DaemonSpec => []PendingCounts` |
| | `FailuresEndMatching` | `DaemonSpec => NoOrderAfterFailures` |
| | `OrdersAreFollowed` | `DaemonSpec => []CoverInv`, the invariant behind the next three |
| | `ChainCovers` | `DaemonSpec => []ChainCoversEngine` |
| | `ReplayNeedsLoss` | `DaemonSpec => []ReplayNeedsLostFill` |
| | `NoPlacementFails` | `DaemonSpec => []PlacementsSucceed` |
| | `OrdersNotOverfilled` | `DaemonSpec => []NotOverfilled`: over all its fills, no order is filled for more than was placed |
| | `SettlementsInTurn` | `DaemonSpec => []SentInTurn`: transactions go out and are executed in the order of the fills |
| | `RefinesPath` | `DaemonSpec => Path!Safety`: the safety half of `ImplementsPath` |
| | `NoReplayWhenAnswered` | `AnsweredSpec => []NoReplay` |
| `SyncAudit_proofs` | `TypeCorrect` | `Spec => []TypeOK` |
| | `SharesStayMirrored` | `Spec => []SharesMirrored` |
| | `QuietVerdictsAreTrue` | `Spec => []VerdictsTrue` |
| | `PauseComesFirst` | `Spec => []PausedBeforeTold` |
| `Telemetry_proofs` | `HubTypeCorrect` | `Spec => []TypeOK` |
| | `WindowsStayExact` | `Spec => []WindowsExact` |
| | `VelocityStaysExact` | `Spec => []VelocityExact` |
| | `OnlyBackSplits` | `Spec => []MergedUnlessBack` |
| | `HealthStaysTrue` | `Spec => []HealthShowsPause` |
| `Contracts_proofs` | `TypeCorrect` | `Spec => []TypeOK` |
| | `MarketKeepsBooks` | `Spec => []MarketBooks` |
| | `EscrowKeepsBooks` | `Spec => []EscrowBooks` |
| | `PoolKeepsBooks` | `Spec => []StakeBooks` |
| | `DividendsAreCovered` | `Spec => []DividendsCovered` |
| | `RewardsAreCovered` | `Spec => []RewardsCovered` |
| | `EscrowPaysMachines` | `Spec => PaidToMachines` |

**Sums.** Many of these properties are equations between sums. The library's induction theorems take an operator as
a parameter, which the provers cannot instantiate, and the folds of the community modules rest on recursion that they
cannot see through. So sums are recursive functions over `Nat`, and induction is on a *set* of numbers: `LeastElement`
follows from the well-foundedness of `<`, `SetInduction` (a set with 0 and with each successor contains `Nat`) from that. `Sums_proofs`
shows that the recursive function exists, and what happens to a sum when one term changes, when terms are
added, scaled or compared, and when the set grows or shrinks.

**The engine.** None of the invariants is inductive alone. A match step is safe only if the queue
head is a live order of that side and price (`BooksConsistent`), popping a head keeps time order
only if the queue is in it, appending keeps it only if every resting order's ticket is smaller than the new one, and all of it only
if nobody else changes the book between two turns (`MutualExclusion`). The strengthening `IInv`
is the conjunction of `TypeOK`, `SoundBooks` (each book is consistent and in time order),
`MutualExclusion`, `TicketsGiven` (every ticket on a book has been given out) and `TakerIsLatest` (the
order being matched came later than all that rest in its book). `Inductive` proves
`Spec => []IInv`, with one lemma per action; the lemmas of `OrderBook_proofs` say what insertion,
cancellation and a turn of the loop do to one book. `PriceTimePriorityHolds` then follows for each
step from `IInv`: the best level has the best price, and the head of a queue in time order is
its earliest. `Uncrossed` is inductive together with `IInv`: cancelling and matching only take
orders away, and `Return` lets a remainder rest only when `CanTrade` is false, that is, when no
opposite level crosses its price.

*Quantities.* `QuantityConserved` speaks of tickets, and a step changes an order on a book. `Accounted` ties them: an order that rests
or is being matched has the remainder that its ticket's account says (`RestingAccounted`, `TakersAccounted`), a ticket is in one place only
(`RestingOnce`, `RestingOrTaken`, `TakenOnce`), and a ticket that is nowhere has been accounted for in full (`NothingMissing`).
`FillsAddUp` needs in addition that a call begins without fills (`NoFillsBefore`).

*Notionals.* Finding 1 makes `NotionalIsQuotient` false in general. `NoneWraps` says that no request's own quantity times
price reaches the word size. Some requests satisfy it and some do not, and the contract does not enforce it; it is a hypothesis of the two
theorems, never an assumption of a module. A maker's price is that of the request it came with and its remainder only shrinks (`AllInherit`), so no
product that the engine forms is larger than those of the requests.

*Refinement.* Under the mapping of `ImplementsMarket`, `Submit`, `Refuse` and the pauses stutter, `Acquire` is the market's arrival,
a turn of the loop a trade with the one order that price-time priority allows, `Return` the end of matching;
`IngestChainOrder` posts and `IngestCancel` cancels, or both stutter. That the order which arrives is not empty is
an invariant of its own (`NothingEmptyWaits`).

**The stream.** `Ordered`: from the runner back to the chain, events come in the order of their blocks, and each is of a height read (`ReadOnce`).
Draining from the front therefore takes exactly what is confirmed. For cancellations, `MapFine` relates the
map of companies to what has passed: if the map has an order, the last event of that order is its placement, with
that company, so a cancellation that finds its company there follows the placement directly. For losses, `Faithful` holds while no block has been replaced: the head seen is one of
the chain, everything on the way is one of its logs, and every log of a height read is on its way or has passed.

**The daemon.** The runner's calls are the engine's steps, so the engine's invariants hold (`EngineInv`). `PipelineInv` says that the
numbers of the unfinished fills, from the calls back through batch and channel to the runner, are consecutive and that exactly those below
are resolved; `PendingCounts` and the streak follow the numbers. There are never more fills than orders, since each fill exhausts one
(`FillsExhaust`), which bounds the numbering. `FailuresPause` says that the flag is set before the streak can be broken, and no action clears it.

`CoverInv` follows each order. It comes from its event, waits, is matched once and rests at most once (`OrdersOnce`; `PlacementsSucceed` is a consequence).
What its fills took and what is left of it in the engine add up to its amount (`EngineBalanced`); so do, on chain, what was
executed and what is left (`ChainBalanced`). Every fill is the last of one of its orders (`LastOfAnOrder`). A cancelled order that is still in the engine has its cancellation on the way (`CancelsFollow`). Then:
without a replay, executed is at most filled, for each order, so the chain has at least what the engine has
(`ChainCovers`). And for a replay, take the order that the fill exhausts: if all its other fills had been executed too, a second execution would
exceed its amount on chain (`ReplayNeedsLoss`).

*The path.* `EngineBalanced` speaks of the orders that are in play; `NotOverfilled` extends it to those that have left the book, of which no
more fills are made. `SentInTurn` orders the mempool: fills are done with one after the other (`Done` of them, `WhatIsDone`), only the next one is ever sent, and
what is executed comes from the front. Hence transactions wait in the order of their fills, none is of a fill beyond the next one
or of one that is confirmed or skipped (`Retriable`), and nothing executed is later than one that waits. With these, `RefinesPath`
goes action by action: `PlaceOrder` and `CancelOnChain` place and cancel, `EndMatch` makes the fills that the call returns (or
stutters), `ReceiptArrives` and the failures that end a call resolve, a flush without a signer skips, `Include` executes or
stutters, and everything else, every hand-over from one queue to the next and every attempt that is followed by another, stutters.

*Replays.* A resend is the only source of a second execution. `SentOnce` strengthens the order of the mempool to a strict one: where answers
arrive, a call that is sent again has left nothing behind, and one that waits for its receipt is never sent again, so each fill is in the mempool at most
once and nowhere once it has been executed.

**The shadow.** `SharesMirrored` says nothing while a trade is on its way, and so is far from inductive.
`LedgerInv` describes what happens on the way. `Chained`: each trade in the channel starts from the shares that its
predecessor left, and the last one leaves those of the chain. `Following`: what the shadow has reached, entry by entry of the trade in hand,
lies between the shares before and after that trade. `Enough`: whoever got all shares by trades had enough of them at each,
so that the saturating subtraction subtracts exactly. Together with `ChainIsTraded` and `ShadowIsMirror` it gives the equation once
the channel is empty. Self-trades are the case that needs the order of the two updates of one key.

*The verdict.* `VerdictInv` follows one audit: as long as nothing has moved, every balance read so far is still that of the
chain and every key was or will be read (`ReadRight`), and `drifted` is exactly what the keys compared so far show (`ComparedRight`).
Any step of the chain or of the runner clears `quiet`, which makes all of it vacuous.

**Telemetry.** `WindowInv` compares a window with its log: it holds a suffix, what was dropped has expired, and the sum is that of the
suffix, or less if it has saturated once. The latter is why `WindowsExact` gives equality only while all amounts fit:
after a saturated addition, subtracting what leaves loses more than was there. The log is in time order because time does not go back, and
so eviction from the front leaves nothing expired behind (`EvictKeeps`).

`Latest` compares the block window with its log while heights do not go back: entries ascend and end at the last height,
each has the whole flow of its height, and a height seen without an entry is below all of them, in a full window. Counting
then gives that the entries are the last `MaxBlocks` heights (`EntriesAreTop`), and their sum is at most
that of the log, so the saturating sum of the mean is exact (`EntriesAddUp`). `MergedInv` is the part of it that needs no bound on the
amounts: entries ascend strictly and the last is of the last height, saturated or not (`OnlyBackSplits`). `BlocksInv` has
"heights do not go back" as its hypothesis, since finding 5 shows what happens otherwise.

*The pauses.* In `SyncAudit` the engine is paused before the first report and no action resumes it. In `Telemetry`
two tasks pause in opposite orders; `PauseInv` says for each disagreement between reason, engine and runner which task is in the
middle of a pause and will remove it (`SomebodyFinishes`).

**The contracts.** `IInv` is the conjunction of `MarketFine`, `PoolFine` and `EscrowFine`: types (with the totals as sums over users) and
books. The books change by one user's or task's term in each transaction, and a transfer moves an amount less a fee, which is
what is short (`TransferFacts`). `DividendBooks` and `RewardBooks` are the accumulators' invariants in units of `1/ONE`: what was
paid and what all shares would be due exceeds the credits and the debts by at most one unit per rounding; rounding of the accumulator itself
only loses. The properties follow by dividing.

*Whom the escrow pays.* A step that lowers the escrow's balance must be `ApproveTask` or `CancelTask`: for all other actions of the three
contracts `EscrowKept` is proved from what a transfer between two other accounts changes. For those
two, the only user whose balance grows is the one the task names.

**Only model-checked:** liveness, which this prover does not do: `CallsReturn`, `ConfirmedIsDelivered`, `FillsResolved`, and the fairness in
`ImplementsMarket` and `ImplementsPath`. Every other property of a passing run is the statement of a theorem above
(`WithinLimits` under `NoneWraps`, which holds in the run that checks it: its word is larger than any product). The violations of
section 4 are counterexamples of TLC.

## 6. Not modelled, and why

* The rest of the forecaster (a threshold warning and an estimate in floating point that only reach the log), the notifier, TEE and
  chaos hooks (I/O without state), the HTTP server, the poll of the guardrail's flag (shown on the dashboard, read by nothing).
* The local simulation branch of the streamer, decoding of logs, keys, gas and back-off times.
* `DualPoolVault`, `AiPoolManager`: they receive what the modelled contracts pay out; their gate
  compares figures that an owner enters. Salaries and minting in `Treasury`, and the bounds and cool-down of
  `AI_Economist_Controller`: roles decide them, and here the rate may change at any time to any value, which covers them.
* `AIBank`, registration of companies, payout vaults, `commitZkProof`: records that no other operation reads, or one more account.
* Circuits (hashes over bytes), scripts and deployment (one-shot; what they wire is an assumption of `AiToken`), mocks and the CREATE2 factory.
