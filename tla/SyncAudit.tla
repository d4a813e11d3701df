------------------------------ MODULE SyncAudit ------------------------------
(***************************************************************************)
(* The shadow ledger and its audit: engine/src/sync.rs, engine/src/audit.rs *)
(* and run_sync_audit_loop of engine/src/bin/aide_daemon.rs, beside the     *)
(* balances of contracts/InternalMarket.sol that they are compared with.    *)
(*                                                                          *)
(* The match runner applies each TradeSettled to four entries, one after    *)
(* the other; the audit loop, on another thread, asks the chain for one     *)
(* balance at a time and then compares entry by entry, while trades,        *)
(* deposits and issues of shares go on.  One company stands for all: keys   *)
(* of different companies never meet.  Which keys an iteration over a map   *)
(* visits is fixed when it starts.  That trades reach the runner in the     *)
(* order of the chain is what ChainStream is about.                         *)
(*                                                                          *)
(* The contract may hold balances from before the daemon started; its shadow *)
(* is empty then.  traded, mirror, outside, quiet, synced and a trade's     *)
(* `before` are history.                                                    *)
(***************************************************************************)
EXTENDS Integers, Sequences

CONSTANTS
  Users,
  Rates,       \* tax rates of the Treasury
  MaxAmount,   \* bound on amounts
  MaxFlows,    \* bound on what happens on chain
  MaxHead,     \* bound on the chain's height
  Interval,    \* AIDE_SYNC_AUDIT_INTERVAL_BLOCKS
  Threshold    \* AIDE_SYNC_AUDIT_DRIFT_THRESHOLD_WEI

ASSUME AuditAssumption ==
  /\ Rates # {}
  /\ {MaxFlows, MaxHead, Threshold} \subseteq Nat
  /\ {MaxAmount, Interval} \subseteq Nat \ {0}

Keys == [user: Users, field: {"ait", "vstk"}]
Key(user, field) == [user |-> user, field |-> field]
Amounts == 1..MaxAmount

VARIABLES
  balance,    \* aitBalance and vstkBalance of the contract
  rate,       \* Treasury.taxRateBps
  flows,      \* how much has happened on chain
  settled,    \* TradeSettled events on their way to the runner
  head,       \* height that the streamer has announced
  last_block_height,
  shadow,     \* local_ait and local_vstk: a key appears when it is touched
  trade,      \* the event whose shadow entries are being updated
  step,       \* which of the four is next; 0 between events
  stage,      \* where run_sync_audit_loop is
  last_audited_block,
  todo,       \* keys still to be read, or compared
  snap,       \* ChainBalanceSnapshot
  drifted,    \* the report exceeds the threshold
  tax_rate_bps,
  matching_paused, match_paused, matching_pause, ledger_alignment_ok,
  traded,     \* shares that trades have moved to each user, on chain
  mirror,     \* and in the shadow, entry by entry, without saturation
  outside,    \* keys that something else than a trade has moved
  quiet,      \* neither side has moved since the audit began
  synced      \* the audit has read the tax rate

chainVars == <<balance, rate, flows, traded, outside>>
runnerVars == <<shadow, trade, step, mirror>>
heightVars == <<head, last_block_height>>
reportVars == <<matching_paused, match_paused, matching_pause, ledger_alignment_ok>>
auditVars == <<stage, last_audited_block, todo, snap, drifted, tax_rate_bps, synced>>
vars == <<chainVars, settled, runnerVars, heightVars, reportVars, auditVars, quiet>>

NoMap == [k \in {} |-> 0]
Put(f, k, v) == [x \in DOMAIN f \cup {k} |-> IF x = k THEN v ELSE f[x]]
ValueAt(f, k) == IF k \in DOMAIN f THEN f[k] ELSE 0

Trades == [buyer: Users, seller: Users, vstk: Amounts, ait: Amounts, block: Nat,
           before: [Users -> Int]]

Init ==
  /\ balance \in [Keys -> 0..MaxAmount]
  /\ rate \in Rates
  /\ flows = 0
  /\ settled = <<>>
  /\ head = 0
  /\ last_block_height = 0
  /\ shadow = NoMap
  /\ trade = [block |-> 0]
  /\ step = 0
  /\ stage = "asleep"
  /\ last_audited_block = 0
  /\ todo = {}
  /\ snap = NoMap
  /\ drifted = FALSE
  /\ tax_rate_bps = 0
  /\ matching_paused = FALSE
  /\ match_paused = FALSE
  /\ matching_pause = "none"
  /\ ledger_alignment_ok = TRUE
  /\ traded = [u \in Users |-> 0]
  /\ mirror = [u \in Users |-> 0]
  /\ outside = {k \in Keys : balance[k] > 0}
  /\ quiet = FALSE
  /\ synced = FALSE

-----------------------------------------------------------------------------
(* The contract. *)
OnChain ==
  /\ flows < MaxFlows
  /\ flows' = flows + 1
  /\ quiet' = FALSE
  /\ UNCHANGED <<runnerVars, heightVars, reportVars, auditVars>>

Outside(k, v) ==
  /\ balance' = [balance EXCEPT ![k] = v]
  /\ outside' = outside \cup {k}

DepositAit ==
  /\ OnChain
  /\ \E u \in Users, a \in Amounts : Outside(Key(u, "ait"), balance[Key(u, "ait")] + a)
  /\ UNCHANGED <<rate, settled, traded>>

WithdrawAit ==
  /\ OnChain
  /\ \E u \in Users, a \in Amounts :
       /\ balance[Key(u, "ait")] >= a
       /\ Outside(Key(u, "ait"), balance[Key(u, "ait")] - a)
  /\ UNCHANGED <<rate, settled, traded>>

IssueShares ==
  /\ OnChain
  /\ \E u \in Users, a \in Amounts : Outside(Key(u, "vstk"), balance[Key(u, "vstk")] + a)
  /\ UNCHANGED <<rate, settled, traded>>

SetTaxRate ==
  /\ OnChain
  /\ rate' \in Rates \ {rate}
  /\ UNCHANGED <<balance, settled, traded, outside>>

Gains(f, seller, buyer, a) ==
  LET given == [f EXCEPT ![seller] = @ - a] IN [given EXCEPT ![buyer] = @ + a]

\* The shares change hands inside the contract; the price leaves the buyer's
\* balance and goes to the seller as a transfer of the token.
SettleTrade ==
  /\ OnChain
  /\ \E buyer, seller \in Users, q, n \in Amounts :
       /\ balance[Key(buyer, "ait")] >= n
       /\ balance[Key(seller, "vstk")] >= q
       /\ balance' = Gains([balance EXCEPT ![Key(buyer, "ait")] = @ - n],
                           Key(seller, "vstk"), Key(buyer, "vstk"), q)
       /\ traded' = Gains(traded, seller, buyer, q)
       /\ settled' = Append(settled,
            [buyer |-> buyer, seller |-> seller, vstk |-> q, ait |-> n,
             block |-> head, before |-> traded])
  /\ UNCHANGED <<rate, outside>>

-----------------------------------------------------------------------------
(* Streamer and runner. *)
NewHead ==
  /\ head' \in (head + 1)..MaxHead
  /\ last_block_height' = head'
  /\ UNCHANGED <<chainVars, settled, runnerVars, reportVars, auditVars, quiet>>

\* The runner reads the announced heights later; how far it has come is left open.
NewBlock ==
  /\ step = 0
  /\ last_block_height' \in (1..head) \ {last_block_height}
  /\ UNCHANGED <<chainVars, settled, runnerVars, head, reportVars, auditVars, quiet>>

TakeSettled ==
  /\ step = 0
  /\ settled # <<>>
  /\ trade' = Head(settled)
  /\ settled' = Tail(settled)
  /\ step' = 1
  /\ last_block_height' = Head(settled).block
  /\ UNCHANGED <<chainVars, shadow, mirror, head, reportVars, auditVars, quiet>>

SaturatingSub(a, b) == IF a > b THEN a - b ELSE 0

\* apply_fill_shadow: an entry that is not there is inserted with zero.
Mutant_Swapped ==
  CASE step \in {1, 4} -> Key(trade.buyer, IF step = 1 THEN "vstk" ELSE "ait")
    [] step \in {2, 3} -> Key(trade.seller, IF step = 3 THEN "ait" ELSE "vstk")
EntryKey ==
  CASE step = 1 -> Key(trade.buyer, "ait")
    [] step = 2 -> Key(trade.seller, "ait")
    [] step = 3 -> Key(trade.seller, "vstk")
    [] step = 4 -> Key(trade.buyer, "vstk")

Mutant_Wraps(k) ==
  CASE step = 1 -> ValueAt(shadow, k) - trade.ait
    [] step = 2 -> ValueAt(shadow, k) + trade.ait
    [] step = 3 -> ValueAt(shadow, k) - trade.vstk
    [] step = 4 -> ValueAt(shadow, k) + trade.vstk
EntryValue(k) ==
  CASE step = 1 -> SaturatingSub(ValueAt(shadow, k), trade.ait)
    [] step = 2 -> ValueAt(shadow, k) + trade.ait
    [] step = 3 -> SaturatingSub(ValueAt(shadow, k), trade.vstk)
    [] step = 4 -> ValueAt(shadow, k) + trade.vstk

Reflected ==
  CASE step \in {1, 2} -> mirror
    [] step = 3 -> [mirror EXCEPT ![trade.seller] = @ - trade.vstk]
    [] step = 4 -> [mirror EXCEPT ![trade.buyer] = @ + trade.vstk]

ApplyFillShadow ==
  /\ step > 0
  /\ shadow' = Put(shadow, EntryKey, EntryValue(EntryKey))
  /\ mirror' = Reflected
  /\ step' = (step + 1) % 5
  /\ quiet' = FALSE
  /\ UNCHANGED <<chainVars, settled, trade, heightVars, reportVars, auditVars>>

-----------------------------------------------------------------------------
(* The audit loop. *)
ShadowKeys(field) == {k \in DOMAIN shadow : k.field = field}

othersOfAudit == <<chainVars, settled, runnerVars, heightVars>>

Tick ==
  /\ stage = "asleep"
  /\ last_block_height # 0
  /\ last_block_height % Interval = 0
  /\ last_block_height # last_audited_block
  /\ last_audited_block' = last_block_height
  /\ stage' = "tax"
  /\ quiet' = TRUE
  /\ UNCHANGED <<othersOfAudit, reportVars, todo, snap, drifted, tax_rate_bps, synced>>

\* A rate that cannot be read is only logged.
SyncTreasuryTaxRate ==
  /\ stage = "tax"
  /\ \/ tax_rate_bps' = rate /\ synced' = TRUE
     \/ tax_rate_bps' = tax_rate_bps /\ synced' = FALSE
  /\ stage' = "read ait"
  /\ todo' = ShadowKeys("ait")
  /\ snap' = NoMap
  /\ drifted' = FALSE
  /\ UNCHANGED <<othersOfAudit, reportVars, last_audited_block, quiet>>

\* The locals of run_sync_audit_once end with it.
AuditOver ==
  /\ stage' = "asleep"
  /\ todo' = {}
  /\ snap' = NoMap
  /\ drifted' = FALSE
  /\ synced' = FALSE
  /\ quiet' = FALSE

\* One eth_call at the latest block.
ReadBalance ==
  /\ stage \in {"read ait", "read vstk"}
  /\ \E k \in todo : /\ snap' = Put(snap, k, balance[k])
                     /\ todo' = todo \ {k}
  /\ UNCHANGED <<othersOfAudit, reportVars, stage, last_audited_block, drifted,
                 tax_rate_bps, synced, quiet>>

\* Any call that fails, getCollectedTaxBalance included, ends the audit.
RpcFails ==
  /\ stage \in {"read ait", "read vstk"}
  /\ AuditOver
  /\ UNCHANGED <<othersOfAudit, reportVars, last_audited_block, tax_rate_bps>>

Follows(s, t, keys) ==
  /\ stage = s
  /\ todo = {}
  /\ stage' = t
  /\ todo' = keys

NextStage ==
  /\ \/ Follows("read ait", "read vstk", ShadowKeys("vstk"))
     \/ Follows("read vstk", "compare ait", ShadowKeys("ait"))
     \/ Follows("compare ait", "compare vstk", ShadowKeys("vstk"))
     \/ Follows("compare vstk", "verdict", {})
  /\ UNCHANGED <<othersOfAudit, reportVars, last_audited_block, snap, drifted,
                 tax_rate_bps, synced, quiet>>

Mutant_OneSided(local, onchain) == local > onchain + Threshold
ExceedsThreshold(local, onchain) ==
  \/ local > onchain + Threshold
  \/ onchain > local + Threshold

\* A key that the snapshot lacks counts as zero on chain.
Compare ==
  /\ stage \in {"compare ait", "compare vstk"}
  /\ \E k \in todo :
       /\ drifted' = (drifted \/ ExceedsThreshold(shadow[k], ValueAt(snap, k)))
       /\ todo' = todo \ {k}
  /\ UNCHANGED <<othersOfAudit, reportVars, stage, last_audited_block, snap,
                 tax_rate_bps, synced, quiet>>

StateMatch ==
  /\ stage = "verdict"
  /\ ~drifted
  /\ ledger_alignment_ok' = TRUE
  /\ AuditOver
  /\ UNCHANGED <<othersOfAudit, matching_paused, match_paused, matching_pause,
                 last_audited_block, tax_rate_bps>>

restOfReport == <<othersOfAudit, last_audited_block, tax_rate_bps>>
auditLocals == <<todo, snap, drifted, synced, quiet>>

Mutant_ReportsFirst ==
  \/ /\ stage = "verdict" /\ drifted
     /\ ledger_alignment_ok' = FALSE
     /\ stage' = "alignment"
     /\ UNCHANGED <<matching_paused, match_paused, matching_pause, auditLocals>>
  \/ /\ stage = "alignment"
     /\ matching_pause' = "Drift"
     /\ stage' = "reason"
     /\ UNCHANGED <<matching_paused, match_paused, ledger_alignment_ok, auditLocals>>
  \/ /\ stage = "reason"
     /\ matching_paused' = TRUE
     /\ match_paused' = TRUE
     /\ AuditOver
     /\ UNCHANGED <<matching_pause, ledger_alignment_ok>>

\* CRITICAL_DRIFT: the engine is paused, telemetry is told, the runner is told.
ReportDrift ==
  \/ /\ stage = "verdict" /\ drifted
     /\ matching_paused' = TRUE
     /\ stage' = "alignment"
     /\ UNCHANGED <<match_paused, matching_pause, ledger_alignment_ok, auditLocals>>
  \/ /\ stage = "alignment"
     /\ ledger_alignment_ok' = FALSE
     /\ stage' = "reason"
     /\ UNCHANGED <<matching_paused, match_paused, matching_pause, auditLocals>>
  \/ /\ stage = "reason"
     /\ matching_pause' = "Drift"
     /\ match_paused' = TRUE
     /\ AuditOver
     /\ UNCHANGED <<matching_paused, ledger_alignment_ok>>

CriticalDrift == ReportDrift /\ UNCHANGED restOfReport

-----------------------------------------------------------------------------
Flow == DepositAit \/ WithdrawAit \/ IssueShares \/ SetTaxRate \/ SettleTrade
Runner == NewBlock \/ TakeSettled \/ ApplyFillShadow
Audit ==
  \/ SyncTreasuryTaxRate \/ ReadBalance \/ RpcFails \/ NextStage
  \/ Compare \/ StateMatch \/ CriticalDrift

Next == Flow \/ NewHead \/ Runner \/ Tick \/ Audit

Spec == Init /\ [][Next]_vars

-----------------------------------------------------------------------------
ChainTyped ==
  /\ balance \in [Keys -> Nat]
  /\ rate \in Rates
  /\ flows \in 0..MaxFlows
  /\ settled \in Seq(Trades)
  /\ traded \in [Users -> Int]
  /\ outside \subseteq Keys

RunnerTyped ==
  /\ DOMAIN shadow \subseteq Keys
  /\ shadow \in [DOMAIN shadow -> Nat]
  /\ step \in 0..4
  /\ step > 0 => trade \in Trades
  /\ mirror \in [Users -> Int]
  /\ head \in Nat /\ last_block_height \in Nat

AuditTyped ==
  /\ stage \in {"asleep", "tax", "read ait", "read vstk", "compare ait",
                "compare vstk", "verdict", "alignment", "reason"}
  /\ last_audited_block \in Nat
  /\ todo \subseteq DOMAIN shadow
  /\ DOMAIN snap \subseteq DOMAIN shadow
  /\ snap \in [DOMAIN snap -> Nat]
  /\ tax_rate_bps \in Rates \cup {0}
  /\ {drifted, quiet, synced} \subseteq BOOLEAN
  /\ {matching_paused, match_paused, ledger_alignment_ok} \subseteq BOOLEAN
  /\ matching_pause \in {"none", "Drift"}

\* Type invariant of ledger, runner and audit.
TypeOK == ChainTyped /\ RunnerTyped /\ AuditTyped

Mirrored(k) == settled = <<>> /\ step = 0 => ValueAt(shadow, k) = balance[k]

\* Whoever got all shares in trades has them in the shadow too: once the trades
\* on their way are applied, the shadow holds the user's balance of the chain,
\* although entries are updated one by one and saturate at zero, and although
\* users trade with themselves (sync.rs:69).
SharesMirrored ==
  \A u \in Users : Key(u, "vstk") \notin outside => Mirrored(Key(u, "vstk"))

\* The verdict of an audit during which neither side moved is the truth about
\* all keys of the shadow, whatever came between the reads of its predecessors,
\* and the engine then has the Treasury's rate if it could be read (audit.rs:157).
VerdictsTrue ==
  stage = "verdict" /\ quiet =>
    /\ drifted <=> \E k \in DOMAIN shadow : \/ shadow[k] > balance[k] + Threshold
                                            \/ balance[k] > shadow[k] + Threshold
    /\ synced => tax_rate_bps = rate

\* Nobody is told of a drift before the engine is paused, and whoever is told
\* stays right: no later audit takes the pause back (aide_daemon.rs:321).
PausedBeforeTold ==
  ~ledger_alignment_ok \/ matching_pause = "Drift" \/ match_paused => matching_paused

\* AIDE_MAINNET_OPERATIONS.md:87 and TECHNICAL_ARCH_MAP.md:35 have the shadow agree
\* with aitBalance when it is fed by the confirmed TradeSettled alone: so it does
\* for a user whose aitBalance nothing but trades has moved.
PaymentsMirrored ==
  \A u \in Users : Key(u, "ait") \notin outside => Mirrored(Key(u, "ait"))
=============================================================================
