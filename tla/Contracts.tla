------------------------------ MODULE Contracts ------------------------------
(***************************************************************************)
(* The two markets and the staking pool over one taxed token and one        *)
(* breaker.  Each operation is a transaction; what matters is the order in  *)
(* which transactions of different users, the settler and the admins reach  *)
(* the chain.                                                               *)
(***************************************************************************)
EXTENDS MarketLedger, TaskMarket, StakingPool, Sums

CONSTANTS
  Funds,      \* tokens that each user starts with
  MaxTx       \* bound on transactions

ASSUME ContractsAssumption == {Funds, MaxTx} \subseteq Nat

VARIABLE txs  \* how many there have been

vars == <<tokenVars, marketVars, taskVars, stakeVars, txs>>

Init ==
  /\ TokenInit(Funds)
  /\ LedgerInit
  /\ TaskInit
  /\ StakeInit
  /\ txs = 0

Next ==
  /\ txs < MaxTx
  /\ txs' = txs + 1
  /\ \/ MarketNext /\ UNCHANGED <<taskVars, stakeVars>>
     \/ TaskNext /\ UNCHANGED <<marketVars, stakeVars>>
     \/ StakeNext /\ UNCHANGED <<marketVars, taskVars>>
     \/ /\ SetTaxRate \/ Unpause \/ WithdrawOperatingExpenses(MarketAmounts)
        /\ UNCHANGED <<marketVars, taskVars, stakeVars>>

Spec == Init /\ [][Next]_vars

Total(f) == SumOver(f, DOMAIN f)

\* What each task has in escrow.
Locked == [t \in TaskIds |-> IF t \in DOMAIN tasks THEN tasks[t].lockedAmount ELSE 0]

-----------------------------------------------------------------------------
TokenTypeOK ==
  /\ balanceOf \in [Accounts -> Nat]
  /\ taxRateBps \in Rates \cup {0}
  /\ paused \in BOOLEAN

LedgerTypeOK ==
  /\ aitBalance \in [Users -> Nat]
  /\ vstkBalance \in [Users -> Nat]
  /\ rewardDebt \in [Users -> Nat]
  /\ totalVstk = Total(vstkBalance)
  /\ {accAitPerShare, rewarded, claimed, marketShort, issues} \subseteq Nat
  /\ resold \in BOOLEAN

EscrowTypeOK ==
  /\ DOMAIN tasks \subseteq TaskIds
  /\ tasks \in [DOMAIN tasks -> Tasks]
  /\ verified \subseteq Users
  /\ taskShort \in Nat

PoolTypeOK ==
  /\ staked \in [Users -> Nat]
  /\ stakeDebt \in [Users -> Nat]
  /\ totalStaked = Total(staked)
  /\ {accRewardPerShare, stakeRewards, rewardsClaimed, stakeShort, settlements} \subseteq Nat

\* Type invariant of token, ledger, escrow and pool: what users have is never
\* negative and adds up to the totals that the contracts keep.
TypeOK == TokenTypeOK /\ LedgerTypeOK /\ EscrowTypeOK /\ PoolTypeOK /\ txs \in Nat

\* The market holds what it has credited and not paid out, less exactly the tax
\* that the token withheld from deposits and profits of senders who are not exempt;
\* no order of trades, claims and rate changes adds to the gap (InternalMarket.sol:142).
MarketBooks ==
  balanceOf["internal_market"] + marketShort = Total(aitBalance) + rewarded - claimed

\* The escrow holds what its tasks have locked, less exactly the tax withheld when
\* they were funded, and a task has something locked from its funding until it is
\* paid or cancelled (TaskMarket.sol:107, 159, 177).
EscrowBooks ==
  /\ balanceOf["task_market"] + taskShort = Total(Locked)
  /\ \A t \in DOMAIN tasks :
       tasks[t].lockedAmount = IF tasks[t].status \in {"Funded", "Assigned", "Submitted"}
                               THEN tasks[t].bounty ELSE 0

\* As long as no shares are traded after a profit, nobody's claim underflows, and
\* the claims of all holders exceed the profits by at most one unit for each issue
\* of shares, whose debt is rounded down: who buys in late has no part in earlier
\* profits (InternalMarket.sol:132, 257, 276).
DividendsCovered ==
  ~resold =>
    /\ \A u \in Users : PendingDividend(u) >= 0
    /\ claimed + Total([u \in Users |-> PendingDividend(u)]) <= rewarded + issues

\* The pool holds the stakes and the unclaimed rewards, less exactly the tax withheld
\* from stakes and rewards on their way in (StakingPool.sol:32, 42, 52).
StakeBooks ==
  balanceOf["staking_pool"] + stakeShort = totalStaked + stakeRewards - rewardsClaimed

\* Whoever stakes late has no part in earlier rewards, in whatever order users stake,
\* claim and leave: paid and pending rewards exceed those credited by at most one
\* unit for each time a debt was rounded down (StakingPool.sol:44, 58, 78).
RewardsCovered ==
  rewardsClaimed + Total([u \in Users |-> PendingReward(u)]) <= stakeRewards + settlements

\* Besides the treasury the escrow pays only a publisher, on cancelling, or a machine
\* that is verified at that moment, however its task was assigned (TaskMarket.sol:163).
PaidToMachines ==
  [][ balanceOf'["task_market"] < balanceOf["task_market"] =>
        \A u \in Users : balanceOf'[u] > balanceOf[u] =>
          \E t \in DOMAIN tasks :
            /\ tasks[t].lockedAmount > 0 /\ tasks'[t].lockedAmount = 0
            /\ \/ tasks'[t].status = "Cancelled" /\ u = tasks[t].publisher
               \/ tasks'[t].status = "Completed" /\ u = tasks[t].aiPoolRecipient
                                                 /\ u \in verified ]_vars
=============================================================================
