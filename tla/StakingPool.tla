------------------------------ MODULE StakingPool ------------------------------
(***************************************************************************)
(* Stakes and rewards of contracts/StakingPool.sol.  The pool is not exempt *)
(* from the token's tax, and neither is the treasury that feeds it: what    *)
(* arrives is less than what is credited, and what is paid out arrives net. *)
(***************************************************************************)
EXTENDS AiToken

CONSTANT StakeAmounts

ASSUME StakeAssumption == StakeAmounts \subseteq Nat \ {0}

VARIABLES
  staked, totalStaked, accRewardPerShare,
  stakeDebt,       \* StakingPool.rewardDebt
  stakeRewards,    \* history: rewards credited,
  rewardsClaimed,  \* and paid,
  stakeShort,      \* tokens withheld on their way to the pool,
  settlements      \* and how often a debt was computed anew

stakeVars == <<staked, totalStaked, accRewardPerShare, stakeDebt, stakeRewards,
               rewardsClaimed, stakeShort, settlements>>

StakeInit ==
  /\ staked = [u \in Users |-> 0]
  /\ totalStaked = 0
  /\ accRewardPerShare = 0
  /\ stakeDebt = [u \in Users |-> 0]
  /\ stakeRewards = 0
  /\ rewardsClaimed = 0
  /\ stakeShort = 0
  /\ settlements = 0

Accumulated(stake) == (stake * accRewardPerShare) \div ONE

PendingReward(u) ==
  IF Accumulated(staked[u]) < stakeDebt[u] THEN 0
  ELSE Accumulated(staked[u]) - stakeDebt[u]

\* With nobody staking the reward is kept for nobody.
DepositReward ==
  \E from \in Users \cup {"treasury"}, amount \in StakeAmounts :
    /\ balanceOf[from] >= amount
    /\ balanceOf' = Transfer(balanceOf, from, "staking_pool", amount)
    /\ stakeShort' = stakeShort + Withheld(from, amount)
    /\ stakeRewards' = stakeRewards + amount
    /\ accRewardPerShare' = IF totalStaked = 0 THEN accRewardPerShare
                            ELSE accRewardPerShare + (amount * ONE) \div totalStaked
    /\ UNCHANGED <<taxRateBps, paused, staked, totalStaked, stakeDebt, rewardsClaimed,
                   settlements>>

\* _claim pays what is pending; the callers then set the debt for the new stake.
Claimed(u) == Transfer(balanceOf, "staking_pool", u, PendingReward(u))

SettledAt(u, stake) ==
  /\ balanceOf["staking_pool"] >= PendingReward(u)
  /\ rewardsClaimed' = rewardsClaimed + PendingReward(u)
  /\ staked' = [staked EXCEPT ![u] = stake]
  /\ stakeDebt' = [stakeDebt EXCEPT ![u] = Accumulated(stake)]
  /\ settlements' = settlements + 1
  /\ UNCHANGED <<taxRateBps, paused, accRewardPerShare, stakeRewards>>

Mutant_JoinsWithPast ==
  \E u \in Users, amount \in StakeAmounts :
    /\ balanceOf["staking_pool"] >= PendingReward(u)
    /\ Claimed(u)[u] >= amount
    /\ balanceOf' = Transfer(Claimed(u), u, "staking_pool", amount)
    /\ rewardsClaimed' = rewardsClaimed + PendingReward(u)
    /\ staked' = [staked EXCEPT ![u] = @ + amount]
    /\ stakeDebt' = [stakeDebt EXCEPT ![u] = Accumulated(staked[u])]
    /\ stakeShort' = stakeShort + Withheld(u, amount)
    /\ totalStaked' = totalStaked + amount
    /\ settlements' = settlements + 1
    /\ UNCHANGED <<taxRateBps, paused, accRewardPerShare, stakeRewards>>
\* The amount asked for is credited.
Stake ==
  \E u \in Users, amount \in StakeAmounts :
    /\ SettledAt(u, staked[u] + amount)
    /\ Claimed(u)[u] >= amount
    /\ balanceOf' = Transfer(Claimed(u), u, "staking_pool", amount)
    /\ stakeShort' = stakeShort + Withheld(u, amount)
    /\ totalStaked' = totalStaked + amount

Mutant_KeepsTotal ==
  \E u \in Users, amount \in StakeAmounts :
    /\ staked[u] >= amount
    /\ SettledAt(u, staked[u] - amount)
    /\ Claimed(u)["staking_pool"] >= amount
    /\ balanceOf' = Transfer(Claimed(u), "staking_pool", u, amount)
    /\ UNCHANGED <<stakeShort, totalStaked>>
\* An underflow of the total reverts.
Unstake ==
  \E u \in Users, amount \in StakeAmounts :
    /\ staked[u] >= amount
    /\ SettledAt(u, staked[u] - amount)
    /\ Claimed(u)["staking_pool"] >= amount
    /\ balanceOf' = Transfer(Claimed(u), "staking_pool", u, amount)
    /\ totalStaked >= amount
    /\ totalStaked' = totalStaked - amount
    /\ UNCHANGED stakeShort

Claim ==
  \E u \in Users :
    /\ SettledAt(u, staked[u])
    /\ balanceOf' = Claimed(u)
    /\ UNCHANGED <<stakeShort, totalStaked>>

StakeNext == DepositReward \/ Stake \/ Unstake \/ Claim
=============================================================================
