----------------------------- MODULE MarketLedger -----------------------------
(***************************************************************************)
(* The money and the shares of contracts/InternalMarket.sol: balances that  *)
(* users deposit, shares of one company, and profit that is shared out      *)
(* through an accumulator.  Orders are left out (EngineDaemon has them): a  *)
(* trade may be settled between any two users.                              *)
(***************************************************************************)
EXTENDS AiToken

CONSTANT MarketAmounts  \* amounts of tokens and of shares

ASSUME LedgerAssumption == MarketAmounts \subseteq Nat \ {0}

VARIABLES
  aitBalance, vstkBalance, totalVstk, accAitPerShare, rewardDebt,
  rewarded,     \* history: profit credited to the dividend pool,
  claimed,      \* dividends paid,
  marketShort,  \* tokens withheld on their way to the market,
  issues,       \* issues of shares,
  resold        \* and whether shares were traded after a profit

moneyVars == <<aitBalance, rewarded, claimed, marketShort>>
shareVars == <<vstkBalance, totalVstk, accAitPerShare, rewardDebt, issues, resold>>
marketVars == <<moneyVars, shareVars>>

LedgerInit ==
  /\ aitBalance = [u \in Users |-> 0]
  /\ vstkBalance = [u \in Users |-> 0]
  /\ totalVstk = 0
  /\ accAitPerShare = 0
  /\ rewardDebt = [u \in Users |-> 0]
  /\ rewarded = 0
  /\ claimed = 0
  /\ marketShort = 0
  /\ issues = 0
  /\ resold = FALSE

\* What shares are worth at the accumulator's present value.
Entitled(shares) == (shares * accAitPerShare) \div ONE

Mutant_IssuesWithPast ==
  \E u \in Users, amount \in MarketAmounts :
    /\ vstkBalance' = [vstkBalance EXCEPT ![u] = @ + amount]
    /\ totalVstk' = totalVstk + amount
    /\ issues' = issues + 1
    /\ UNCHANGED <<tokenVars, moneyVars, accAitPerShare, rewardDebt, resold>>
IssueShares ==
  \E u \in Users, amount \in MarketAmounts :
    /\ vstkBalance' = [vstkBalance EXCEPT ![u] = @ + amount]
    /\ totalVstk' = totalVstk + amount
    /\ issues' = issues + 1
    /\ rewardDebt' = [rewardDebt EXCEPT ![u] = @ + Entitled(amount)]
    /\ UNCHANGED <<tokenVars, moneyVars, accAitPerShare, resold>>

\* The amount asked for is credited.
DepositAit ==
  \E u \in Users, amount \in MarketAmounts :
    /\ balanceOf[u] >= amount
    /\ balanceOf' = Transfer(balanceOf, u, "internal_market", amount)
    /\ aitBalance' = [aitBalance EXCEPT ![u] = @ + amount]
    /\ marketShort' = marketShort + Withheld(u, amount)
    /\ UNCHANGED <<taxRateBps, paused, rewarded, claimed, shareVars>>

Mutant_Unchecked ==
  \E u \in Users, amount \in MarketAmounts :
    /\ balanceOf["internal_market"] >= amount
    /\ aitBalance' = [aitBalance EXCEPT ![u] = @ - amount]
    /\ balanceOf' = Transfer(balanceOf, "internal_market", u, amount)
    /\ UNCHANGED <<taxRateBps, paused, rewarded, claimed, marketShort, shareVars>>
WithdrawAit ==
  \E u \in Users, amount \in MarketAmounts :
    /\ aitBalance[u] >= amount
    /\ balanceOf["internal_market"] >= amount
    /\ aitBalance' = [aitBalance EXCEPT ![u] = @ - amount]
    /\ balanceOf' = Transfer(balanceOf, "internal_market", u, amount)
    /\ UNCHANGED <<taxRateBps, paused, rewarded, claimed, marketShort, shareVars>>

TripsBreaker(notional) ==
  /\ ~paused
  /\ FeeTooHigh(Fee(notional), notional)
  /\ paused' = TRUE
  /\ UNCHANGED <<balanceOf, taxRateBps, marketVars>>

\* The breaker is asked before the balances are looked at.
SettleBlocked == \E notional \in MarketAmounts : TripsBreaker(notional)

\* The seller is paid in tokens, net of the tax; rewardDebt stays where it is.
Mutant_PaysGross ==
  \E buyer, seller \in Users, q, n \in MarketAmounts :
    /\ ~paused /\ ~FeeTooHigh(Fee(n), n)
    /\ aitBalance[buyer] >= n /\ vstkBalance[seller] >= q
    /\ balanceOf["internal_market"] >= n + Fee(n)
    /\ aitBalance' = [aitBalance EXCEPT ![buyer] = @ - n]
    /\ balanceOf' = Transfer(CollectTax(balanceOf, "internal_market", n), "internal_market", seller, n)
    /\ vstkBalance' = Move(vstkBalance, seller, buyer, q)
    /\ resold' = (resold \/ accAitPerShare > 0)
    /\ UNCHANGED <<taxRateBps, paused, totalVstk, accAitPerShare, rewardDebt, issues,
                   rewarded, claimed, marketShort>>
SettleTrade ==
  \E buyer, seller \in Users, vstkAmount, aitNotional \in MarketAmounts :
    /\ ~paused
    /\ ~FeeTooHigh(Fee(aitNotional), aitNotional)
    /\ aitBalance[buyer] >= aitNotional
    /\ vstkBalance[seller] >= vstkAmount
    /\ balanceOf["internal_market"] >= aitNotional
    /\ aitBalance' = [aitBalance EXCEPT ![buyer] = @ - aitNotional]
    /\ balanceOf' = Transfer(CollectTax(balanceOf, "internal_market", aitNotional),
                             "internal_market", seller, aitNotional - Fee(aitNotional))
    /\ vstkBalance' = Move(vstkBalance, seller, buyer, vstkAmount)
    /\ resold' = (resold \/ accAitPerShare > 0)
    /\ UNCHANGED <<taxRateBps, paused, totalVstk, accAitPerShare, rewardDebt, issues,
                   rewarded, claimed, marketShort>>

\* With no shares the profit is kept for nobody.
DepositProfit ==
  \E from \in Users, gross \in MarketAmounts :
    LET net == gross - Fee(gross)
        taxed == CollectTax(balanceOf, from, gross)
    IN /\ ~paused
       /\ ~FeeTooHigh(Fee(gross), gross)
       /\ balanceOf[from] >= gross
       /\ balanceOf' = Transfer(taxed, from, "internal_market", net)
       /\ marketShort' = marketShort + Withheld(from, net)
       /\ rewarded' = rewarded + net
       /\ accAitPerShare' = IF totalVstk = 0 THEN accAitPerShare
                            ELSE accAitPerShare + (net * ONE) \div totalVstk
       /\ UNCHANGED <<taxRateBps, paused, aitBalance, claimed, vstkBalance, totalVstk,
                      rewardDebt, issues, resold>>

PendingDividend(u) == Entitled(vstkBalance[u]) - rewardDebt[u]

\* An underflow reverts.
ClaimDividend ==
  \E u \in Users :
    /\ PendingDividend(u) > 0
    /\ balanceOf["internal_market"] >= PendingDividend(u)
    /\ rewardDebt' = [rewardDebt EXCEPT ![u] = Entitled(vstkBalance[u])]
    /\ balanceOf' = Transfer(balanceOf, "internal_market", u, PendingDividend(u))
    /\ claimed' = claimed + PendingDividend(u)
    /\ UNCHANGED <<taxRateBps, paused, aitBalance, rewarded, marketShort, vstkBalance,
                   totalVstk, accAitPerShare, issues, resold>>

MarketNext ==
  \/ IssueShares \/ DepositAit \/ WithdrawAit \/ SettleBlocked \/ SettleTrade
  \/ DepositProfit \/ ClaimDividend
=============================================================================
