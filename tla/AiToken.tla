------------------------------- MODULE AiToken -------------------------------
(***************************************************************************)
(* What the market contracts share: contracts/AIToken.sol, whose transfers  *)
(* withhold a tax unless the sender is exempt, the tax of                   *)
(* contracts/Treasury.sol and the breaker of contracts/Guardrail.sol.       *)
(* The deployment exempts the two markets and nobody else                   *)
(* (scripts/deploy_final.ts:277).  Allowances are given; nothing is minted. *)
(***************************************************************************)
EXTENDS Integers, FiniteSets

CONSTANTS
  Users,
  Rates,                 \* tax rates that are set, in BPS
  maxFeeBpsOfNotional,
  outflowBpsThreshold,
  ONE                    \* 1e18

ASSUME TokenAssumption ==
  /\ IsFiniteSet(Users)  \* addresses are 20 bytes
  /\ Rates \subseteq 0..10000
  /\ {maxFeeBpsOfNotional, outflowBpsThreshold} \subseteq 0..10000
  /\ ONE \in Nat \ {0}

\* The contracts' own addresses are no user's.
ASSUME AccountsAssumption ==
  {"treasury", "internal_market", "task_market", "staking_pool"} \cap Users = {}

VARIABLES balanceOf, taxRateBps, paused

tokenVars == <<balanceOf, taxRateBps, paused>>

Accounts == Users \cup {"treasury", "internal_market", "task_market", "staking_pool"}
taxExemptSender == {"internal_market", "task_market"}

Fee(amount) == (amount * taxRateBps) \div 10000

Move(b, from, to, v) ==
  LET paid == [b EXCEPT ![from] = @ - v] IN [paid EXCEPT ![to] = @ + v]

\* AIToken._update: what is withheld when `from` sends `v`.
Withheld(from, v) == IF from \in taxExemptSender THEN 0 ELSE Fee(v)

Transfer(b, from, to, v) ==
  Move(Move(b, from, "treasury", Withheld(from, v)), from, to, v - Withheld(from, v))

\* The fee is itself a transfer of the payer.
CollectTax(b, payer, taxableBase) == Transfer(b, payer, "treasury", Fee(taxableBase))

TokenInit(funds) ==
  /\ balanceOf = [a \in Accounts |-> IF a \in Users THEN funds ELSE 0]
  /\ taxRateBps = 0
  /\ paused = FALSE

SetTaxRate ==
  /\ taxRateBps' \in Rates \ {taxRateBps}
  /\ UNCHANGED <<balanceOf, paused>>

Unpause ==
  /\ paused
  /\ paused' = FALSE
  /\ UNCHANGED <<balanceOf, taxRateBps>>

\* Of all recipients that may be whitelisted only users matter here.  A withdrawal
\* that is too large trips the breaker and ends; many small ones do not.
WithdrawOperatingExpenses(amounts) ==
  /\ ~paused
  /\ \E u \in Users, amount \in amounts :
       IF balanceOf["treasury"] > 0 /\ amount * 10000 > balanceOf["treasury"] * outflowBpsThreshold
       THEN paused' = TRUE /\ balanceOf' = balanceOf
       ELSE /\ balanceOf["treasury"] >= amount
            /\ balanceOf' = Transfer(balanceOf, "treasury", u, amount)
            /\ paused' = FALSE
  /\ UNCHANGED taxRateBps

\* evaluateSettleFee trips the breaker instead of reverting.
FeeTooHigh(fee, aitNotional) == fee * 10000 > aitNotional * maxFeeBpsOfNotional
=============================================================================
