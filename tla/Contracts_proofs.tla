---------------------------- MODULE Contracts_proofs ----------------------------
(***************************************************************************)
(* Proofs about Contracts, for any users, amounts, bounties, rates and      *)
(* number of transactions: types, the books of market, escrow and pool,     *)
(* what dividends and rewards can come to, and to whom the escrow pays.     *)
(***************************************************************************)
EXTENDS Contracts, Sums_proofs

-----------------------------------------------------------------------------
(* The token. *)

\* The parts of the assumption on users, rates and unit.
LEMMA UsersFinite == IsFiniteSet(Users)
  BY TokenAssumption

LEMMA RatesBounded == Rates \subseteq 0..10000
  BY TokenAssumption, SMTT(30)

LEMMA UnitPositive == ONE \in Nat \ {0}
  BY TokenAssumption

\* The contracts are accounts of their own.
LEMMA AccountFacts ==
  /\ Users \subseteq Accounts
  /\ {"treasury", "internal_market", "task_market", "staking_pool"} \subseteq Accounts
  /\ \A u \in Users : u \notin {"treasury", "internal_market", "task_market", "staking_pool"}
  BY AccountsAssumption DEF Accounts

\* No fee exceeds what it is charged on.
LEMMA FeeBounds ==
  ASSUME TokenTypeOK, NEW n \in Nat
  PROVE  Fee(n) \in Nat /\ Fee(n) <= n
<1>1. taxRateBps \in 0..10000
  BY RatesBounded DEF TokenTypeOK
<1>2. n * taxRateBps \in Nat /\ n * taxRateBps <= 10000 * n
  <2>1. n * taxRateBps \in Nat /\ n * taxRateBps <= n * 10000
    BY <1>1, ProductMono
  <2> QED
    BY <2>1
<1> DEFINE p == n * taxRateBps
<1> HIDE DEF p
<1>3. p \in Nat /\ p <= 10000 * n
  BY <1>2 DEF p
<1>4. p \div 10000 \in Nat /\ p \div 10000 <= n
  BY <1>3
<1> QED
  BY <1>4 DEF Fee, p

LEMMA WithheldBounds ==
  ASSUME TokenTypeOK, NEW n \in Nat, NEW from
  PROVE  /\ Withheld(from, n) \in Nat /\ Withheld(from, n) <= n
         /\ from \in {"internal_market", "task_market"} => Withheld(from, n) = 0
  BY FeeBounds DEF Withheld, taxExemptSender

\* A transfer that is covered leaves no balance negative; it costs the sender the
\* amount, and gives the recipient what is not withheld.
LEMMA TransferEffect ==
  ASSUME TokenTypeOK, NEW b \in [Accounts -> Nat], NEW from \in Accounts, NEW to \in Accounts,
         NEW v \in Nat, v <= b[from]
  PROVE  /\ Transfer(b, from, to, v) \in [Accounts -> Nat]
         /\ \A x \in Accounts \ {"treasury"} :
              Transfer(b, from, to, v)[x] = b[x] - (IF x = from THEN v ELSE 0)
                                            + (IF x = to THEN v - Withheld(from, v) ELSE 0)
<1> DEFINE w == Withheld(from, v)
           c == Move(b, from, "treasury", w)
<1>1. w \in Nat /\ w <= v /\ "treasury" \in Accounts
  BY WithheldBounds, AccountFacts
<1> HIDE DEF w
<1>2. /\ c \in [Accounts -> Nat]
      /\ \A x \in Accounts \ {"treasury"} : c[x] = b[x] - (IF x = from THEN w ELSE 0)
      /\ v - w <= c[from]
  <2> DEFINE paid == [b EXCEPT ![from] = @ - w]
  <2>1. b[from] \in Nat /\ b[from] - w \in Nat /\ v - w <= b[from] - w
    BY <1>1
  <2>2. paid \in [Accounts -> Nat] /\ \A x \in Accounts : paid[x] = b[x] - (IF x = from THEN w ELSE 0)
    BY <1>1, <2>1
  <2> HIDE DEF paid
  <2>3. c = [paid EXCEPT !["treasury"] = @ + w]
    BY DEF Move, paid
  <2>4. /\ c \in [Accounts -> Nat]
        /\ \A x \in Accounts : c[x] = paid[x] + (IF x = "treasury" THEN w ELSE 0)
    BY <1>1, <2>2, <2>3
  <2>5. v - w <= c[from]
    BY <1>1, <2>1, <2>2, <2>4
  <2> QED
    BY <1>1, <2>2, <2>4, <2>5
<1> HIDE DEF c
<1> DEFINE d == Move(c, from, to, v - w)
<1>3. /\ d \in [Accounts -> Nat]
      /\ \A x \in Accounts : d[x] = c[x] - (IF x = from THEN v - w ELSE 0)
                                    + (IF x = to THEN v - w ELSE 0)
  <2> DEFINE paid == [c EXCEPT ![from] = @ - (v - w)]
  <2>1. c[from] \in Nat /\ c[from] - (v - w) \in Nat /\ v - w \in Nat
    BY <1>1, <1>2
  <2>2. paid \in [Accounts -> Nat]
        /\ \A x \in Accounts : paid[x] = c[x] - (IF x = from THEN v - w ELSE 0)
    BY <1>2, <2>1
  <2> HIDE DEF paid
  <2>3. d = [paid EXCEPT ![to] = @ + (v - w)]
    BY DEF Move, paid
  <2> HIDE DEF d
  <2>4. /\ d \in [Accounts -> Nat]
        /\ \A x \in Accounts : d[x] = paid[x] + (IF x = to THEN v - w ELSE 0)
    BY <2>1, <2>2, <2>3
  <2> QED
    BY <1>2, <2>1, <2>2, <2>4
<1> HIDE DEF d
<1>4. Transfer(b, from, to, v) = d
  BY DEF Transfer, c, d, w
<1>5. \A x \in Accounts \ {"treasury"} :
        d[x] = b[x] - (IF x = from THEN v ELSE 0) + (IF x = to THEN v - w ELSE 0)
  BY <1>1, <1>2, <1>3
<1> QED
  BY <1>3, <1>4, <1>5 DEF w

\* A tax payment costs the payer the fee, and concerns nobody else but the treasury.
LEMMA CollectEffect ==
  ASSUME TokenTypeOK, NEW b \in [Accounts -> Nat], NEW payer \in Accounts, NEW n \in Nat,
         n <= b[payer]
  PROVE  /\ CollectTax(b, payer, n) \in [Accounts -> Nat]
         /\ \A x \in Accounts \ {"treasury"} :
              CollectTax(b, payer, n)[x] = b[x] - (IF x = payer THEN Fee(n) ELSE 0)
<1> DEFINE f == Fee(n)
           c == Transfer(b, payer, "treasury", f)
<1>1. f \in Nat /\ f <= b[payer] /\ "treasury" \in Accounts
  BY FeeBounds, AccountFacts
<1> HIDE DEF f
<1>2. /\ c \in [Accounts -> Nat]
      /\ \A x \in Accounts \ {"treasury"} :
           c[x] = b[x] - (IF x = payer THEN f ELSE 0)
                  + (IF x = "treasury" THEN f - Withheld(payer, f) ELSE 0)
  BY <1>1, TransferEffect
<1>3. CollectTax(b, payer, n) = c
  BY DEF CollectTax, f
<1> HIDE DEF c
<1>4. \A x \in Accounts \ {"treasury"} : c[x] = b[x] - (IF x = payer THEN f ELSE 0)
  BY <1>1, <1>2
<1> QED
  BY <1>2, <1>3, <1>4 DEF f

\* What a payment of n by `payer` leaves when first the fee goes to the treasury and
\* then the rest to `to`.
LEMMA PayNet ==
  ASSUME TokenTypeOK, NEW payer \in Accounts \ {"treasury"}, NEW to \in Accounts,
         NEW n \in Nat, n <= balanceOf[payer],
         balanceOf' = Transfer(CollectTax(balanceOf, payer, n), payer, to, n - Fee(n))
  PROVE  /\ balanceOf' \in [Accounts -> Nat]
         /\ n - Fee(n) \in Nat
         /\ \A x \in Accounts \ {"treasury"} :
              balanceOf'[x] = balanceOf[x] - (IF x = payer THEN n ELSE 0)
                 + (IF x = to THEN (n - Fee(n)) - Withheld(payer, n - Fee(n)) ELSE 0)
<1> DEFINE f == Fee(n)
           c == CollectTax(balanceOf, payer, n)
           w == Withheld(payer, n - f)
<1>1. balanceOf \in [Accounts -> Nat]
  BY DEF TokenTypeOK
<1>2. f \in Nat /\ f <= n /\ n - f \in Nat
  BY FeeBounds
<1>3. /\ c \in [Accounts -> Nat]
      /\ \A x \in Accounts \ {"treasury"} : c[x] = balanceOf[x] - (IF x = payer THEN f ELSE 0)
  BY <1>1, CollectEffect
<1>4. w \in Nat
  BY <1>2, WithheldBounds
<1> HIDE DEF c, f
<1>5. n - f <= c[payer]
  BY <1>1, <1>2, <1>3
<1> DEFINE d == Transfer(c, payer, to, n - f)
<1>6. /\ d \in [Accounts -> Nat]
      /\ \A x \in Accounts \ {"treasury"} :
           d[x] = c[x] - (IF x = payer THEN n - f ELSE 0) + (IF x = to THEN (n - f) - w ELSE 0)
  BY <1>2, <1>3, <1>5, TransferEffect
<1>7. balanceOf' = d
  BY DEF c, f
<1> HIDE DEF d, w
<1>8. \A x \in Accounts \ {"treasury"} :
        d[x] = balanceOf[x] - (IF x = payer THEN n ELSE 0) + (IF x = to THEN (n - f) - w ELSE 0)
  BY <1>1, <1>2, <1>3, <1>4, <1>6
<1> QED
  BY <1>2, <1>6, <1>7, <1>8 DEF f, w

\* A payment of v, when it is covered.
LEMMA PayGross ==
  ASSUME TokenTypeOK, NEW from \in Accounts, NEW to \in Accounts, NEW v \in Nat,
         v <= balanceOf[from], balanceOf' = Transfer(balanceOf, from, to, v)
  PROVE  /\ balanceOf' \in [Accounts -> Nat]
         /\ \A x \in Accounts \ {"treasury"} :
              balanceOf'[x] = balanceOf[x] - (IF x = from THEN v ELSE 0)
                              + (IF x = to THEN v - Withheld(from, v) ELSE 0)
<1>1. balanceOf \in [Accounts -> Nat]
  BY DEF TokenTypeOK
<1> QED
  BY <1>1, TransferEffect

-----------------------------------------------------------------------------
(* Totals. *)

LEMMA TotalType ==
  ASSUME NEW D, IsFiniteSet(D), NEW f \in [D -> Nat]
  PROVE  Total(f) \in Nat
<1> DEFINE z == [x \in D |-> 0]
<1>1. Total(f) \in Int
  BY SumOverType DEF Total
<1>2. SumOver(z, D) <= SumOver(f, D)
  BY SumOverMono
<1>3. SumOver(z, D) = 0
  BY SumOverZero
<1> QED
  BY <1>1, <1>2, <1>3 DEF Total

LEMMA TotalZero ==
  ASSUME NEW D, IsFiniteSet(D)
  PROVE  Total([x \in D |-> 0]) = 0
  BY SumOverZero DEF Total

LEMMA TotalChange ==
  ASSUME NEW D, IsFiniteSet(D), NEW f \in [D -> Nat], NEW y \in D, NEW n \in Nat
  PROVE  Total([f EXCEPT ![y] = n]) = Total(f) - f[y] + n
<1> DEFINE h == [f EXCEPT ![y] = n]
<1>1. /\ h \in [D -> Nat] /\ h[y] = n /\ \A x \in D : x # y => h[x] = f[x]
      /\ DOMAIN f = D
  OBVIOUS
<1> HIDE DEF h
<1>2. SumOver(h, D) = SumOver(f, D) - f[y] + h[y]
  BY <1>1, SumOverChange
<1> QED
  BY <1>1, <1>2 DEF Total, h

\* The same of a function on users, which changes by n at one of them.
LEMMA UserTotal ==
  ASSUME NEW f \in [Users -> Nat], NEW u \in Users, NEW n \in Int, f[u] + n >= 0
  PROVE  /\ [f EXCEPT ![u] = f[u] + n] \in [Users -> Nat]
         /\ Total([f EXCEPT ![u] = f[u] + n]) = Total(f) + n
         /\ Total([f EXCEPT ![u] = f[u] + n]) \in Nat
<1> DEFINE h == [f EXCEPT ![u] = f[u] + n]
<1>1. IsFiniteSet(Users)
  BY UsersFinite
<1>2. f[u] \in Nat /\ f[u] + n \in Nat
  OBVIOUS
<1>3. Total(f) \in Nat
  BY <1>1, TotalType
<1>4. Total([f EXCEPT ![u] = f[u] + n]) = Total(f) - f[u] + (f[u] + n)
  BY <1>1, <1>2, TotalChange
<1>5. h \in [Users -> Nat]
  BY <1>2
<1>6. Total(h) \in Nat
  BY <1>1, <1>5, TotalType
<1> QED
  BY <1>2, <1>3, <1>4, <1>5, <1>6

LEMMA TotalMove ==
  ASSUME NEW f \in [Users -> Nat], NEW a \in Users, NEW b \in Users, NEW v \in Nat, v <= f[a]
  PROVE  Move(f, a, b, v) \in [Users -> Nat] /\ Total(Move(f, a, b, v)) = Total(f)
<1> DEFINE g == [f EXCEPT ![a] = @ - v]
<1>0. IsFiniteSet(Users)
  BY UsersFinite
<1>t. Total(f) \in Nat
  BY <1>0, TotalType
<1>1. f[a] \in Nat /\ f[a] - v \in Nat /\ Total(f) \in Nat
  BY <1>t
<1>2. g \in [Users -> Nat] /\ g = [f EXCEPT ![a] = f[a] - v]
  BY <1>1
<1>3. Total(g) = Total(f) - v
  <2>1. Total([f EXCEPT ![a] = f[a] - v]) = Total(f) - f[a] + (f[a] - v)
    BY <1>0, <1>1, TotalChange
  <2> QED
    BY <1>1, <1>2, <2>1
<1> HIDE DEF g
<1>4. Move(f, a, b, v) = [g EXCEPT ![b] = g[b] + v]
  BY <1>2 DEF Move, g
<1>8. g \in [Users -> Nat]
  BY <1>2
<1>5. g[b] \in Nat /\ g[b] + v \in Nat
  BY <1>8
<1>6. Total([g EXCEPT ![b] = g[b] + v]) = Total(g) - g[b] + (g[b] + v)
  <2>1. \A n \in Nat : Total([g EXCEPT ![b] = n]) = Total(g) - g[b] + n
    BY <1>0, <1>8, TotalChange
  <2> QED
    BY <1>5, <2>1
<1>7. Total(Move(f, a, b, v)) = Total(f)
  BY <1>1, <1>3, <1>4, <1>5, <1>6
<1> QED
  BY <1>2, <1>4, <1>5, <1>7

-----------------------------------------------------------------------------
(* An accumulator `acc` gives each of `t` shares a part of what is shared out, in *)
(* units of 1/o; c is what was claimed, L what was shared out plus all debts.     *)

\* New shares add the debt e, rounded down.
LEMMA IssueArith ==
  ASSUME NEW o \in Nat, NEW c \in Nat, NEW t \in Nat, NEW acc \in Nat, NEW L \in Nat,
         NEW a \in Nat, NEW e \in Nat,
         o * c + t * acc <= o * L, a * acc < o * e + o
  PROVE  o * c + (t + a) * acc <= o * (L + 1 + e)
<1>1. /\ o * c \in Nat /\ t * acc \in Nat /\ o * L \in Nat /\ a * acc \in Nat /\ o * e \in Nat
      /\ (t + a) * acc = t * acc + a * acc
      /\ o * (L + 1 + e) = o * L + o + o * e
  OBVIOUS
<1> QED
  BY <1>1

\* Paying p cancels as much debt.
LEMMA ClaimArith ==
  ASSUME NEW o \in Nat, NEW c \in Nat, NEW t \in Nat, NEW acc \in Nat, NEW L \in Nat,
         NEW p \in Nat, o * c + t * acc <= o * L
  PROVE  o * (c + p) + t * acc <= o * (L + p)
<1>1. /\ o * c \in Nat /\ t * acc \in Nat /\ o * L \in Nat /\ o * p \in Nat
      /\ o * (c + p) = o * c + o * p /\ o * (L + p) = o * L + o * p
  OBVIOUS
<1> QED
  BY <1>1

\* Sharing out n gives the shares no more than n.
LEMMA GrowthArith ==
  ASSUME NEW o \in Nat, NEW c \in Nat, NEW t \in Nat, NEW acc \in Nat, NEW L \in Nat,
         NEW n \in Nat, o * c + t * acc <= o * L, NEW next,
         next = IF t = 0 THEN acc ELSE acc + (n * o) \div t
  PROVE  next \in Nat /\ acc <= next /\ o * c + t * next <= o * (L + n)
<1>1. o * (L + n) = o * L + o * n /\ o * n \in Nat /\ o * L \in Nat
  OBVIOUS
<1>2. CASE t = 0
  <2>1. t * next = 0 /\ t * acc = 0 /\ o * c \in Nat
    BY <1>2
  <2> QED
    BY <1>1, <1>2, <2>1
<1>3. CASE t # 0
  <2> DEFINE q == (n * o) \div t
  <2>1. n * o \in Nat /\ n * o = o * n
    OBVIOUS
  <2>2. q \in Nat /\ t * q <= o * n
    BY <1>3, <2>1, Quotient
  <2>3. next = acc + q
    BY <1>3
  <2> HIDE DEF q
  <2>4. t * (acc + q) = t * acc + t * q /\ t * acc \in Nat /\ t * q \in Nat /\ o * c \in Nat
    BY <2>2
  <2> QED
    BY <1>1, <2>2, <2>3, <2>4
<1> QED
  BY <1>2, <1>3

\* A holder of s shares with debt d is paid what they are worth beyond that, has s2
\* shares from now on, and the debt that these are worth, rounded down.
LEMMA SettleArith ==
  ASSUME NEW o \in Nat, NEW c \in Nat, NEW t \in Nat, NEW acc \in Nat, NEW L \in Nat,
         NEW s \in Nat, NEW d \in Nat, NEW w \in Nat, NEW s2 \in Nat, NEW e \in Nat,
         o * c + t * acc <= o * L, s <= t, o * w <= s * acc, s2 * acc < o * e + o
  PROVE  o * (c + (w - d)) + (t - s + s2) * acc <= o * ((L - d + e) + 1)
<1>1. /\ o * c \in Nat /\ t * acc \in Nat /\ o * L \in Nat /\ o * w \in Nat /\ s * acc \in Nat
      /\ s2 * acc \in Nat /\ o * e \in Nat /\ o * d \in Nat
  OBVIOUS
<1>2. o * (c + (w - d)) = o * c + o * w - o * d
  OBVIOUS
<1>3. (t - s + s2) * acc = t * acc - s * acc + s2 * acc
  OBVIOUS
<1>4. o * ((L - d + e) + 1) = o * L - o * d + o * e + o
  OBVIOUS
<1> QED
  BY <1>1, <1>2, <1>3, <1>4

-----------------------------------------------------------------------------
(* The market. *)

\* What was claimed and what the shares are worth now, in units of 1/ONE, is covered
\* by the profits, one unit for each issue, and the debts; until a profit there are
\* no debts, and as long as shares are not traded after one, nobody owes more than
\* his shares are worth.
DividendBooks ==
  /\ ONE * claimed + totalVstk * accAitPerShare
       <= ONE * (rewarded + issues + Total(rewardDebt))
  /\ accAitPerShare = 0 => \A u \in Users : rewardDebt[u] = 0
  /\ ~resold => \A u \in Users : rewardDebt[u] <= Entitled(vstkBalance[u])

MarketFine == TokenTypeOK /\ LedgerTypeOK /\ MarketBooks /\ DividendBooks

Kept(account) == balanceOf'[account] = balanceOf[account]

\* What the types say of numbers.
LEMMA LedgerFacts ==
  ASSUME LedgerTypeOK
  PROVE  /\ IsFiniteSet(Users) /\ ONE \in Nat \ {0}
         /\ MarketAmounts \subseteq Nat /\ 0 \notin MarketAmounts
         /\ aitBalance \in [Users -> Nat] /\ vstkBalance \in [Users -> Nat]
         /\ rewardDebt \in [Users -> Nat]
         /\ accAitPerShare \in Nat /\ rewarded \in Nat /\ claimed \in Nat /\ marketShort \in Nat
         /\ issues \in Nat /\ resold \in BOOLEAN
         /\ totalVstk = Total(vstkBalance) /\ totalVstk \in Nat
         /\ Total(aitBalance) \in Nat /\ Total(rewardDebt) \in Nat
<1>0. IsFiniteSet(Users) /\ ONE \in Nat \ {0}
  BY UsersFinite, UnitPositive
<1>1. MarketAmounts \subseteq Nat \ {0}
  BY LedgerAssumption
<1>2. /\ aitBalance \in [Users -> Nat] /\ vstkBalance \in [Users -> Nat]
      /\ rewardDebt \in [Users -> Nat] /\ totalVstk = Total(vstkBalance)
  BY DEF LedgerTypeOK
<1>3. Total(aitBalance) \in Nat
  BY <1>0, <1>2, TotalType
<1>4. Total(rewardDebt) \in Nat
  BY <1>0, <1>2, TotalType
<1>5. Total(vstkBalance) \in Nat
  BY <1>0, <1>2, TotalType
<1> QED
  BY <1>0, <1>1, <1>2, <1>3, <1>4, <1>5 DEF LedgerTypeOK

\* What shares are worth, rounded down.
LEMMA EntitledFacts ==
  ASSUME LedgerTypeOK, NEW s \in Nat
  PROVE  /\ s * accAitPerShare \in Nat /\ Entitled(s) \in Nat
         /\ ONE * Entitled(s) <= s * accAitPerShare
         /\ s * accAitPerShare < ONE * Entitled(s) + ONE
         /\ accAitPerShare = 0 => Entitled(s) = 0
<1>1. accAitPerShare \in Nat /\ ONE \in Nat \ {0}
  BY LedgerFacts
<1>2. s * accAitPerShare \in Nat /\ (accAitPerShare = 0 => s * accAitPerShare = 0)
  BY <1>1
<1>3. 0 \div ONE = 0
  BY <1>1
<1> QED
  BY <1>1, <1>2, <1>3, Quotient DEF Entitled

LEMMA IssueSharesStep ==
  ASSUME MarketFine, IssueShares
  PROVE  MarketFine' /\ Kept("task_market") /\ Kept("staking_pool")
<1>1. PICK u \in Users, a \in MarketAmounts :
        /\ vstkBalance' = [vstkBalance EXCEPT ![u] = @ + a]
        /\ totalVstk' = totalVstk + a /\ issues' = issues + 1
        /\ rewardDebt' = [rewardDebt EXCEPT ![u] = @ + Entitled(a)]
  BY DEF IssueShares
<1>2. /\ balanceOf' = balanceOf /\ taxRateBps' = taxRateBps /\ paused' = paused
      /\ aitBalance' = aitBalance /\ rewarded' = rewarded /\ claimed' = claimed
      /\ marketShort' = marketShort /\ accAitPerShare' = accAitPerShare /\ resold' = resold
  BY DEF IssueShares, tokenVars, moneyVars
<1> DEFINE e == Entitled(a)
<1>a. LedgerTypeOK /\ DividendBooks
  BY DEF MarketFine
<1>b. a \in Nat
  BY <1>a, LedgerFacts
<1>3. e \in Nat /\ a * accAitPerShare < ONE * e + ONE /\ (accAitPerShare = 0 => e = 0)
  BY <1>a, <1>b, EntitledFacts
<1>4. \A w \in Users : Entitled(vstkBalance[w])' = Entitled(vstkBalance'[w])
  BY <1>2 DEF Entitled
<1>5. Entitled(vstkBalance[u]) + e <= Entitled(vstkBalance[u] + a)
  <2>1. vstkBalance[u] \in Nat /\ accAitPerShare \in Nat /\ ONE \in Nat \ {0}
    BY <1>a, LedgerFacts
  <2> DEFINE v == vstkBalance[u]
  <2> HIDE DEF v
  <2>2. v * accAitPerShare \in Nat /\ a * accAitPerShare \in Nat
        /\ (v + a) * accAitPerShare = v * accAitPerShare + a * accAitPerShare
    BY <1>b, <2>1 DEF v
  <2>3. (v * accAitPerShare) \div ONE + (a * accAitPerShare) \div ONE
          <= (v * accAitPerShare + a * accAitPerShare) \div ONE
    BY <2>1, <2>2, QuotientAdd
  <2> QED
    BY <2>2, <2>3 DEF Entitled, v
<1> HIDE DEF e
<1>6. /\ vstkBalance' \in [Users -> Nat] /\ rewardDebt' \in [Users -> Nat]
      /\ vstkBalance' = [vstkBalance EXCEPT ![u] = vstkBalance[u] + a]
      /\ rewardDebt' = [rewardDebt EXCEPT ![u] = rewardDebt[u] + e]
      /\ vstkBalance[u] \in Nat /\ rewardDebt[u] \in Nat
      /\ vstkBalance[u] + a \in Nat /\ rewardDebt[u] + e \in Nat
  BY <1>a, <1>b, <1>1, <1>3, LedgerFacts DEF e
<1>7. Total(vstkBalance') = Total(vstkBalance) + a /\ Total(vstkBalance') \in Nat
  <2>1. vstkBalance \in [Users -> Nat] /\ a \in Int /\ vstkBalance[u] + a >= 0
    BY <1>a, <1>b, <1>6, LedgerFacts
  <2>2. vstkBalance' = [vstkBalance EXCEPT ![u] = vstkBalance[u] + a]
    BY <1>6
  <2> QED
    BY <2>1, <2>2, UserTotal
<1>8. Total(rewardDebt') = Total(rewardDebt) + e /\ Total(rewardDebt') \in Nat
  <2>1. rewardDebt \in [Users -> Nat] /\ e \in Int /\ rewardDebt[u] + e >= 0
    BY <1>a, <1>3, <1>6, LedgerFacts
  <2>2. rewardDebt' = [rewardDebt EXCEPT ![u] = rewardDebt[u] + e]
    BY <1>6
  <2> QED
    BY <2>1, <2>2, UserTotal
<1>9. LedgerTypeOK'
  <2>1. totalVstk' = Total(vstkBalance') /\ issues' \in Nat
    BY <1>a, <1>1, <1>7, LedgerFacts
  <2> QED
    BY <1>a, <1>2, <1>6, <2>1, LedgerFacts DEF LedgerTypeOK
<1>10. DividendBooks'
  <2>1. ONE * claimed + (totalVstk + a) * accAitPerShare
          <= ONE * (rewarded + issues + Total(rewardDebt) + 1 + e)
    <3>1. /\ ONE \in Nat /\ claimed \in Nat /\ totalVstk \in Nat /\ accAitPerShare \in Nat
          /\ rewarded + issues + Total(rewardDebt) \in Nat
      BY <1>a, LedgerFacts
    <3>2. ONE * claimed + totalVstk * accAitPerShare
            <= ONE * (rewarded + issues + Total(rewardDebt))
      BY <1>a DEF DividendBooks
    <3> QED
      BY <1>b, <1>3, <3>1, <3>2, IssueArith
  <2>2. rewarded + (issues + 1) + (Total(rewardDebt) + e)
          = rewarded + issues + Total(rewardDebt) + 1 + e
    BY <1>a, <1>3, LedgerFacts
  <2>3. accAitPerShare = 0 => \A w \in Users : rewardDebt'[w] = 0
    BY <1>a, <1>3, <1>6 DEF DividendBooks
  <2>4. ~resold => \A w \in Users : rewardDebt'[w] <= Entitled(vstkBalance'[w])
    <3> SUFFICES ASSUME ~resold, NEW w \in Users PROVE rewardDebt'[w] <= Entitled(vstkBalance'[w])
      OBVIOUS
    <3>1. rewardDebt[w] <= Entitled(vstkBalance[w]) /\ rewardDebt[w] \in Nat
      BY <1>a, LedgerFacts DEF DividendBooks
    <3>2. CASE w # u
      BY <1>6, <3>1, <3>2, LedgerFacts, <1>a
    <3>3. CASE w = u
      <4>1. vstkBalance'[w] = vstkBalance[u] + a /\ rewardDebt'[w] = rewardDebt[u] + e
        BY <1>a, <1>6, <3>3, LedgerFacts
      <4>2. Entitled(vstkBalance[u]) \in Nat /\ Entitled(vstkBalance[u] + a) \in Nat
        BY <1>a, <1>6, EntitledFacts
      <4> QED
        BY <1>3, <1>5, <3>1, <3>3, <4>1, <4>2
    <3> QED
      BY <3>2, <3>3
  <2> QED
    BY <1>1, <1>2, <1>4, <1>8, <2>1, <2>2, <2>3, <2>4 DEF DividendBooks
<1>11. MarketBooks' /\ TokenTypeOK'
  BY <1>2 DEF MarketFine, MarketBooks, TokenTypeOK
<1> QED
  BY <1>2, <1>9, <1>10, <1>11 DEF MarketFine, Kept

\* What a payment does to the accounts of the three contracts.
LEMMA ContractAccounts ==
  ASSUME NEW u \in Users
  PROVE  /\ u \in Accounts \ {"treasury", "internal_market", "task_market", "staking_pool"}
         /\ {"internal_market", "task_market", "staking_pool"} \subseteq Accounts \ {"treasury"}
  BY AccountFacts

LEMMA DepositAitStep ==
  ASSUME MarketFine, DepositAit
  PROVE  MarketFine' /\ Kept("task_market") /\ Kept("staking_pool")
<1>1. PICK u \in Users, a \in MarketAmounts :
        /\ balanceOf[u] >= a
        /\ balanceOf' = Transfer(balanceOf, u, "internal_market", a)
        /\ aitBalance' = [aitBalance EXCEPT ![u] = @ + a]
        /\ marketShort' = marketShort + Withheld(u, a)
  BY DEF DepositAit
<1>2. /\ taxRateBps' = taxRateBps /\ paused' = paused
      /\ rewarded' = rewarded /\ claimed' = claimed
      /\ vstkBalance' = vstkBalance /\ totalVstk' = totalVstk
      /\ accAitPerShare' = accAitPerShare /\ rewardDebt' = rewardDebt
      /\ issues' = issues /\ resold' = resold
  BY DEF DepositAit, shareVars
<1> DEFINE w == Withheld(u, a)
<1>a. TokenTypeOK /\ LedgerTypeOK /\ MarketBooks /\ DividendBooks
  BY DEF MarketFine
<1>b. a \in Nat /\ balanceOf \in [Accounts -> Nat]
  BY <1>a, LedgerFacts DEF TokenTypeOK
<1>3. w \in Nat /\ w <= a
  BY <1>a, <1>b, WithheldBounds
<1>4. /\ balanceOf' \in [Accounts -> Nat]
      /\ \A x \in Accounts \ {"treasury"} :
           balanceOf'[x] = balanceOf[x] - (IF x = u THEN a ELSE 0)
                           + (IF x = "internal_market" THEN a - w ELSE 0)
  <2>1. u \in Accounts /\ "internal_market" \in Accounts /\ a <= balanceOf[u]
    BY <1>1, <1>b, ContractAccounts
  <2> QED
    BY <1>1, <1>a, <1>b, <2>1, PayGross
<1> HIDE DEF w
<1>5. /\ balanceOf'["internal_market"] = balanceOf["internal_market"] + (a - w)
      /\ balanceOf["internal_market"] \in Nat
      /\ Kept("task_market") /\ Kept("staking_pool")
  BY <1>b, <1>3, <1>4, ContractAccounts DEF Kept
<1>6. /\ aitBalance' \in [Users -> Nat] /\ Total(aitBalance') = Total(aitBalance) + a
      /\ Total(aitBalance') \in Nat
  <2>1. aitBalance \in [Users -> Nat] /\ a \in Int /\ aitBalance[u] + a >= 0
    BY <1>a, <1>b, LedgerFacts
  <2>2. aitBalance' = [aitBalance EXCEPT ![u] = aitBalance[u] + a]
    BY <1>1
  <2> QED
    BY <2>1, <2>2, UserTotal
<1>7. MarketBooks'
  <2>1. balanceOf["internal_market"] + marketShort = Total(aitBalance) + rewarded - claimed
    BY <1>a DEF MarketBooks
  <2>2. /\ marketShort \in Nat /\ rewarded \in Nat /\ claimed \in Nat /\ Total(aitBalance) \in Nat
        /\ marketShort' = marketShort + w
    BY <1>1, <1>a, LedgerFacts DEF w
  <2> QED
    BY <1>2, <1>3, <1>5, <1>6, <1>b, <2>1, <2>2 DEF MarketBooks
<1>8. LedgerTypeOK'
  <2>1. marketShort' \in Nat
    BY <1>1, <1>3, <1>a, LedgerFacts DEF w
  <2> QED
    BY <1>a, <1>2, <1>6, <2>1 DEF LedgerTypeOK
<1>9. DividendBooks'
  BY <1>a, <1>2 DEF DividendBooks, Entitled
<1>10. TokenTypeOK'
  BY <1>a, <1>2, <1>4 DEF TokenTypeOK
<1> QED
  BY <1>5, <1>7, <1>8, <1>9, <1>10 DEF MarketFine

LEMMA WithdrawAitStep ==
  ASSUME MarketFine, WithdrawAit
  PROVE  MarketFine' /\ Kept("task_market") /\ Kept("staking_pool")
<1>1. PICK u \in Users, a \in MarketAmounts :
        /\ aitBalance[u] >= a
        /\ balanceOf["internal_market"] >= a
        /\ aitBalance' = [aitBalance EXCEPT ![u] = @ - a]
        /\ balanceOf' = Transfer(balanceOf, "internal_market", u, a)
  BY DEF WithdrawAit
<1>2. /\ taxRateBps' = taxRateBps /\ paused' = paused
      /\ rewarded' = rewarded /\ claimed' = claimed /\ marketShort' = marketShort
      /\ vstkBalance' = vstkBalance /\ totalVstk' = totalVstk
      /\ accAitPerShare' = accAitPerShare /\ rewardDebt' = rewardDebt
      /\ issues' = issues /\ resold' = resold
  BY DEF WithdrawAit, shareVars
<1>a. TokenTypeOK /\ LedgerTypeOK /\ MarketBooks /\ DividendBooks
  BY DEF MarketFine
<1>b. a \in Nat /\ balanceOf \in [Accounts -> Nat]
  BY <1>a, LedgerFacts DEF TokenTypeOK
<1>4. /\ balanceOf' \in [Accounts -> Nat]
      /\ \A x \in Accounts \ {"treasury"} :
           balanceOf'[x] = balanceOf[x] - (IF x = "internal_market" THEN a ELSE 0)
                           + (IF x = u THEN a - Withheld("internal_market", a) ELSE 0)
  <2>1. u \in Accounts /\ "internal_market" \in Accounts /\ a <= balanceOf["internal_market"]
    BY <1>1, <1>b, ContractAccounts
  <2> QED
    BY <1>1, <1>a, <1>b, <2>1, PayGross
<1>5. /\ balanceOf'["internal_market"] = balanceOf["internal_market"] - a
      /\ balanceOf["internal_market"] \in Nat
      /\ Kept("task_market") /\ Kept("staking_pool")
  BY <1>b, <1>4, ContractAccounts DEF Kept
<1>6. aitBalance' \in [Users -> Nat] /\ Total(aitBalance') = Total(aitBalance) - a
  <2>1. /\ aitBalance \in [Users -> Nat] /\ -a \in Int /\ aitBalance[u] + (-a) >= 0
        /\ aitBalance[u] - a = aitBalance[u] + (-a)
        /\ Total(aitBalance) \in Nat
    BY <1>1, <1>a, <1>b, LedgerFacts
  <2>2. aitBalance' = [aitBalance EXCEPT ![u] = aitBalance[u] + (-a)]
    BY <1>1, <2>1
  <2>3. /\ aitBalance' \in [Users -> Nat] /\ Total(aitBalance') = Total(aitBalance) + (-a)
        /\ Total(aitBalance') \in Nat
    BY <2>1, <2>2, UserTotal
  <2> QED
    BY <1>b, <2>1, <2>3
<1>7. MarketBooks'
  <2>1. balanceOf["internal_market"] + marketShort = Total(aitBalance) + rewarded - claimed
    BY <1>a DEF MarketBooks
  <2>2. marketShort \in Nat /\ rewarded \in Nat /\ claimed \in Nat /\ Total(aitBalance) \in Nat
    BY <1>a, LedgerFacts
  <2> QED
    BY <1>2, <1>5, <1>6, <1>b, <2>1, <2>2 DEF MarketBooks
<1>8. LedgerTypeOK'
  BY <1>a, <1>2, <1>6 DEF LedgerTypeOK
<1>9. DividendBooks'
  BY <1>a, <1>2 DEF DividendBooks, Entitled
<1>10. TokenTypeOK'
  BY <1>a, <1>2, <1>4 DEF TokenTypeOK
<1> QED
  BY <1>5, <1>7, <1>8, <1>9, <1>10 DEF MarketFine

LEMMA SettleBlockedStep ==
  ASSUME MarketFine, SettleBlocked
  PROVE  MarketFine' /\ Kept("task_market") /\ Kept("staking_pool")
<1>1. UNCHANGED <<balanceOf, taxRateBps, marketVars>> /\ paused' = TRUE
  BY DEF SettleBlocked, TripsBreaker
<1> QED
  BY <1>1 DEF MarketFine, TokenTypeOK, LedgerTypeOK, MarketBooks, DividendBooks, Entitled, Kept,
              marketVars, moneyVars, shareVars

\* Shares change hands at their full worth only until the first profit, when there
\* are no debts.
LEMMA SettleTradeStep ==
  ASSUME MarketFine, SettleTrade
  PROVE  MarketFine' /\ Kept("task_market") /\ Kept("staking_pool")
<1>1. PICK buyer \in Users, seller \in Users, q \in MarketAmounts, n \in MarketAmounts :
        /\ aitBalance[buyer] >= n /\ vstkBalance[seller] >= q
        /\ balanceOf["internal_market"] >= n
        /\ aitBalance' = [aitBalance EXCEPT ![buyer] = @ - n]
        /\ balanceOf' = Transfer(CollectTax(balanceOf, "internal_market", n),
                                 "internal_market", seller, n - Fee(n))
        /\ vstkBalance' = Move(vstkBalance, seller, buyer, q)
        /\ resold' = (resold \/ accAitPerShare > 0)
  BY DEF SettleTrade
<1>2. /\ taxRateBps' = taxRateBps /\ paused' = paused
      /\ rewarded' = rewarded /\ claimed' = claimed /\ marketShort' = marketShort
      /\ totalVstk' = totalVstk /\ accAitPerShare' = accAitPerShare
      /\ rewardDebt' = rewardDebt /\ issues' = issues
  BY DEF SettleTrade
<1>a. TokenTypeOK /\ LedgerTypeOK /\ MarketBooks /\ DividendBooks
  BY DEF MarketFine
<1>b. n \in Nat /\ q \in Nat /\ balanceOf \in [Accounts -> Nat]
  BY <1>a, LedgerFacts DEF TokenTypeOK
<1>4. /\ balanceOf' \in [Accounts -> Nat]
      /\ \A x \in Accounts \ {"treasury"} :
           balanceOf'[x] = balanceOf[x] - (IF x = "internal_market" THEN n ELSE 0)
              + (IF x = seller THEN (n - Fee(n)) - Withheld("internal_market", n - Fee(n)) ELSE 0)
  <2>1. /\ seller \in Accounts /\ "internal_market" \in Accounts \ {"treasury"}
        /\ n <= balanceOf["internal_market"]
    BY <1>1, <1>b, ContractAccounts
  <2> QED
    BY <1>1, <1>a, <1>b, <2>1, PayNet
<1>5. /\ balanceOf'["internal_market"] = balanceOf["internal_market"] - n
      /\ balanceOf["internal_market"] \in Nat
      /\ Kept("task_market") /\ Kept("staking_pool")
  BY <1>b, <1>4, ContractAccounts DEF Kept
<1>6. aitBalance' \in [Users -> Nat] /\ Total(aitBalance') = Total(aitBalance) - n
  <2>1. /\ aitBalance \in [Users -> Nat] /\ -n \in Int /\ aitBalance[buyer] + (-n) >= 0
        /\ aitBalance[buyer] - n = aitBalance[buyer] + (-n)
        /\ Total(aitBalance) \in Nat
    BY <1>1, <1>a, <1>b, LedgerFacts
  <2>2. aitBalance' = [aitBalance EXCEPT ![buyer] = aitBalance[buyer] + (-n)]
    BY <1>1, <2>1
  <2>3. /\ aitBalance' \in [Users -> Nat] /\ Total(aitBalance') = Total(aitBalance) + (-n)
        /\ Total(aitBalance') \in Nat
    BY <2>1, <2>2, UserTotal
  <2> QED
    BY <1>b, <2>1, <2>3
<1>7. MarketBooks'
  <2>1. balanceOf["internal_market"] + marketShort = Total(aitBalance) + rewarded - claimed
    BY <1>a DEF MarketBooks
  <2>2. marketShort \in Nat /\ rewarded \in Nat /\ claimed \in Nat /\ Total(aitBalance) \in Nat
    BY <1>a, LedgerFacts
  <2> QED
    BY <1>2, <1>5, <1>6, <1>b, <2>1, <2>2 DEF MarketBooks
<1>8. vstkBalance' \in [Users -> Nat] /\ Total(vstkBalance') = Total(vstkBalance)
  <2>1. vstkBalance \in [Users -> Nat] /\ q <= vstkBalance[seller]
    BY <1>1, <1>a, <1>b, LedgerFacts
  <2> QED
    BY <1>1, <1>b, <2>1, TotalMove
<1>9. LedgerTypeOK'
  <2>1. totalVstk' = Total(vstkBalance') /\ resold' \in BOOLEAN
    BY <1>1, <1>2, <1>8, <1>a DEF LedgerTypeOK
  <2> QED
    BY <1>a, <1>2, <1>6, <1>8, <2>1 DEF LedgerTypeOK
<1>10. DividendBooks'
  <2>1. ~resold' => \A u \in Users : rewardDebt'[u] <= Entitled(vstkBalance'[u])
    <3> SUFFICES ASSUME ~resold', NEW u \in Users
                 PROVE  rewardDebt'[u] <= Entitled(vstkBalance'[u])
      OBVIOUS
    <3>1. accAitPerShare = 0
      <4>1. ~(accAitPerShare > 0) /\ accAitPerShare \in Nat
        BY <1>1, <1>a, LedgerFacts
      <4> QED
        BY <4>1
    <3>2. rewardDebt'[u] = 0
      BY <1>2, <1>a, <3>1 DEF DividendBooks
    <3>3. vstkBalance'[u] \in Nat
      BY <1>8
    <3> QED
      BY <1>a, <3>2, <3>3, EntitledFacts
  <2>2. \A s : Entitled(s)' = Entitled(s')
    BY <1>2 DEF Entitled
  <2>3. \A u \in Users : Entitled(vstkBalance[u])' = Entitled(vstkBalance'[u])
    BY <1>2 DEF Entitled
  <2> QED
    BY <1>a, <1>2, <2>1, <2>3 DEF DividendBooks
<1>11. TokenTypeOK'
  BY <1>a, <1>2, <1>4 DEF TokenTypeOK
<1> QED
  BY <1>5, <1>7, <1>9, <1>10, <1>11 DEF MarketFine

LEMMA DepositProfitStep ==
  ASSUME MarketFine, DepositProfit
  PROVE  MarketFine' /\ Kept("task_market") /\ Kept("staking_pool")
<1>1. PICK from \in Users, g \in MarketAmounts :
        /\ balanceOf[from] >= g
        /\ balanceOf' = Transfer(CollectTax(balanceOf, from, g), from, "internal_market",
                                 g - Fee(g))
        /\ marketShort' = marketShort + Withheld(from, g - Fee(g))
        /\ rewarded' = rewarded + (g - Fee(g))
        /\ accAitPerShare' = IF totalVstk = 0 THEN accAitPerShare
                             ELSE accAitPerShare + ((g - Fee(g)) * ONE) \div totalVstk
  BY DEF DepositProfit
<1>2. /\ taxRateBps' = taxRateBps /\ paused' = paused
      /\ aitBalance' = aitBalance /\ claimed' = claimed
      /\ vstkBalance' = vstkBalance /\ totalVstk' = totalVstk
      /\ rewardDebt' = rewardDebt /\ issues' = issues /\ resold' = resold
  BY DEF DepositProfit
<1> DEFINE n == g - Fee(g)
           w == Withheld(from, n)
<1>a. TokenTypeOK /\ LedgerTypeOK /\ MarketBooks /\ DividendBooks
  BY DEF MarketFine
<1>b. g \in Nat /\ balanceOf \in [Accounts -> Nat]
  BY <1>a, LedgerFacts DEF TokenTypeOK
<1>3. n \in Nat
  BY <1>a, <1>b, FeeBounds
<1>4. w \in Nat /\ w <= n
  BY <1>a, <1>3, WithheldBounds
<1>5. /\ balanceOf' \in [Accounts -> Nat]
      /\ \A x \in Accounts \ {"treasury"} :
           balanceOf'[x] = balanceOf[x] - (IF x = from THEN g ELSE 0)
                           + (IF x = "internal_market" THEN n - w ELSE 0)
  <2>1. from \in Accounts \ {"treasury"} /\ "internal_market" \in Accounts /\ g <= balanceOf[from]
    BY <1>1, <1>b, ContractAccounts
  <2> QED
    BY <1>1, <1>a, <1>b, <2>1, PayNet
<1>6. /\ marketShort' = marketShort + w
      /\ rewarded' = rewarded + n
      /\ accAitPerShare' = IF totalVstk = 0 THEN accAitPerShare
                           ELSE accAitPerShare + (n * ONE) \div totalVstk
  BY <1>1
<1> HIDE DEF n, w
<1>7. /\ balanceOf'["internal_market"] = balanceOf["internal_market"] + (n - w)
      /\ balanceOf["internal_market"] \in Nat
      /\ Kept("task_market") /\ Kept("staking_pool")
  BY <1>3, <1>4, <1>5, <1>b, ContractAccounts DEF Kept
<1>8. MarketBooks'
  <2>1. balanceOf["internal_market"] + marketShort = Total(aitBalance) + rewarded - claimed
    BY <1>a DEF MarketBooks
  <2>2. marketShort \in Nat /\ rewarded \in Nat /\ claimed \in Nat /\ Total(aitBalance) \in Nat
    BY <1>a, LedgerFacts
  <2> QED
    BY <1>2, <1>3, <1>4, <1>6, <1>7, <2>1, <2>2 DEF MarketBooks
<1>9. /\ accAitPerShare' \in Nat /\ accAitPerShare <= accAitPerShare'
      /\ ONE * claimed + totalVstk * accAitPerShare'
           <= ONE * ((rewarded + issues + Total(rewardDebt)) + n)
  <2> DEFINE L == rewarded + issues + Total(rewardDebt)
  <2>1. /\ ONE \in Nat /\ claimed \in Nat /\ totalVstk \in Nat /\ accAitPerShare \in Nat
        /\ L \in Nat
    BY <1>a, LedgerFacts
  <2>2. ONE * claimed + totalVstk * accAitPerShare <= ONE * L
    BY <1>a DEF DividendBooks
  <2> HIDE DEF L
  <2>3. /\ accAitPerShare' \in Nat /\ accAitPerShare <= accAitPerShare'
        /\ ONE * claimed + totalVstk * accAitPerShare' <= ONE * (L + n)
    BY <1>3, <1>6, <2>1, <2>2, GrowthArith
  <2> QED
    BY <2>3 DEF L
<1>10. LedgerTypeOK'
  <2>1. marketShort' \in Nat /\ rewarded' \in Nat
    BY <1>3, <1>4, <1>6, <1>a, LedgerFacts
  <2> QED
    BY <1>a, <1>2, <1>9, <2>1 DEF LedgerTypeOK
<1>11. DividendBooks'
  <2>1. ONE * claimed' + totalVstk' * accAitPerShare'
          <= ONE * (rewarded' + issues' + Total(rewardDebt'))
    <3>1. rewarded + n + issues + Total(rewardDebt) = rewarded + issues + Total(rewardDebt) + n
      BY <1>3, <1>a, LedgerFacts
    <3> QED
      BY <1>2, <1>6, <1>9, <3>1
  <2>2. accAitPerShare' = 0 => \A u \in Users : rewardDebt'[u] = 0
    <3>1. accAitPerShare' = 0 => accAitPerShare = 0
      BY <1>9, <1>a, LedgerFacts
    <3> QED
      BY <1>2, <1>a, <3>1 DEF DividendBooks
  <2>3. ~resold' => \A u \in Users : rewardDebt'[u] <= Entitled(vstkBalance[u])'
    <3> SUFFICES ASSUME ~resold', NEW u \in Users
                 PROVE  rewardDebt'[u] <= Entitled(vstkBalance[u])'
      OBVIOUS
    <3> DEFINE v == vstkBalance[u]
    <3>1. v \in Nat /\ rewardDebt[u] \in Nat
      BY <1>a, LedgerFacts
    <3>2. rewardDebt[u] <= Entitled(v)
      BY <1>2, <1>a DEF DividendBooks
    <3>3. Entitled(vstkBalance[u])' = (v * accAitPerShare') \div ONE
      BY <1>2 DEF Entitled
    <3> HIDE DEF v
    <3>4. accAitPerShare \in Nat /\ ONE \in Nat \ {0}
      BY <1>a, LedgerFacts
    <3>5. /\ v * accAitPerShare \in Nat /\ v * accAitPerShare' \in Nat
          /\ v * accAitPerShare <= v * accAitPerShare'
      BY <1>9, <3>1, <3>4, ProductMono
    <3>6. Entitled(v) <= (v * accAitPerShare') \div ONE
      BY <3>4, <3>5, QuotientMono DEF Entitled
    <3>7. Entitled(v) \in Nat /\ (v * accAitPerShare') \div ONE \in Nat
      BY <1>a, <3>1, <3>4, <3>5, EntitledFacts, Quotient
    <3>8. rewardDebt'[u] = rewardDebt[u]
      BY <1>2
    <3> QED
      BY <3>1, <3>2, <3>3, <3>6, <3>7, <3>8
  <2> QED
    BY <2>1, <2>2, <2>3 DEF DividendBooks
<1>12. TokenTypeOK'
  BY <1>a, <1>2, <1>5 DEF TokenTypeOK
<1> QED
  BY <1>7, <1>8, <1>10, <1>11, <1>12 DEF MarketFine

LEMMA ClaimDividendStep ==
  ASSUME MarketFine, ClaimDividend
  PROVE  MarketFine' /\ Kept("task_market") /\ Kept("staking_pool")
<1>1. PICK u \in Users :
        /\ PendingDividend(u) > 0
        /\ balanceOf["internal_market"] >= PendingDividend(u)
        /\ rewardDebt' = [rewardDebt EXCEPT ![u] = Entitled(vstkBalance[u])]
        /\ balanceOf' = Transfer(balanceOf, "internal_market", u, PendingDividend(u))
        /\ claimed' = claimed + PendingDividend(u)
  BY DEF ClaimDividend
<1>2. /\ taxRateBps' = taxRateBps /\ paused' = paused
      /\ aitBalance' = aitBalance /\ rewarded' = rewarded /\ marketShort' = marketShort
      /\ vstkBalance' = vstkBalance /\ totalVstk' = totalVstk
      /\ accAitPerShare' = accAitPerShare /\ issues' = issues /\ resold' = resold
  BY DEF ClaimDividend
<1> DEFINE a == PendingDividend(u)
           e == Entitled(vstkBalance[u])
<1>a. TokenTypeOK /\ LedgerTypeOK /\ MarketBooks /\ DividendBooks
  BY DEF MarketFine
<1>b. balanceOf \in [Accounts -> Nat] /\ rewardDebt \in [Users -> Nat]
  BY <1>a, LedgerFacts DEF TokenTypeOK
<1>3. e \in Nat /\ (accAitPerShare = 0 => e = 0)
  <2>1. vstkBalance[u] \in Nat
    BY <1>a, LedgerFacts
  <2> QED
    BY <1>a, <2>1, EntitledFacts
<1>4. a = e - rewardDebt[u]
  BY DEF PendingDividend
<1>5. /\ a > 0 /\ a <= balanceOf["internal_market"]
      /\ rewardDebt' = [rewardDebt EXCEPT ![u] = e]
      /\ balanceOf' = Transfer(balanceOf, "internal_market", u, a)
      /\ claimed' = claimed + a
  <2>1. balanceOf["internal_market"] \in Nat /\ a \in Int
    BY <1>3, <1>4, <1>b, ContractAccounts
  <2> QED
    BY <1>1, <2>1
<1> HIDE DEF a, e
<1>6. a \in Nat /\ a = e - rewardDebt[u] /\ rewardDebt[u] \in Nat
  BY <1>3, <1>4, <1>5, <1>b
<1>7. /\ balanceOf' \in [Accounts -> Nat]
      /\ \A x \in Accounts \ {"treasury"} :
           balanceOf'[x] = balanceOf[x] - (IF x = "internal_market" THEN a ELSE 0)
                           + (IF x = u THEN a - Withheld("internal_market", a) ELSE 0)
  <2>1. u \in Accounts /\ "internal_market" \in Accounts
    BY ContractAccounts
  <2> QED
    BY <1>5, <1>6, <1>a, <2>1, PayGross
<1>8. /\ balanceOf'["internal_market"] = balanceOf["internal_market"] - a
      /\ balanceOf["internal_market"] \in Nat
      /\ Kept("task_market") /\ Kept("staking_pool")
  BY <1>b, <1>6, <1>7, ContractAccounts DEF Kept
<1>9. MarketBooks'
  <2>1. balanceOf["internal_market"] + marketShort = Total(aitBalance) + rewarded - claimed
    BY <1>a DEF MarketBooks
  <2>2. marketShort \in Nat /\ rewarded \in Nat /\ claimed \in Nat /\ Total(aitBalance) \in Nat
    BY <1>a, LedgerFacts
  <2> QED
    BY <1>2, <1>5, <1>6, <1>8, <2>1, <2>2 DEF MarketBooks
<1>10. rewardDebt' \in [Users -> Nat] /\ Total(rewardDebt') = Total(rewardDebt) + a
  <2>1. a \in Int /\ rewardDebt[u] + a = e /\ rewardDebt[u] + a >= 0
    BY <1>3, <1>6
  <2>2. rewardDebt' = [rewardDebt EXCEPT ![u] = rewardDebt[u] + a]
    BY <1>5, <2>1
  <2> QED
    BY <1>b, <2>1, <2>2, UserTotal
<1>11. LedgerTypeOK'
  <2>1. claimed' \in Nat
    BY <1>5, <1>6, <1>a, LedgerFacts
  <2> QED
    BY <1>a, <1>2, <1>10, <2>1 DEF LedgerTypeOK
<1>12. DividendBooks'
  <2> DEFINE L == rewarded + issues + Total(rewardDebt)
  <2>1. /\ ONE \in Nat /\ claimed \in Nat /\ totalVstk \in Nat /\ accAitPerShare \in Nat
        /\ L \in Nat /\ rewarded + issues + (Total(rewardDebt) + a) = L + a
    BY <1>6, <1>a, LedgerFacts
  <2>2. ONE * claimed + totalVstk * accAitPerShare <= ONE * L
    BY <1>a DEF DividendBooks
  <2> HIDE DEF L
  <2>3. ONE * (claimed + a) + totalVstk * accAitPerShare <= ONE * (L + a)
    BY <1>6, <2>1, <2>2, ClaimArith
  <2>4. accAitPerShare = 0 => \A w \in Users : rewardDebt'[w] = 0
    BY <1>3, <1>5, <1>a, <1>b DEF DividendBooks
  <2>5. ~resold => \A w \in Users : rewardDebt'[w] <= Entitled(vstkBalance[w])
    <3> SUFFICES ASSUME ~resold, NEW w \in Users PROVE rewardDebt'[w] <= Entitled(vstkBalance[w])
      OBVIOUS
    <3>1. rewardDebt[w] <= Entitled(vstkBalance[w])
      BY <1>a DEF DividendBooks
    <3>2. w # u => rewardDebt'[w] = rewardDebt[w]
      BY <1>5, <1>b
    <3>3. w = u => rewardDebt'[w] = Entitled(vstkBalance[w])
      BY <1>5, <1>b DEF e
    <3>4. e <= e
      BY <1>3
    <3> QED
      BY <3>1, <3>2, <3>3, <3>4 DEF e
  <2>6. \A w \in Users : Entitled(vstkBalance[w])' = Entitled(vstkBalance[w])
    BY <1>2 DEF Entitled
  <2> QED
    BY <1>2, <1>5, <1>10, <2>1, <2>3, <2>4, <2>5, <2>6 DEF DividendBooks
<1>13. TokenTypeOK'
  BY <1>a, <1>2, <1>7 DEF TokenTypeOK
<1> QED
  BY <1>8, <1>9, <1>11, <1>12, <1>13 DEF MarketFine

LEMMA MarketStep ==
  ASSUME MarketFine, MarketNext
  PROVE  MarketFine' /\ Kept("task_market") /\ Kept("staking_pool")
  BY IssueSharesStep, DepositAitStep, WithdrawAitStep, SettleBlockedStep, SettleTradeStep,
     DepositProfitStep, ClaimDividendStep DEF MarketNext

-----------------------------------------------------------------------------
(* The staking pool. *)

\* What was claimed and what the stakes are worth now, in units of 1/ONE, is covered
\* by the rewards, one unit for each settlement, and the debts; nobody owes more than
\* his stake is worth.
RewardBooks ==
  /\ ONE * rewardsClaimed + totalStaked * accRewardPerShare
       <= ONE * (stakeRewards + settlements + Total(stakeDebt))
  /\ \A u \in Users : stakeDebt[u] <= Accumulated(staked[u])

PoolFine == TokenTypeOK /\ PoolTypeOK /\ StakeBooks /\ RewardBooks

LEMMA PoolFacts ==
  ASSUME PoolTypeOK
  PROVE  /\ ONE \in Nat \ {0} /\ StakeAmounts \subseteq Nat
         /\ staked \in [Users -> Nat] /\ stakeDebt \in [Users -> Nat]
         /\ accRewardPerShare \in Nat /\ stakeRewards \in Nat /\ rewardsClaimed \in Nat
         /\ stakeShort \in Nat /\ settlements \in Nat
         /\ totalStaked = Total(staked) /\ totalStaked \in Nat /\ Total(stakeDebt) \in Nat
<1>0. IsFiniteSet(Users) /\ ONE \in Nat \ {0}
  BY UsersFinite, UnitPositive
<1>1. StakeAmounts \subseteq Nat \ {0}
  BY StakeAssumption
<1>2. /\ staked \in [Users -> Nat] /\ stakeDebt \in [Users -> Nat]
      /\ totalStaked = Total(staked)
  BY DEF PoolTypeOK
<1>3. Total(staked) \in Nat
  BY <1>0, <1>2, TotalType
<1>4. Total(stakeDebt) \in Nat
  BY <1>0, <1>2, TotalType
<1> QED
  BY <1>0, <1>1, <1>2, <1>3, <1>4 DEF PoolTypeOK

\* What a stake is worth, rounded down.
LEMMA AccumulatedFacts ==
  ASSUME PoolTypeOK, NEW s \in Nat
  PROVE  /\ s * accRewardPerShare \in Nat /\ Accumulated(s) \in Nat
         /\ ONE * Accumulated(s) <= s * accRewardPerShare
         /\ s * accRewardPerShare < ONE * Accumulated(s) + ONE
<1>1. accRewardPerShare \in Nat /\ ONE \in Nat \ {0}
  BY PoolFacts
<1>2. s * accRewardPerShare \in Nat
  BY <1>1
<1> QED
  BY <1>1, <1>2, Quotient DEF Accumulated

\* No stake exceeds the total.
LEMMA StakeInTotal ==
  ASSUME PoolTypeOK, NEW u \in Users
  PROVE  staked[u] <= totalStaked
<1>1. staked \in [Users -> Nat] /\ totalStaked = Total(staked) /\ totalStaked \in Nat
  BY PoolFacts
<1> DEFINE h == [staked EXCEPT ![u] = staked[u] + (-staked[u])]
<1>2. staked[u] \in Nat /\ -staked[u] \in Int /\ staked[u] + (-staked[u]) >= 0
  BY <1>1
<1>3. Total(h) = Total(staked) + (-staked[u]) /\ Total(h) \in Nat
  BY <1>1, <1>2, UserTotal
<1> HIDE DEF h
<1> QED
  BY <1>1, <1>2, <1>3

\* What a claim with a new stake s changes.
LEMMA SettledFacts ==
  ASSUME PoolFine, NEW u \in Users, NEW s \in Nat, SettledAt(u, s),
         totalStaked' = totalStaked - staked[u] + s
  PROVE  /\ PendingReward(u) \in Nat /\ PendingReward(u) <= balanceOf["staking_pool"]
         /\ rewardsClaimed' = rewardsClaimed + PendingReward(u)
         /\ stakeRewards' = stakeRewards
         /\ taxRateBps' = taxRateBps /\ paused' = paused
         /\ stakeShort' \in Nat => PoolTypeOK'
         /\ RewardBooks'
<1>1. /\ balanceOf["staking_pool"] >= PendingReward(u)
      /\ rewardsClaimed' = rewardsClaimed + PendingReward(u)
      /\ staked' = [staked EXCEPT ![u] = s]
      /\ stakeDebt' = [stakeDebt EXCEPT ![u] = Accumulated(s)]
      /\ settlements' = settlements + 1
      /\ taxRateBps' = taxRateBps /\ paused' = paused
      /\ accRewardPerShare' = accRewardPerShare /\ stakeRewards' = stakeRewards
  BY DEF SettledAt
<1>a. TokenTypeOK /\ PoolTypeOK /\ RewardBooks
  BY DEF PoolFine
<1> DEFINE w == Accumulated(staked[u])
           e == Accumulated(s)
           d == stakeDebt[u]
           old == staked[u]
<1>2. d \in Nat /\ old \in Nat
  BY <1>a, PoolFacts
<1>3. w \in Nat /\ ONE * w <= old * accRewardPerShare
  BY <1>a, <1>2, AccumulatedFacts
<1>4. e \in Nat /\ s * accRewardPerShare < ONE * e + ONE
  BY <1>a, AccumulatedFacts
<1>5. d <= w
  BY <1>a DEF RewardBooks
<1>6. PendingReward(u) = w - d /\ w - d \in Nat
  BY <1>2, <1>3, <1>5 DEF PendingReward
<1>7. balanceOf["staking_pool"] \in Nat
  BY <1>a, ContractAccounts DEF TokenTypeOK
<1>8. old <= totalStaked
  BY <1>a, StakeInTotal
<1>e. stakeDebt' = [stakeDebt EXCEPT ![u] = e]
  BY <1>1
<1> HIDE DEF w, e, d
<1>9. staked' \in [Users -> Nat] /\ Total(staked') = totalStaked' /\ totalStaked' \in Nat
  <2>1. /\ staked \in [Users -> Nat] /\ s - old \in Int /\ staked[u] + (s - old) = s
        /\ staked[u] + (s - old) >= 0 /\ totalStaked = Total(staked) /\ totalStaked \in Nat
    BY <1>a, <1>2, PoolFacts
  <2>2. staked' = [staked EXCEPT ![u] = staked[u] + (s - old)]
    BY <1>1, <2>1
  <2>3. /\ staked' \in [Users -> Nat] /\ Total(staked') = Total(staked) + (s - old)
        /\ Total(staked') \in Nat
    BY <2>1, <2>2, UserTotal
  <2> QED
    BY <1>2, <2>1, <2>3
<1>10. stakeDebt' \in [Users -> Nat] /\ Total(stakeDebt') = Total(stakeDebt) - d + e
  <2>1. /\ stakeDebt \in [Users -> Nat] /\ e - d \in Int /\ stakeDebt[u] + (e - d) = e
        /\ stakeDebt[u] + (e - d) >= 0 /\ Total(stakeDebt) \in Nat
    BY <1>a, <1>2, <1>4, PoolFacts DEF d
  <2>2. stakeDebt' = [stakeDebt EXCEPT ![u] = stakeDebt[u] + (e - d)]
    BY <1>e, <2>1
  <2>3. /\ stakeDebt' \in [Users -> Nat] /\ Total(stakeDebt') = Total(stakeDebt) + (e - d)
        /\ Total(stakeDebt') \in Nat
    BY <2>1, <2>2, UserTotal
  <2> QED
    BY <1>2, <1>4, <2>1, <2>3
<1>11. ASSUME stakeShort' \in Nat PROVE PoolTypeOK'
  <2>1. rewardsClaimed' \in Nat /\ settlements' \in Nat
    BY <1>1, <1>6, <1>a, PoolFacts
  <2>2. {accRewardPerShare', stakeRewards'} \subseteq Nat
    BY <1>1, <1>a, PoolFacts
  <2> QED
    BY <1>9, <1>10, <1>11, <2>1, <2>2 DEF PoolTypeOK
<1>12. RewardBooks'
  <2> DEFINE L == stakeRewards + settlements + Total(stakeDebt)
  <2>1. /\ ONE \in Nat /\ rewardsClaimed \in Nat /\ totalStaked \in Nat
        /\ accRewardPerShare \in Nat /\ L \in Nat
        /\ stakeRewards + (settlements + 1) + (Total(stakeDebt) - d + e) = (L - d + e) + 1
    BY <1>2, <1>4, <1>a, PoolFacts
  <2>2. ONE * rewardsClaimed + totalStaked * accRewardPerShare <= ONE * L
    BY <1>a DEF RewardBooks
  <2> HIDE DEF L
  <2>3. ONE * (rewardsClaimed + (w - d)) + (totalStaked - old + s) * accRewardPerShare
          <= ONE * ((L - d + e) + 1)
    <3> HIDE DEF old
    <3> QED
      BY <1>2, <1>3, <1>4, <1>8, <2>1, <2>2, SettleArith
  <2>4. \A x \in Users : stakeDebt'[x] <= Accumulated(staked'[x])
    <3> TAKE x \in Users
    <3>1. CASE x = u
      <4>1. stakeDebt'[x] = e /\ staked'[x] = s
        BY <1>1, <1>a, <1>e, <3>1, PoolFacts
      <4>2. e <= e
        BY <1>4
      <4> QED
        BY <4>1, <4>2 DEF e
    <3>2. CASE x # u
      <4>1. stakeDebt'[x] = stakeDebt[x] /\ staked'[x] = staked[x]
        BY <1>1, <1>a, <3>2, PoolFacts
      <4> QED
        BY <1>a, <4>1 DEF RewardBooks
    <3> QED
      BY <3>1, <3>2
  <2>5. \A x \in Users : Accumulated(staked[x])' = Accumulated(staked'[x])
    BY <1>1 DEF Accumulated
  <2>6. ONE * rewardsClaimed' + totalStaked' * accRewardPerShare'
          <= ONE * (stakeRewards' + settlements' + Total(stakeDebt'))
    BY <1>1, <1>6, <1>10, <2>1, <2>3
  <2> QED
    BY <2>4, <2>5, <2>6 DEF RewardBooks
<1> QED
  BY <1>1, <1>6, <1>7, <1>11, <1>12

\* The claim's payment: the pool's balance falls by it.
LEMMA ClaimedFacts ==
  ASSUME PoolFine, NEW u \in Users, PendingReward(u) \in Nat,
         PendingReward(u) <= balanceOf["staking_pool"]
  PROVE  /\ Claimed(u) \in [Accounts -> Nat]
         /\ Claimed(u)["staking_pool"] = balanceOf["staking_pool"] - PendingReward(u)
         /\ Claimed(u)["task_market"] = balanceOf["task_market"]
         /\ Claimed(u)["internal_market"] = balanceOf["internal_market"]
<1> DEFINE p == PendingReward(u)
           c == Transfer(balanceOf, "staking_pool", u, p)
<1>1. TokenTypeOK /\ balanceOf \in [Accounts -> Nat] /\ p \in Nat /\ p <= balanceOf["staking_pool"]
  BY DEF PoolFine, TokenTypeOK
<1>2. u \in Accounts /\ "staking_pool" \in Accounts
  BY ContractAccounts
<1>3. Claimed(u) = c
  BY DEF Claimed
<1> HIDE DEF p
<1>4. /\ c \in [Accounts -> Nat]
      /\ \A x \in Accounts \ {"treasury"} :
           c[x] = balanceOf[x] - (IF x = "staking_pool" THEN p ELSE 0)
                  + (IF x = u THEN p - Withheld("staking_pool", p) ELSE 0)
  BY <1>1, <1>2, TransferEffect
<1> HIDE DEF c
<1>5. /\ c["staking_pool"] = balanceOf["staking_pool"] - p
      /\ c["task_market"] = balanceOf["task_market"]
      /\ c["internal_market"] = balanceOf["internal_market"]
  BY <1>1, <1>4, ContractAccounts
<1> QED
  BY <1>3, <1>4, <1>5 DEF p

LEMMA DepositRewardStep ==
  ASSUME PoolFine, DepositReward
  PROVE  PoolFine' /\ Kept("task_market") /\ Kept("internal_market")
<1>1. PICK from \in Users \cup {"treasury"}, a \in StakeAmounts :
        /\ balanceOf[from] >= a
        /\ balanceOf' = Transfer(balanceOf, from, "staking_pool", a)
        /\ stakeShort' = stakeShort + Withheld(from, a)
        /\ stakeRewards' = stakeRewards + a
        /\ accRewardPerShare' = IF totalStaked = 0 THEN accRewardPerShare
                                ELSE accRewardPerShare + (a * ONE) \div totalStaked
  BY DEF DepositReward
<1>2. /\ taxRateBps' = taxRateBps /\ paused' = paused
      /\ staked' = staked /\ totalStaked' = totalStaked /\ stakeDebt' = stakeDebt
      /\ rewardsClaimed' = rewardsClaimed /\ settlements' = settlements
  BY DEF DepositReward
<1> DEFINE w == Withheld(from, a)
<1>a. TokenTypeOK /\ PoolTypeOK /\ StakeBooks /\ RewardBooks
  BY DEF PoolFine
<1>b. a \in Nat /\ balanceOf \in [Accounts -> Nat]
  BY <1>a, PoolFacts DEF TokenTypeOK
<1>c. from \in Accounts \ {"internal_market", "task_market", "staking_pool"}
  BY AccountFacts
<1>3. w \in Nat /\ w <= a
  BY <1>a, <1>b, WithheldBounds
<1>4. /\ balanceOf' \in [Accounts -> Nat]
      /\ \A x \in Accounts \ {"treasury"} :
           balanceOf'[x] = balanceOf[x] - (IF x = from THEN a ELSE 0)
                           + (IF x = "staking_pool" THEN a - w ELSE 0)
  <2>1. "staking_pool" \in Accounts /\ a <= balanceOf[from]
    BY <1>1, <1>b, <1>c, AccountFacts
  <2> QED
    BY <1>1, <1>a, <1>b, <1>c, <2>1, PayGross
<1>5. stakeShort' = stakeShort + w /\ stakeRewards' = stakeRewards + a
  BY <1>1
<1> HIDE DEF w
<1>6. /\ balanceOf'["staking_pool"] = balanceOf["staking_pool"] + (a - w)
      /\ balanceOf["staking_pool"] \in Nat
      /\ Kept("task_market") /\ Kept("internal_market")
  BY <1>b, <1>c, <1>3, <1>4, AccountFacts DEF Kept
<1>7. /\ accRewardPerShare' \in Nat /\ accRewardPerShare <= accRewardPerShare'
      /\ ONE * rewardsClaimed + totalStaked * accRewardPerShare'
           <= ONE * ((stakeRewards + settlements + Total(stakeDebt)) + a)
  <2> DEFINE L == stakeRewards + settlements + Total(stakeDebt)
  <2>1. /\ ONE \in Nat /\ rewardsClaimed \in Nat /\ totalStaked \in Nat
        /\ accRewardPerShare \in Nat /\ L \in Nat
    BY <1>a, PoolFacts
  <2>2. ONE * rewardsClaimed + totalStaked * accRewardPerShare <= ONE * L
    BY <1>a DEF RewardBooks
  <2> HIDE DEF L
  <2>3. /\ accRewardPerShare' \in Nat /\ accRewardPerShare <= accRewardPerShare'
        /\ ONE * rewardsClaimed + totalStaked * accRewardPerShare' <= ONE * (L + a)
    BY <1>b, <1>1, <2>1, <2>2, GrowthArith
  <2> QED
    BY <2>3 DEF L
<1>8. PoolTypeOK'
  <2>1. stakeShort' \in Nat /\ stakeRewards' \in Nat
    BY <1>1, <1>b, <1>3, <1>5, <1>a, PoolFacts
  <2> QED
    BY <1>2, <1>7, <1>a, <2>1 DEF PoolTypeOK
<1>9. RewardBooks'
  <2>1. ONE * rewardsClaimed' + totalStaked' * accRewardPerShare'
          <= ONE * (stakeRewards' + settlements' + Total(stakeDebt'))
    <3>1. stakeRewards + a + settlements + Total(stakeDebt)
            = stakeRewards + settlements + Total(stakeDebt) + a
      BY <1>b, <1>a, PoolFacts
    <3> QED
      BY <1>1, <1>2, <1>7, <3>1
  <2>2. ASSUME NEW u \in Users PROVE stakeDebt'[u] <= Accumulated(staked[u])'
    <3> DEFINE v == staked[u]
    <3>1. v \in Nat /\ stakeDebt[u] \in Nat
      BY <1>a, PoolFacts
    <3>2. stakeDebt[u] <= Accumulated(v)
      BY <1>a DEF RewardBooks
    <3>3. Accumulated(staked[u])' = (v * accRewardPerShare') \div ONE
      BY <1>2 DEF Accumulated
    <3> HIDE DEF v
    <3>4. accRewardPerShare \in Nat /\ ONE \in Nat \ {0}
      BY <1>a, PoolFacts
    <3>5. /\ v * accRewardPerShare \in Nat /\ v * accRewardPerShare' \in Nat
          /\ v * accRewardPerShare <= v * accRewardPerShare'
      BY <1>7, <3>1, <3>4, ProductMono
    <3>6. Accumulated(v) <= (v * accRewardPerShare') \div ONE
      BY <3>4, <3>5, QuotientMono DEF Accumulated
    <3>7. Accumulated(v) \in Nat /\ (v * accRewardPerShare') \div ONE \in Nat
      BY <1>a, <3>1, <3>4, <3>5, AccumulatedFacts, Quotient
    <3>8. stakeDebt'[u] = stakeDebt[u]
      BY <1>2
    <3> QED
      BY <3>1, <3>2, <3>3, <3>6, <3>7, <3>8
  <2> QED
    BY <2>1, <2>2 DEF RewardBooks
<1>10. StakeBooks'
  <2>1. balanceOf["staking_pool"] + stakeShort = totalStaked + stakeRewards - rewardsClaimed
    BY <1>a DEF StakeBooks
  <2>2. /\ stakeShort \in Nat /\ totalStaked \in Nat /\ stakeRewards \in Nat
        /\ rewardsClaimed \in Nat
    BY <1>a, PoolFacts
  <2> QED
    BY <1>2, <1>b, <1>3, <1>5, <1>6, <2>1, <2>2 DEF StakeBooks
<1>11. TokenTypeOK'
  BY <1>a, <1>2, <1>4 DEF TokenTypeOK
<1> QED
  BY <1>6, <1>8, <1>9, <1>10, <1>11 DEF PoolFine

LEMMA StakeStep ==
  ASSUME PoolFine, Stake
  PROVE  PoolFine' /\ Kept("task_market") /\ Kept("internal_market")
<1>1. PICK u \in Users, a \in StakeAmounts :
        /\ SettledAt(u, staked[u] + a)
        /\ Claimed(u)[u] >= a
        /\ balanceOf' = Transfer(Claimed(u), u, "staking_pool", a)
        /\ stakeShort' = stakeShort + Withheld(u, a)
        /\ totalStaked' = totalStaked + a
  BY DEF Stake
<1> DEFINE w == Withheld(u, a)
           p == PendingReward(u)
           c == Claimed(u)
<1>a. TokenTypeOK /\ PoolTypeOK /\ StakeBooks
  BY DEF PoolFine
<1>b. /\ a \in Nat /\ balanceOf \in [Accounts -> Nat]
      /\ staked[u] \in Nat /\ totalStaked \in Nat /\ staked[u] + a \in Nat
      /\ totalStaked + a = totalStaked - staked[u] + (staked[u] + a)
  BY <1>a, PoolFacts DEF TokenTypeOK
<1>2. /\ p \in Nat /\ p <= balanceOf["staking_pool"]
      /\ rewardsClaimed' = rewardsClaimed + p /\ stakeRewards' = stakeRewards
      /\ taxRateBps' = taxRateBps /\ paused' = paused
      /\ stakeShort' \in Nat => PoolTypeOK'
      /\ RewardBooks'
  BY <1>1, <1>b, SettledFacts
<1>3. w \in Nat /\ w <= a
  BY <1>a, <1>b, WithheldBounds
<1>4. /\ c \in [Accounts -> Nat]
      /\ c["staking_pool"] = balanceOf["staking_pool"] - p
      /\ c["task_market"] = balanceOf["task_market"]
      /\ c["internal_market"] = balanceOf["internal_market"]
  BY <1>2, ClaimedFacts
<1> HIDE DEF p, c
<1>5. /\ balanceOf' \in [Accounts -> Nat]
      /\ \A x \in Accounts \ {"treasury"} :
           balanceOf'[x] = c[x] - (IF x = u THEN a ELSE 0) + (IF x = "staking_pool" THEN a - w ELSE 0)
  <2>1. "staking_pool" \in Accounts /\ u \in Accounts /\ a <= c[u]
    BY <1>1, <1>b, <1>4, ContractAccounts DEF c
  <2>2. balanceOf' = Transfer(c, u, "staking_pool", a)
    BY <1>1 DEF c
  <2> DEFINE d == Transfer(c, u, "staking_pool", a)
  <2>3. /\ d \in [Accounts -> Nat]
        /\ \A x \in Accounts \ {"treasury"} :
             d[x] = c[x] - (IF x = u THEN a ELSE 0) + (IF x = "staking_pool" THEN a - w ELSE 0)
    <3>1. TokenTypeOK /\ c \in [Accounts -> Nat] /\ a \in Nat
      BY <1>a, <1>b, <1>4
    <3> QED
      BY <2>1, <3>1, TransferEffect
  <2> HIDE DEF d, w
  <2>4. balanceOf' = d
    BY <2>2 DEF d
  <2> QED
    BY <2>3, <2>4
<1>6. /\ stakeShort' = stakeShort + w /\ stakeShort' \in Nat
      /\ totalStaked' = totalStaked + a
  BY <1>1, <1>3, <1>a, PoolFacts
<1> HIDE DEF w
<1>7. /\ balanceOf'["staking_pool"] = balanceOf["staking_pool"] - p + (a - w)
      /\ balanceOf["staking_pool"] \in Nat
      /\ Kept("task_market") /\ Kept("internal_market")
  BY <1>b, <1>2, <1>3, <1>4, <1>5, ContractAccounts DEF Kept
<1>10. StakeBooks'
  <2>1. balanceOf["staking_pool"] + stakeShort = totalStaked + stakeRewards - rewardsClaimed
    BY <1>a DEF StakeBooks
  <2>2. /\ stakeShort \in Nat /\ totalStaked \in Nat /\ stakeRewards \in Nat
        /\ rewardsClaimed \in Nat
    BY <1>a, PoolFacts
  <2> QED
    BY <1>2, <1>b, <1>3, <1>6, <1>7, <2>1, <2>2 DEF StakeBooks
<1>11. TokenTypeOK'
  BY <1>a, <1>2, <1>5 DEF TokenTypeOK
<1> QED
  BY <1>2, <1>6, <1>7, <1>10, <1>11 DEF PoolFine

LEMMA UnstakeStep ==
  ASSUME PoolFine, Unstake
  PROVE  PoolFine' /\ Kept("task_market") /\ Kept("internal_market")
<1>1. PICK u \in Users, a \in StakeAmounts :
        /\ staked[u] >= a
        /\ SettledAt(u, staked[u] - a)
        /\ Claimed(u)["staking_pool"] >= a
        /\ balanceOf' = Transfer(Claimed(u), "staking_pool", u, a)
        /\ totalStaked' = totalStaked - a
        /\ stakeShort' = stakeShort
  BY DEF Unstake
<1> DEFINE p == PendingReward(u)
           c == Claimed(u)
<1>a. TokenTypeOK /\ PoolTypeOK /\ StakeBooks
  BY DEF PoolFine
<1>b. /\ a \in Nat /\ balanceOf \in [Accounts -> Nat]
      /\ staked[u] \in Nat /\ totalStaked \in Nat
  BY <1>a, PoolFacts DEF TokenTypeOK
<1>c. /\ staked[u] - a \in Nat
      /\ totalStaked - a = totalStaked - staked[u] + (staked[u] - a)
  BY <1>1, <1>b
<1>2. /\ p \in Nat /\ p <= balanceOf["staking_pool"]
      /\ rewardsClaimed' = rewardsClaimed + p /\ stakeRewards' = stakeRewards
      /\ taxRateBps' = taxRateBps /\ paused' = paused
      /\ stakeShort' \in Nat => PoolTypeOK'
      /\ RewardBooks'
  BY <1>1, <1>c, SettledFacts
<1>4. /\ c \in [Accounts -> Nat]
      /\ c["staking_pool"] = balanceOf["staking_pool"] - p
      /\ c["task_market"] = balanceOf["task_market"]
      /\ c["internal_market"] = balanceOf["internal_market"]
  BY <1>2, ClaimedFacts
<1> HIDE DEF p, c
<1>5. /\ balanceOf' \in [Accounts -> Nat]
      /\ \A x \in Accounts \ {"treasury"} :
           balanceOf'[x] = c[x] - (IF x = "staking_pool" THEN a ELSE 0)
                           + (IF x = u THEN a - Withheld("staking_pool", a) ELSE 0)
  <2>1. "staking_pool" \in Accounts /\ u \in Accounts /\ a <= c["staking_pool"]
    BY <1>1, <1>b, <1>4, ContractAccounts DEF c
  <2>2. balanceOf' = Transfer(c, "staking_pool", u, a)
    BY <1>1 DEF c
  <2> QED
    BY <1>a, <1>b, <1>4, <2>1, <2>2, TransferEffect
<1>6. stakeShort' \in Nat /\ stakeShort' = stakeShort /\ totalStaked' = totalStaked - a
  BY <1>1, <1>a, PoolFacts
<1>7. /\ balanceOf'["staking_pool"] = balanceOf["staking_pool"] - p - a
      /\ balanceOf["staking_pool"] \in Nat
      /\ Kept("task_market") /\ Kept("internal_market")
  BY <1>b, <1>2, <1>4, <1>5, ContractAccounts DEF Kept
<1>10. StakeBooks'
  <2>1. balanceOf["staking_pool"] + stakeShort = totalStaked + stakeRewards - rewardsClaimed
    BY <1>a DEF StakeBooks
  <2>2. /\ stakeShort \in Nat /\ totalStaked \in Nat /\ stakeRewards \in Nat
        /\ rewardsClaimed \in Nat
    BY <1>a, PoolFacts
  <2>3. /\ stakeShort' = stakeShort /\ totalStaked' = totalStaked - a
        /\ stakeRewards' = stakeRewards /\ rewardsClaimed' = rewardsClaimed + p
        /\ balanceOf'["staking_pool"] = balanceOf["staking_pool"] - p - a
        /\ balanceOf["staking_pool"] \in Nat
    BY <1>2, <1>6, <1>7
  <2>4. p \in Nat /\ a \in Nat
    BY <1>2, <1>b
  <2>5. balanceOf'["staking_pool"] + stakeShort'
          = totalStaked' + stakeRewards' - rewardsClaimed'
    BY <2>1, <2>2, <2>3, <2>4
  <2> QED
    BY <2>5 DEF StakeBooks
<1>11. TokenTypeOK'
  BY <1>a, <1>2, <1>5 DEF TokenTypeOK
<1> QED
  BY <1>2, <1>6, <1>7, <1>10, <1>11 DEF PoolFine

LEMMA ClaimStep ==
  ASSUME PoolFine, Claim
  PROVE  PoolFine' /\ Kept("task_market") /\ Kept("internal_market")
<1>1. PICK u \in Users : SettledAt(u, staked[u]) /\ balanceOf' = Claimed(u)
  BY DEF Claim
<1>0. stakeShort' = stakeShort /\ totalStaked' = totalStaked
  BY DEF Claim
<1> DEFINE p == PendingReward(u)
           c == Claimed(u)
<1>a. TokenTypeOK /\ PoolTypeOK /\ StakeBooks
  BY DEF PoolFine
<1>b. /\ balanceOf["staking_pool"] \in Nat
      /\ staked[u] \in Nat /\ totalStaked \in Nat
      /\ totalStaked' = totalStaked - staked[u] + staked[u]
  BY <1>0, <1>a, PoolFacts, ContractAccounts DEF TokenTypeOK
<1>2. /\ p \in Nat /\ p <= balanceOf["staking_pool"]
      /\ rewardsClaimed' = rewardsClaimed + p /\ stakeRewards' = stakeRewards
      /\ taxRateBps' = taxRateBps /\ paused' = paused
      /\ stakeShort' \in Nat => PoolTypeOK'
      /\ RewardBooks'
  BY <1>1, <1>b, SettledFacts
<1>4. /\ c \in [Accounts -> Nat]
      /\ c["staking_pool"] = balanceOf["staking_pool"] - p
      /\ c["task_market"] = balanceOf["task_market"]
      /\ c["internal_market"] = balanceOf["internal_market"]
  BY <1>2, ClaimedFacts
<1> HIDE DEF p
<1>6. stakeShort' \in Nat
  BY <1>0, <1>a, PoolFacts
<1>7. /\ balanceOf'["staking_pool"] = balanceOf["staking_pool"] - p
      /\ Kept("task_market") /\ Kept("internal_market")
  BY <1>1, <1>4 DEF Kept
<1>10. StakeBooks'
  <2>1. balanceOf["staking_pool"] + stakeShort = totalStaked + stakeRewards - rewardsClaimed
    BY <1>a DEF StakeBooks
  <2>2. /\ stakeShort \in Nat /\ totalStaked \in Nat /\ stakeRewards \in Nat
        /\ rewardsClaimed \in Nat
    BY <1>a, PoolFacts
  <2> QED
    BY <1>0, <1>2, <1>b, <1>7, <2>1, <2>2 DEF StakeBooks
<1>11. TokenTypeOK'
  BY <1>a, <1>1, <1>2, <1>4 DEF TokenTypeOK
<1> QED
  BY <1>2, <1>6, <1>7, <1>10, <1>11 DEF PoolFine

LEMMA PoolStep ==
  ASSUME PoolFine, StakeNext
  PROVE  PoolFine' /\ Kept("task_market") /\ Kept("internal_market")
  BY DepositRewardStep, StakeStep, UnstakeStep, ClaimStep DEF StakeNext

-----------------------------------------------------------------------------
(* The escrow. *)

EscrowFine == TokenTypeOK /\ EscrowTypeOK /\ EscrowBooks

\* One task was paid out, to u.
PaidFor(u) ==
  \E t \in DOMAIN tasks :
    /\ tasks[t].lockedAmount > 0 /\ tasks'[t].lockedAmount = 0
    /\ \/ tasks'[t].status = "Cancelled" /\ u = tasks[t].publisher
       \/ tasks'[t].status = "Completed" /\ u = tasks[t].aiPoolRecipient /\ u \in verified

\* Whoever gets tokens from a step of the escrow is paid for a task.
EscrowPays ==
  balanceOf'["task_market"] < balanceOf["task_market"] =>
    \A u \in Users : balanceOf'[u] > balanceOf[u] => PaidFor(u)

\* A task has its bounty locked from its funding until it is paid or cancelled.
LockFollowsStatus(task) ==
  task.lockedAmount = IF task.status \in {"Funded", "Assigned", "Submitted"}
                      THEN task.bounty ELSE 0

LEMMA EscrowBooksParts ==
  EscrowBooks <=> /\ balanceOf["task_market"] + taskShort = Total(Locked)
                  /\ \A t \in DOMAIN tasks : LockFollowsStatus(tasks[t])
  BY DEF EscrowBooks, LockFollowsStatus

LEMMA EscrowFacts ==
  ASSUME EscrowTypeOK
  PROVE  /\ IsFiniteSet(TaskIds) /\ Locked \in [TaskIds -> Nat] /\ Total(Locked) \in Nat
         /\ \A t \in DOMAIN tasks :
              /\ t \in TaskIds /\ tasks[t] \in Tasks /\ Locked[t] = tasks[t].lockedAmount
              /\ tasks[t].publisher \in Users /\ tasks[t].bounty \in Nat
              /\ tasks[t].lockedAmount \in Nat
<1>1. \A t \in DOMAIN tasks :
        /\ t \in TaskIds /\ tasks[t] \in Tasks /\ Locked[t] = tasks[t].lockedAmount
        /\ tasks[t].publisher \in Users /\ tasks[t].bounty \in Nat
        /\ tasks[t].lockedAmount \in Nat
  BY TaskAssumption DEF EscrowTypeOK, Tasks, Locked
<1>2. Locked \in [TaskIds -> Nat]
  BY <1>1 DEF Locked
<1>3. IsFiniteSet(TaskIds)
  BY TaskAssumption
<1>4. Total(Locked) \in Nat
  BY <1>2, <1>3, TotalType
<1> QED
  BY <1>1, <1>2, <1>3, <1>4

\* When one task changes, so does what is locked.
LEMMA UpdateFacts ==
  ASSUME EscrowTypeOK, NEW t \in DOMAIN tasks, NEW task \in Tasks, Update(t, task),
         verified' \subseteq Users, taskShort' \in Nat
  PROVE  /\ EscrowTypeOK'
         /\ tasks'[t] = task
         /\ LockFollowsStatus(task) /\ (\A i \in DOMAIN tasks : LockFollowsStatus(tasks[i]))
              => \A i \in DOMAIN tasks' : LockFollowsStatus(tasks'[i])
         /\ Total(Locked') = Total(Locked) - tasks[t].lockedAmount + task.lockedAmount
<1>1. tasks' = [tasks EXCEPT ![t] = task] /\ tasks \in [DOMAIN tasks -> Tasks]
  BY DEF Update, EscrowTypeOK
<1>2. /\ DOMAIN tasks' = DOMAIN tasks /\ tasks'[t] = task
      /\ \A i \in DOMAIN tasks : i # t => tasks'[i] = tasks[i]
  BY <1>1
<1>3. EscrowTypeOK'
  <2>1. tasks' \in [DOMAIN tasks' -> Tasks]
    BY <1>1
  <2> QED
    BY <1>2, <2>1 DEF EscrowTypeOK
<1>4. task.lockedAmount \in Nat
  BY DEF Tasks
<1>5. Locked' = [Locked EXCEPT ![t] = task.lockedAmount]
  BY <1>2, EscrowFacts DEF Locked
<1>6. Total([Locked EXCEPT ![t] = task.lockedAmount])
        = Total(Locked) - Locked[t] + task.lockedAmount
  <2>1. IsFiniteSet(TaskIds) /\ Locked \in [TaskIds -> Nat] /\ t \in TaskIds
    BY EscrowFacts
  <2> QED
    BY <1>4, <2>1, TotalChange
<1>7. Locked[t] = tasks[t].lockedAmount
  BY EscrowFacts
<1>8. ASSUME \A i \in DOMAIN tasks : LockFollowsStatus(tasks[i]), LockFollowsStatus(task),
             NEW i \in DOMAIN tasks'
      PROVE  LockFollowsStatus(tasks'[i])
  BY <1>2, <1>8
<1> QED
  BY <1>2, <1>3, <1>5, <1>6, <1>7, <1>8

\* Whoever is not paid gets nothing.
LEMMA NobodyPaid ==
  ASSUME TokenTypeOK, balanceOf'["task_market"] = balanceOf["task_market"]
  PROVE  EscrowPays
<1>1. balanceOf["task_market"] \in Nat
  BY ContractAccounts, AccountFacts DEF TokenTypeOK
<1> QED
  BY <1>1 DEF EscrowPays

LEMMA FundTaskStep ==
  ASSUME EscrowFine, FundTask
  PROVE  EscrowFine' /\ EscrowPays /\ Kept("internal_market") /\ Kept("staking_pool")
<1>1. PICK t \in DOMAIN tasks :
        /\ tasks[t].status = "Open"
        /\ balanceOf[tasks[t].publisher] >= tasks[t].bounty
        /\ balanceOf' = Transfer(balanceOf, tasks[t].publisher, "task_market", tasks[t].bounty)
        /\ taskShort' = taskShort + Withheld(tasks[t].publisher, tasks[t].bounty)
        /\ Update(t, [tasks[t] EXCEPT !.lockedAmount = tasks[t].bounty, !.status = "Funded"])
        /\ taxRateBps' = taxRateBps /\ paused' = paused /\ verified' = verified
  BY DEF FundTask
<1> DEFINE p == tasks[t].publisher
           v == tasks[t].bounty
           w == Withheld(p, v)
           task == [tasks[t] EXCEPT !.lockedAmount = v, !.status = "Funded"]
<1>a. /\ TokenTypeOK /\ EscrowTypeOK
      /\ balanceOf["task_market"] + taskShort = Total(Locked)
      /\ \A i \in DOMAIN tasks : LockFollowsStatus(tasks[i])
  BY EscrowBooksParts DEF EscrowFine
<1>b. p \in Users /\ v \in Nat /\ tasks[t] \in Tasks
  BY <1>a, EscrowFacts
<1>c. balanceOf \in [Accounts -> Nat] /\ taskShort \in Nat /\ verified \subseteq Users
  BY <1>a DEF TokenTypeOK, EscrowTypeOK
<1>2. /\ task \in Tasks /\ LockFollowsStatus(task) /\ task.lockedAmount = v
      /\ tasks[t].lockedAmount = 0
  <2>1. tasks[t].bounty \in Bounties
    BY <1>b DEF Tasks
  <2>2. task \in Tasks /\ task.lockedAmount = v /\ task.status = "Funded" /\ task.bounty = v
    BY <1>b, <2>1 DEF Tasks, Statuses
  <2>3. LockFollowsStatus(tasks[t])
    BY <1>a
  <2> QED
    BY <1>1, <2>2, <2>3 DEF LockFollowsStatus
<1>3. w \in Nat /\ w <= v
  BY <1>a, <1>b, WithheldBounds
<1>4. /\ balanceOf' \in [Accounts -> Nat]
      /\ \A x \in Accounts \ {"treasury"} :
           balanceOf'[x] = balanceOf[x] - (IF x = p THEN v ELSE 0)
                           + (IF x = "task_market" THEN v - w ELSE 0)
  <2>1. p \in Accounts /\ "task_market" \in Accounts /\ v <= balanceOf[p]
    BY <1>1, <1>b, <1>c, ContractAccounts
  <2> QED
    BY <1>1, <1>a, <1>b, <2>1, PayGross
<1>5. taskShort' = taskShort + w /\ Update(t, task)
  BY <1>1
<1> HIDE DEF p, v, w, task
<1>6. /\ balanceOf'["task_market"] = balanceOf["task_market"] + (v - w)
      /\ balanceOf["task_market"] \in Nat
      /\ Kept("internal_market") /\ Kept("staking_pool")
  BY <1>b, <1>c, <1>3, <1>4, ContractAccounts DEF Kept
<1>7. /\ EscrowTypeOK'
      /\ \A i \in DOMAIN tasks' : LockFollowsStatus(tasks'[i])
      /\ Total(Locked') = Total(Locked) - tasks[t].lockedAmount + task.lockedAmount
  <2>1. verified' \subseteq Users /\ taskShort' \in Nat
    BY <1>1, <1>c, <1>3, <1>5
  <2> QED
    BY <1>a, <1>2, <1>5, <2>1, UpdateFacts
<1>8. balanceOf'["task_market"] + taskShort' = Total(Locked')
  <2>1. Total(Locked) \in Nat
    BY <1>a, EscrowFacts
  <2> QED
    BY <1>a, <1>b, <1>c, <1>2, <1>3, <1>5, <1>6, <1>7, <2>1
<1>9. EscrowBooks'
  BY <1>7, <1>8 DEF EscrowBooks, LockFollowsStatus
<1>10. EscrowPays
  BY <1>b, <1>3, <1>6 DEF EscrowPays
<1>11. TokenTypeOK'
  BY <1>a, <1>1, <1>4 DEF TokenTypeOK
<1> QED
  BY <1>6, <1>7, <1>9, <1>10, <1>11 DEF EscrowFine

LEMMA ApproveTaskStep ==
  ASSUME EscrowFine, ApproveTask
  PROVE  EscrowFine' /\ EscrowPays /\ Kept("internal_market") /\ Kept("staking_pool")
<1>1. PICK t \in DOMAIN tasks :
        /\ tasks[t].lockedAmount > 0
        /\ tasks[t].aiPoolRecipient \in verified
        /\ balanceOf["task_market"] >= tasks[t].lockedAmount
        /\ balanceOf' = Transfer(CollectTax(balanceOf, "task_market", tasks[t].lockedAmount),
                                 "task_market", tasks[t].aiPoolRecipient,
                                 tasks[t].lockedAmount - Fee(tasks[t].lockedAmount))
        /\ Update(t, [tasks[t] EXCEPT !.lockedAmount = 0, !.status = "Completed"])
        /\ taxRateBps' = taxRateBps /\ paused' = paused /\ verified' = verified
        /\ taskShort' = taskShort
  BY DEF ApproveTask
<1> DEFINE r == tasks[t].aiPoolRecipient
           g == tasks[t].lockedAmount
           task == [tasks[t] EXCEPT !.lockedAmount = 0, !.status = "Completed"]
<1>a. /\ TokenTypeOK /\ EscrowTypeOK
      /\ balanceOf["task_market"] + taskShort = Total(Locked)
      /\ \A i \in DOMAIN tasks : LockFollowsStatus(tasks[i])
  BY EscrowBooksParts DEF EscrowFine
<1>b. g \in Nat /\ tasks[t] \in Tasks
  BY <1>a, EscrowFacts
<1>c. /\ balanceOf \in [Accounts -> Nat] /\ taskShort \in Nat /\ verified \subseteq Users
      /\ r \in Users
  BY <1>1, <1>a DEF TokenTypeOK, EscrowTypeOK
<1>2. /\ task \in Tasks /\ LockFollowsStatus(task) /\ task.lockedAmount = 0
      /\ task.status = "Completed"
  BY <1>b DEF Tasks, Statuses, LockFollowsStatus
<1>4. /\ balanceOf' \in [Accounts -> Nat]
      /\ \A x \in Accounts \ {"treasury"} :
           balanceOf'[x] = balanceOf[x] - (IF x = "task_market" THEN g ELSE 0)
              + (IF x = r THEN (g - Fee(g)) - Withheld("task_market", g - Fee(g)) ELSE 0)
  <2>1. /\ r \in Accounts /\ "task_market" \in Accounts \ {"treasury"}
        /\ g <= balanceOf["task_market"]
    BY <1>1, <1>b, <1>c, ContractAccounts
  <2> QED
    BY <1>1, <1>a, <1>b, <2>1, PayNet
<1>5. Update(t, task)
  BY <1>1
<1> HIDE DEF r, g, task
<1>6. /\ balanceOf'["task_market"] = balanceOf["task_market"] - g
      /\ balanceOf["task_market"] \in Nat
      /\ Kept("internal_market") /\ Kept("staking_pool")
  BY <1>b, <1>c, <1>4, ContractAccounts DEF Kept
<1>7. /\ EscrowTypeOK' /\ tasks'[t] = task
      /\ \A i \in DOMAIN tasks' : LockFollowsStatus(tasks'[i])
      /\ Total(Locked') = Total(Locked) - g + task.lockedAmount
  <2>1. verified' \subseteq Users /\ taskShort' \in Nat
    BY <1>1, <1>c
  <2> QED
    BY <1>a, <1>2, <1>5, <2>1, UpdateFacts DEF g
<1>8. balanceOf'["task_market"] + taskShort' = Total(Locked')
  <2>1. Total(Locked) \in Nat /\ taskShort' = taskShort
    BY <1>1, <1>a, EscrowFacts
  <2> QED
    BY <1>a, <1>b, <1>c, <1>2, <1>6, <1>7, <2>1
<1>9. EscrowBooks'
  BY <1>7, <1>8 DEF EscrowBooks, LockFollowsStatus
<1>10. EscrowPays
  <2> SUFFICES ASSUME NEW u \in Users, balanceOf'[u] > balanceOf[u] PROVE PaidFor(u)
    BY DEF EscrowPays
  <2>1. u = r
    <3>1. u \in Accounts \ {"treasury", "task_market"} /\ balanceOf[u] \in Nat
      BY <1>c, ContractAccounts
    <3> QED
      BY <1>4, <3>1
  <2>2. tasks'[t].lockedAmount = 0 /\ tasks'[t].status = "Completed" /\ u \in verified
    BY <1>1, <1>2, <1>7, <2>1 DEF r
  <2> QED
    BY <1>1, <2>1, <2>2 DEF PaidFor, r
<1>11. TokenTypeOK'
  BY <1>a, <1>1, <1>4 DEF TokenTypeOK
<1> QED
  BY <1>6, <1>7, <1>9, <1>10, <1>11 DEF EscrowFine

LEMMA CancelTaskStep ==
  ASSUME EscrowFine, CancelTask
  PROVE  EscrowFine' /\ EscrowPays /\ Kept("internal_market") /\ Kept("staking_pool")
<1>1. PICK t \in DOMAIN tasks :
        /\ balanceOf["task_market"] >= tasks[t].lockedAmount
        /\ balanceOf' = Transfer(balanceOf, "task_market", tasks[t].publisher,
                                 tasks[t].lockedAmount)
        /\ Update(t, [tasks[t] EXCEPT !.lockedAmount = 0, !.status = "Cancelled"])
        /\ taxRateBps' = taxRateBps /\ paused' = paused /\ verified' = verified
        /\ taskShort' = taskShort
  BY DEF CancelTask
<1> DEFINE p == tasks[t].publisher
           g == tasks[t].lockedAmount
           task == [tasks[t] EXCEPT !.lockedAmount = 0, !.status = "Cancelled"]
<1>a. /\ TokenTypeOK /\ EscrowTypeOK
      /\ balanceOf["task_market"] + taskShort = Total(Locked)
      /\ \A i \in DOMAIN tasks : LockFollowsStatus(tasks[i])
  BY EscrowBooksParts DEF EscrowFine
<1>b. p \in Users /\ g \in Nat /\ tasks[t] \in Tasks
  BY <1>a, EscrowFacts
<1>c. balanceOf \in [Accounts -> Nat] /\ taskShort \in Nat /\ verified \subseteq Users
  BY <1>a DEF TokenTypeOK, EscrowTypeOK
<1>2. /\ task \in Tasks /\ LockFollowsStatus(task) /\ task.lockedAmount = 0
      /\ task.status = "Cancelled"
  BY <1>b DEF Tasks, Statuses, LockFollowsStatus
<1>4. /\ balanceOf' \in [Accounts -> Nat]
      /\ \A x \in Accounts \ {"treasury"} :
           balanceOf'[x] = balanceOf[x] - (IF x = "task_market" THEN g ELSE 0)
                           + (IF x = p THEN g - Withheld("task_market", g) ELSE 0)
  <2>1. p \in Accounts /\ "task_market" \in Accounts /\ g <= balanceOf["task_market"]
    BY <1>1, <1>b, <1>c, ContractAccounts
  <2> QED
    BY <1>1, <1>a, <1>b, <2>1, PayGross
<1>5. Update(t, task)
  BY <1>1
<1> HIDE DEF p, g, task
<1>6. /\ balanceOf'["task_market"] = balanceOf["task_market"] - g
      /\ balanceOf["task_market"] \in Nat
      /\ Kept("internal_market") /\ Kept("staking_pool")
  BY <1>b, <1>c, <1>4, ContractAccounts DEF Kept
<1>7. /\ EscrowTypeOK' /\ tasks'[t] = task
      /\ \A i \in DOMAIN tasks' : LockFollowsStatus(tasks'[i])
      /\ Total(Locked') = Total(Locked) - g + task.lockedAmount
  <2>1. verified' \subseteq Users /\ taskShort' \in Nat
    BY <1>1, <1>c
  <2> QED
    BY <1>a, <1>2, <1>5, <2>1, UpdateFacts DEF g
<1>8. balanceOf'["task_market"] + taskShort' = Total(Locked')
  <2>1. Total(Locked) \in Nat /\ taskShort' = taskShort
    BY <1>1, <1>a, EscrowFacts
  <2> QED
    BY <1>a, <1>b, <1>c, <1>2, <1>6, <1>7, <2>1
<1>9. EscrowBooks'
  BY <1>7, <1>8 DEF EscrowBooks, LockFollowsStatus
<1>10. EscrowPays
  <2> SUFFICES ASSUME balanceOf'["task_market"] < balanceOf["task_market"],
                      NEW u \in Users, balanceOf'[u] > balanceOf[u]
               PROVE  PaidFor(u)
    BY DEF EscrowPays
  <2>1. u = p
    <3>1. u \in Accounts \ {"treasury", "task_market"} /\ balanceOf[u] \in Nat
      BY <1>c, ContractAccounts
    <3> QED
      BY <1>4, <3>1
  <2>2. g > 0
    BY <1>b, <1>6
  <2>3. tasks'[t].lockedAmount = 0 /\ tasks'[t].status = "Cancelled"
    BY <1>2, <1>7
  <2> QED
    BY <2>1, <2>2, <2>3 DEF PaidFor, p, g
<1>11. TokenTypeOK'
  BY <1>a, <1>1, <1>4 DEF TokenTypeOK
<1> QED
  BY <1>6, <1>7, <1>9, <1>10, <1>11 DEF EscrowFine

\* The other operations move no tokens and lock nothing.
LEMMA OtherTaskSteps ==
  ASSUME EscrowFine, VerifyMachine \/ RevokeMachine \/ PostTask \/ AssignWorker \/ SubmitWork
  PROVE  EscrowFine' /\ UNCHANGED <<balanceOf, taxRateBps, paused>>
<1>a. /\ TokenTypeOK /\ EscrowTypeOK
      /\ balanceOf["task_market"] + taskShort = Total(Locked)
      /\ \A i \in DOMAIN tasks : LockFollowsStatus(tasks[i])
  BY EscrowBooksParts DEF EscrowFine
<1>b. /\ DOMAIN tasks \subseteq TaskIds /\ tasks \in [DOMAIN tasks -> Tasks]
      /\ verified \subseteq Users /\ taskShort \in Nat
  BY <1>a DEF EscrowTypeOK
<1>1. UNCHANGED <<balanceOf, taxRateBps, paused>> /\ taskShort' = taskShort
  BY DEF VerifyMachine, RevokeMachine, PostTask, AssignWorker, SubmitWork, tokenVars
<1>2. TokenTypeOK'
  BY <1>1, <1>a DEF TokenTypeOK
<1>3. SUFFICES /\ EscrowTypeOK' /\ Total(Locked') = Total(Locked)
               /\ \A i \in DOMAIN tasks' : LockFollowsStatus(tasks'[i])
  BY <1>1, <1>2, <1>a DEF EscrowFine, EscrowBooks, LockFollowsStatus
<1>4. CASE VerifyMachine \/ RevokeMachine
  <2>1. tasks' = tasks /\ verified' \subseteq Users
    BY <1>4, <1>b DEF VerifyMachine, RevokeMachine
  <2>2. Locked' = Locked
    BY <2>1 DEF Locked
  <2> QED
    BY <1>1, <1>a, <1>b, <2>1, <2>2 DEF EscrowTypeOK
<1>5. CASE PostTask
  <2>1. PICK t \in TaskIds \ DOMAIN tasks, u \in Users, b \in Bounties :
          tasks' = [i \in DOMAIN tasks \cup {t} |->
                      IF i \in DOMAIN tasks THEN tasks[i]
                      ELSE [publisher |-> u, bounty |-> b, lockedAmount |-> 0,
                            aiPoolRecipient |-> NoUser, status |-> "Open"]]
    BY <1>5 DEF PostTask
  <2> DEFINE task == [publisher |-> u, bounty |-> b, lockedAmount |-> 0,
                      aiPoolRecipient |-> NoUser, status |-> "Open"]
  <2>2. task \in Tasks /\ LockFollowsStatus(task) /\ task.lockedAmount = 0
    BY DEF Tasks, Statuses, LockFollowsStatus
  <2>3. /\ DOMAIN tasks' = DOMAIN tasks \cup {t} /\ tasks'[t] = task
        /\ \A i \in DOMAIN tasks : tasks'[i] = tasks[i]
    BY <2>1
  <2> HIDE DEF task
  <2>4. tasks' \in [DOMAIN tasks' -> Tasks]
    <3>1. \A i \in DOMAIN tasks' : tasks'[i] \in Tasks
      BY <1>b, <2>2, <2>3
    <3>2. tasks' = [i \in DOMAIN tasks' |-> tasks'[i]]
      BY <2>1
    <3> QED
      BY <3>1, <3>2
  <2>5. verified' = verified
    BY <1>5 DEF PostTask
  <2>6. EscrowTypeOK'
    BY <1>1, <1>b, <2>3, <2>4, <2>5 DEF EscrowTypeOK
  <2>7. Locked' = Locked
    <3>1. \A i \in TaskIds : (IF i \in DOMAIN tasks' THEN tasks'[i].lockedAmount ELSE 0)
                             = (IF i \in DOMAIN tasks THEN tasks[i].lockedAmount ELSE 0)
      BY <2>2, <2>3
    <3> QED
      BY <3>1 DEF Locked
  <2>8. \A i \in DOMAIN tasks' : LockFollowsStatus(tasks'[i])
    BY <1>a, <2>2, <2>3
  <2> QED
    BY <2>6, <2>7, <2>8
<1>6. CASE AssignWorker \/ SubmitWork
  <2>1. PICK t \in DOMAIN tasks, r \in Users \cup {NoUser}, s \in {"Assigned", "Submitted"} :
          /\ tasks[t].status \in {"Funded", "Assigned"}
          /\ Update(t, [tasks[t] EXCEPT !.aiPoolRecipient = r, !.status = s])
    <3>1. CASE AssignWorker
      <4>1. PICK t \in DOMAIN tasks, r \in verified :
              /\ tasks[t].status = "Funded"
              /\ Update(t, [tasks[t] EXCEPT !.aiPoolRecipient = r, !.status = "Assigned"])
        BY <3>1 DEF AssignWorker
      <4>2. r \in Users
        BY <1>b
      <4> QED
        BY <4>1, <4>2
    <3>2. CASE SubmitWork
      <4>1. PICK t \in DOMAIN tasks :
              /\ tasks[t].status = "Assigned"
              /\ Update(t, [tasks[t] EXCEPT !.status = "Submitted"])
        BY <3>2 DEF SubmitWork
      <4>2. tasks[t] \in Tasks
        BY <1>b
      <4> DEFINE r == tasks[t].aiPoolRecipient
      <4>3. /\ r \in Users \cup {NoUser}
            /\ [tasks[t] EXCEPT !.status = "Submitted"]
                 = [tasks[t] EXCEPT !.aiPoolRecipient = r, !.status = "Submitted"]
        BY <4>2 DEF Tasks
      <4> HIDE DEF r
      <4> QED
        BY <4>1, <4>3
    <3> QED
      BY <1>6, <3>1, <3>2
  <2> DEFINE task == [tasks[t] EXCEPT !.aiPoolRecipient = r, !.status = s]
  <2>2. tasks[t] \in Tasks /\ LockFollowsStatus(tasks[t])
    BY <1>a, <1>b
  <2>3. task \in Tasks /\ task.lockedAmount = tasks[t].lockedAmount
    BY <2>2 DEF Tasks, Statuses
  <2>4. LockFollowsStatus(task)
    <3>1. task.status = s /\ task.bounty = tasks[t].bounty
      BY <2>2 DEF Tasks
    <3> QED
      BY <2>1, <2>2, <2>3, <3>1 DEF LockFollowsStatus
  <2>5. Update(t, task)
    BY <2>1
  <2>6. verified' \subseteq Users /\ taskShort' \in Nat
    BY <1>1, <1>6, <1>b DEF AssignWorker, SubmitWork
  <2> HIDE DEF task
  <2>7. /\ EscrowTypeOK'
        /\ \A i \in DOMAIN tasks' : LockFollowsStatus(tasks'[i])
        /\ Total(Locked') = Total(Locked) - tasks[t].lockedAmount + task.lockedAmount
    BY <1>a, <2>3, <2>4, <2>5, <2>6, UpdateFacts
  <2>8. Total(Locked) \in Nat /\ tasks[t].lockedAmount \in Nat
    BY <1>a, EscrowFacts
  <2> QED
    BY <2>3, <2>7, <2>8
<1> QED
  BY <1>4, <1>5, <1>6

LEMMA EscrowStep ==
  ASSUME EscrowFine, TaskNext
  PROVE  EscrowFine' /\ EscrowPays /\ Kept("internal_market") /\ Kept("staking_pool")
<1>1. CASE VerifyMachine \/ RevokeMachine \/ PostTask \/ AssignWorker \/ SubmitWork
  <2>1. EscrowFine' /\ balanceOf' = balanceOf
    BY <1>1, OtherTaskSteps
  <2>2. TokenTypeOK
    BY DEF EscrowFine
  <2> QED
    BY <2>1, <2>2, NobodyPaid DEF Kept
<1> QED
  BY <1>1, FundTaskStep, ApproveTaskStep, CancelTaskStep DEF TaskNext

-----------------------------------------------------------------------------
(* The whole. *)

\* The admins change the rate and move the treasury's tokens.
LEMMA AdminStep ==
  ASSUME TokenTypeOK, SetTaxRate \/ Unpause \/ WithdrawOperatingExpenses(MarketAmounts)
  PROVE  TokenTypeOK' /\ Kept("internal_market") /\ Kept("task_market") /\ Kept("staking_pool")
<1>1. CASE SetTaxRate \/ Unpause
  BY <1>1 DEF SetTaxRate, Unpause, TokenTypeOK, Kept
<1>2. CASE WithdrawOperatingExpenses(MarketAmounts)
  <2>1. PICK u \in Users, a \in MarketAmounts :
          /\ \/ balanceOf' = balanceOf
             \/ /\ balanceOf["treasury"] >= a
                /\ balanceOf' = Transfer(balanceOf, "treasury", u, a)
          /\ paused' \in BOOLEAN
    <3>1. PICK u \in Users, a \in MarketAmounts :
            IF balanceOf["treasury"] > 0
               /\ a * 10000 > balanceOf["treasury"] * outflowBpsThreshold
            THEN paused' = TRUE /\ balanceOf' = balanceOf
            ELSE /\ balanceOf["treasury"] >= a
                 /\ balanceOf' = Transfer(balanceOf, "treasury", u, a)
                 /\ paused' = FALSE
      BY <1>2 DEF WithdrawOperatingExpenses
    <3>2. \/ paused' = TRUE /\ balanceOf' = balanceOf
          \/ /\ balanceOf["treasury"] >= a
             /\ balanceOf' = Transfer(balanceOf, "treasury", u, a)
             /\ paused' = FALSE
      BY <3>1
    <3> QED
      BY <3>2
  <2>2. taxRateBps' = taxRateBps
    BY <1>2 DEF WithdrawOperatingExpenses
  <2>3. CASE balanceOf' = balanceOf
    BY <2>1, <2>2, <2>3 DEF TokenTypeOK, Kept
  <2>4. CASE balanceOf["treasury"] >= a /\ balanceOf' = Transfer(balanceOf, "treasury", u, a)
    <3>1. a \in Nat /\ balanceOf \in [Accounts -> Nat]
      BY LedgerAssumption DEF TokenTypeOK
    <3>2. u \in Accounts /\ "treasury" \in Accounts /\ a <= balanceOf["treasury"]
      BY <2>4, <3>1, AccountFacts
    <3>3. /\ balanceOf' \in [Accounts -> Nat]
          /\ \A x \in Accounts \ {"treasury"} :
               balanceOf'[x] = balanceOf[x] - (IF x = "treasury" THEN a ELSE 0)
                               + (IF x = u THEN a - Withheld("treasury", a) ELSE 0)
      BY <2>4, <3>1, <3>2, PayGross
    <3>4. Kept("internal_market") /\ Kept("task_market") /\ Kept("staking_pool")
      BY <3>1, <3>3, ContractAccounts DEF Kept
    <3> QED
      BY <2>1, <2>2, <3>3, <3>4 DEF TokenTypeOK
  <2> QED
    BY <2>1, <2>3, <2>4
<1> QED
  BY <1>1, <1>2

\* A step of the others leaves a component's books alone.
LEMMA MarketFrame ==
  ASSUME MarketFine, TokenTypeOK', Kept("internal_market"), UNCHANGED marketVars
  PROVE  MarketFine'
<1>1. /\ aitBalance' = aitBalance /\ rewarded' = rewarded /\ claimed' = claimed
      /\ marketShort' = marketShort /\ vstkBalance' = vstkBalance /\ totalVstk' = totalVstk
      /\ accAitPerShare' = accAitPerShare /\ rewardDebt' = rewardDebt /\ issues' = issues
      /\ resold' = resold
  BY DEF marketVars, moneyVars, shareVars
<1>2. LedgerTypeOK' /\ DividendBooks'
  BY <1>1 DEF MarketFine, LedgerTypeOK, DividendBooks, Entitled
<1>3. MarketBooks'
  BY <1>1 DEF MarketFine, MarketBooks, Kept
<1> QED
  BY <1>2, <1>3 DEF MarketFine

LEMMA PoolFrame ==
  ASSUME PoolFine, TokenTypeOK', Kept("staking_pool"), UNCHANGED stakeVars
  PROVE  PoolFine'
<1>1. /\ staked' = staked /\ totalStaked' = totalStaked /\ stakeDebt' = stakeDebt
      /\ accRewardPerShare' = accRewardPerShare /\ stakeRewards' = stakeRewards
      /\ rewardsClaimed' = rewardsClaimed /\ stakeShort' = stakeShort
      /\ settlements' = settlements
  BY DEF stakeVars
<1>2. PoolTypeOK' /\ RewardBooks'
  BY <1>1 DEF PoolFine, PoolTypeOK, RewardBooks, Accumulated
<1>3. StakeBooks'
  BY <1>1 DEF PoolFine, StakeBooks, Kept
<1> QED
  BY <1>2, <1>3 DEF PoolFine

LEMMA EscrowFrame ==
  ASSUME EscrowFine, TokenTypeOK', Kept("task_market"), UNCHANGED taskVars
  PROVE  EscrowFine' /\ EscrowPays
<1>1. tasks' = tasks /\ verified' = verified /\ taskShort' = taskShort
  BY DEF taskVars
<1>2. EscrowTypeOK' /\ EscrowBooks'
  BY <1>1 DEF EscrowFine, EscrowTypeOK, EscrowBooks, Locked, Kept
<1>3. EscrowPays
  BY NobodyPaid DEF EscrowFine, Kept
<1> QED
  BY <1>2, <1>3 DEF EscrowFine

\* The inductive invariant.
IInv == MarketFine /\ PoolFine /\ EscrowFine /\ txs \in Nat

LEMMA InitIInv == Init => IInv
<1> SUFFICES ASSUME Init PROVE IInv
  OBVIOUS
<1>0. IsFiniteSet(Users) /\ IsFiniteSet(TaskIds) /\ ONE \in Nat \ {0} /\ Funds \in Nat
  BY UsersFinite, UnitPositive, TaskAssumption, ContractsAssumption
<1> DEFINE z == [u \in Users |-> 0]
<1>1. Total(z) = 0
  BY <1>0, TotalZero
<1>2. z \in [Users -> Nat] /\ \A u \in Users : z[u] = 0
  OBVIOUS
<1> HIDE DEF z
<1>3. TokenTypeOK
  BY <1>0 DEF Init, TokenInit, TokenTypeOK
<1>4. balanceOf["internal_market"] = 0 /\ balanceOf["task_market"] = 0
      /\ balanceOf["staking_pool"] = 0
  BY ContractAccounts, AccountFacts DEF Init, TokenInit
<1>5. MarketFine
  <2>1. /\ aitBalance = z /\ vstkBalance = z /\ rewardDebt = z
        /\ totalVstk = 0 /\ accAitPerShare = 0 /\ rewarded = 0 /\ claimed = 0
        /\ marketShort = 0 /\ issues = 0 /\ resold = FALSE
    BY DEF Init, LedgerInit, z
  <2>2. LedgerTypeOK
    <3>1. {accAitPerShare, rewarded, claimed, marketShort, issues} \subseteq Nat
      BY <2>1
    <3>2. resold \in BOOLEAN /\ totalVstk = Total(vstkBalance)
      BY <1>1, <2>1
    <3>3. aitBalance \in [Users -> Nat] /\ vstkBalance \in [Users -> Nat]
      BY <1>2, <2>1
    <3>4. rewardDebt \in [Users -> Nat]
      BY <1>2, <2>1
    <3> QED
      BY <3>1, <3>2, <3>3, <3>4 DEF LedgerTypeOK
  <2>3. MarketBooks
    BY <1>1, <1>4, <2>1 DEF MarketBooks
  <2>4. DividendBooks
    <3>1. \A u \in Users : vstkBalance[u] \in Nat
      BY <1>2, <2>1
    <3>2. \A u \in Users : Entitled(vstkBalance[u]) \in Nat
      BY <2>2, <3>1, EntitledFacts
    <3> QED
      BY <1>0, <1>1, <1>2, <2>1, <3>2 DEF DividendBooks
  <2> QED
    BY <1>3, <2>2, <2>3, <2>4 DEF MarketFine
<1>6. PoolFine
  <2>1. /\ staked = z /\ stakeDebt = z
        /\ totalStaked = 0 /\ accRewardPerShare = 0 /\ stakeRewards = 0
        /\ rewardsClaimed = 0 /\ stakeShort = 0 /\ settlements = 0
    BY DEF Init, StakeInit, z
  <2>2. PoolTypeOK
    BY <1>1, <1>2, <2>1 DEF PoolTypeOK
  <2>3. StakeBooks
    BY <1>4, <2>1 DEF StakeBooks
  <2>4. RewardBooks
    <3>1. \A u \in Users : staked[u] \in Nat
      BY <1>2, <2>1
    <3>2. \A u \in Users : Accumulated(staked[u]) \in Nat
      BY <2>2, <3>1, AccumulatedFacts
    <3> QED
      BY <1>0, <1>1, <1>2, <2>1, <3>2 DEF RewardBooks
  <2> QED
    BY <1>3, <2>2, <2>3, <2>4 DEF PoolFine
<1>7. EscrowFine
  <2>1. DOMAIN tasks = {} /\ tasks = [t \in {} |-> NoUser] /\ verified = {} /\ taskShort = 0
    BY DEF Init, TaskInit
  <2>2. EscrowTypeOK
    <3>1. tasks \in [{} -> Tasks]
      BY <2>1
    <3> QED
      BY <2>1, <3>1 DEF EscrowTypeOK
  <2>3. Total(Locked) = 0
    <3>1. Locked = [t \in TaskIds |-> 0]
      BY <2>1 DEF Locked
    <3> QED
      BY <1>0, <3>1, TotalZero
  <2>4. EscrowBooks
    BY <1>4, <2>1, <2>3 DEF EscrowBooks
  <2> QED
    BY <1>3, <2>2, <2>4 DEF EscrowFine
<1>8. txs \in Nat
  BY DEF Init
<1> QED
  BY <1>5, <1>6, <1>7, <1>8 DEF IInv

LEMMA NextIInv ==
  ASSUME IInv, [Next]_vars
  PROVE  IInv' /\ EscrowPays
<1>a. MarketFine /\ PoolFine /\ EscrowFine /\ TokenTypeOK
  BY DEF IInv, MarketFine
<1>b. txs' \in Nat
  BY DEF IInv, Next, vars
<1>1. CASE MarketNext /\ UNCHANGED <<taskVars, stakeVars>>
  <2>1. MarketFine' /\ Kept("task_market") /\ Kept("staking_pool")
    BY <1>1, <1>a, MarketStep
  <2>2. TokenTypeOK'
    BY <2>1 DEF MarketFine
  <2> QED
    BY <1>1, <1>a, <1>b, <2>1, <2>2, PoolFrame, EscrowFrame DEF IInv
<1>2. CASE TaskNext /\ UNCHANGED <<marketVars, stakeVars>>
  <2>1. EscrowFine' /\ EscrowPays /\ Kept("internal_market") /\ Kept("staking_pool")
    BY <1>2, <1>a, EscrowStep
  <2>2. TokenTypeOK'
    BY <2>1 DEF EscrowFine
  <2> QED
    BY <1>2, <1>a, <1>b, <2>1, <2>2, MarketFrame, PoolFrame DEF IInv
<1>3. CASE StakeNext /\ UNCHANGED <<marketVars, taskVars>>
  <2>1. PoolFine' /\ Kept("task_market") /\ Kept("internal_market")
    BY <1>3, <1>a, PoolStep
  <2>2. TokenTypeOK'
    BY <2>1 DEF PoolFine
  <2> QED
    BY <1>3, <1>a, <1>b, <2>1, <2>2, MarketFrame, EscrowFrame DEF IInv
<1>4. CASE /\ SetTaxRate \/ Unpause \/ WithdrawOperatingExpenses(MarketAmounts)
           /\ UNCHANGED <<marketVars, taskVars, stakeVars>>
  <2>1. TokenTypeOK' /\ Kept("internal_market") /\ Kept("task_market") /\ Kept("staking_pool")
    BY <1>4, <1>a, AdminStep
  <2> QED
    BY <1>4, <1>a, <1>b, <2>1, MarketFrame, EscrowFrame, PoolFrame DEF IInv
<1>5. CASE UNCHANGED vars
  <2>1. /\ UNCHANGED <<marketVars, taskVars, stakeVars>>
        /\ balanceOf' = balanceOf /\ taxRateBps' = taxRateBps /\ paused' = paused
    BY <1>5 DEF vars, tokenVars
  <2>2. TokenTypeOK' /\ Kept("internal_market") /\ Kept("task_market") /\ Kept("staking_pool")
    BY <1>a, <2>1 DEF TokenTypeOK, Kept
  <2> QED
    BY <1>a, <1>b, <2>1, <2>2, MarketFrame, EscrowFrame, PoolFrame DEF IInv
<1> QED
  BY <1>1, <1>2, <1>3, <1>4, <1>5 DEF Next

\* Market, pool and escrow are well typed and keep their books in every transaction.
THEOREM Invariance == Spec => []IInv
<1>1. IInv /\ [Next]_vars => IInv'
  BY NextIInv
<1> QED
  BY InitIInv, <1>1, PTL DEF Spec

\* Nothing users have is ever negative, and the totals that the contracts keep are
\* the sums of what users have.
THEOREM TypeCorrect == Spec => []TypeOK
<1>1. IInv => TypeOK
  BY DEF IInv, TypeOK, MarketFine, PoolFine, EscrowFine
<1> QED
  BY Invariance, <1>1, PTL

\* The market's tokens account for its users' balances and for the unclaimed profit.
THEOREM MarketKeepsBooks == Spec => []MarketBooks
<1>1. IInv => MarketBooks
  BY DEF IInv, MarketFine
<1> QED
  BY Invariance, <1>1, PTL

\* The escrow's tokens account for what its tasks have locked.
THEOREM EscrowKeepsBooks == Spec => []EscrowBooks
<1>1. IInv => EscrowBooks
  BY DEF IInv, EscrowFine
<1> QED
  BY Invariance, <1>1, PTL

\* The pool's tokens account for the stakes and the unclaimed rewards.
THEOREM PoolKeepsBooks == Spec => []StakeBooks
<1>1. IInv => StakeBooks
  BY DEF IInv, PoolFine
<1> QED
  BY Invariance, <1>1, PTL

LEMMA ProductCancel ==
  ASSUME NEW o \in Nat \ {0}, NEW x \in Int, NEW y \in Int, o * x <= o * y
  PROVE  x <= y
<1> SUFFICES ASSUME x >= y + 1 PROVE FALSE
  OBVIOUS
<1>1. x - y - 1 \in Nat
  OBVIOUS
<1>2. o * (x - y - 1) >= 0
  BY <1>1
<1>3. o * (x - y - 1) = o * x - o * y - o
  OBVIOUS
<1> QED
  BY <1>2, <1>3

\* What all holders may claim is what their shares are worth less their debts; the
\* floors of the parts do not exceed the whole.
LEMMA ClaimsBound ==
  ASSUME NEW shares \in [Users -> Nat], NEW debt \in [Users -> Nat], NEW acc \in Nat,
         NEW paid \in Nat, NEW L \in Nat, NEW pending,
         \A u \in Users : pending[u] = (shares[u] * acc) \div ONE - debt[u],
         ONE * paid + Total(shares) * acc <= ONE * (L + Total(debt))
  PROVE  paid + SumOver(pending, Users) <= L
<1> DEFINE worth == [u \in Users |-> (shares[u] * acc) \div ONE]
           scaled == [u \in Users |-> ONE * worth[u]]
           full == [u \in Users |-> acc * shares[u]]
<1>1. IsFiniteSet(Users) /\ ONE \in Nat \ {0}
  BY UsersFinite, UnitPositive
<1>2. \A u \in Users : /\ shares[u] \in Nat /\ debt[u] \in Nat /\ worth[u] \in Nat
                       /\ full[u] \in Nat /\ scaled[u] \in Nat /\ scaled[u] <= full[u]
                       /\ pending[u] = worth[u] - debt[u]
  <2> TAKE u \in Users
  <2>1. shares[u] \in Nat /\ debt[u] \in Nat
    OBVIOUS
  <2> DEFINE v == shares[u]
  <2> HIDE DEF v
  <2>2. v \in Nat /\ v * acc \in Nat /\ v * acc = acc * v
    BY <2>1 DEF v
  <2>3. (v * acc) \div ONE \in Nat /\ ONE * ((v * acc) \div ONE) <= v * acc
    BY <1>1, <2>2, Quotient
  <2>4. ONE * ((v * acc) \div ONE) \in Nat
    BY <1>1, <2>3
  <2>5. worth[u] = (v * acc) \div ONE /\ full[u] = acc * v /\ scaled[u] = ONE * worth[u]
    BY DEF v
  <2> QED
    BY <2>1, <2>2, <2>3, <2>4, <2>5
<1>3. \A u \in Users : scaled[u] = ONE * worth[u] /\ full[u] = acc * shares[u]
  OBVIOUS
<1> HIDE DEF worth, scaled, full
<1>4. SumOver(worth, Users) = SumOver(pending, Users) + SumOver(debt, Users)
  <2>1. \A u \in Users : pending[u] \in Int /\ debt[u] \in Int /\ worth[u] = pending[u] + debt[u]
    BY <1>2
  <2> QED
    BY <1>1, <2>1, SumOverAdd
<1>5. SumOver(scaled, Users) = ONE * SumOver(worth, Users)
  BY <1>1, <1>2, <1>3, SumOverScale
<1>6. SumOver(full, Users) = acc * SumOver(shares, Users)
  BY <1>1, <1>2, <1>3, SumOverScale
<1>7. SumOver(scaled, Users) <= SumOver(full, Users)
  <2>1. \A u \in Users : scaled[u] \in Int /\ full[u] \in Int /\ scaled[u] <= full[u]
    BY <1>2
  <2> QED
    BY <1>1, <2>1, SumOverMono
<1>8. /\ SumOver(pending, Users) \in Int /\ SumOver(debt, Users) \in Int
      /\ SumOver(worth, Users) \in Int /\ SumOver(shares, Users) \in Int
  <2>1. \A u \in Users : pending[u] \in Int /\ debt[u] \in Int /\ worth[u] \in Int /\ shares[u] \in Int
    BY <1>2
  <2> QED
    BY <1>1, <2>1, SumOverType
<1>9. Total(shares) = SumOver(shares, Users) /\ Total(debt) = SumOver(debt, Users)
  BY DEF Total
<1> DEFINE P == SumOver(pending, Users)
           D == SumOver(debt, Users)
           W == SumOver(worth, Users)
           T == SumOver(shares, Users)
<1>10. /\ P \in Int /\ D \in Int /\ W \in Int /\ T \in Int /\ W = P + D
       /\ ONE * W <= acc * T /\ ONE * paid + T * acc <= ONE * (L + D)
  BY <1>4, <1>5, <1>6, <1>7, <1>8, <1>9
<1> HIDE DEF P, D, W, T
<1>11. ONE * (paid + P) <= ONE * L
  <2>1. /\ ONE * (paid + P) = ONE * paid + ONE * W - ONE * D
        /\ ONE * (L + D) = ONE * L + ONE * D /\ acc * T = T * acc
    BY <1>1, <1>10
  <2>2. ONE * paid \in Int /\ ONE * W \in Int /\ ONE * D \in Int /\ ONE * L \in Int /\ T * acc \in Int
    BY <1>1, <1>10
  <2> QED
    BY <1>10, <2>1, <2>2
<1>12. paid + P <= L
  BY <1>1, <1>10, <1>11, ProductCancel
<1> QED
  BY <1>12 DEF P

\* Dividends paid and pending exceed the profits by at most one unit for each issue of
\* shares, and nobody's claim underflows as long as no shares are traded after a profit.
THEOREM DividendsAreCovered == Spec => []DividendsCovered
<1>1. ASSUME IInv PROVE DividendsCovered
  <2>a. LedgerTypeOK /\ DividendBooks
    BY <1>1 DEF IInv, MarketFine
  <2>1. ASSUME ~resold, NEW u \in Users PROVE PendingDividend(u) >= 0
    <3>1. rewardDebt[u] <= Entitled(vstkBalance[u])
      BY <2>1, <2>a DEF DividendBooks
    <3>2. rewardDebt[u] \in Nat /\ vstkBalance[u] \in Nat
      BY <2>a, LedgerFacts
    <3>3. Entitled(vstkBalance[u]) \in Nat
      BY <2>a, <3>2, EntitledFacts
    <3> QED
      BY <3>1, <3>2, <3>3 DEF PendingDividend
  <2> DEFINE pending == [u \in Users |-> PendingDividend(u)]
  <2>2. \A u \in Users :
          pending[u] = (vstkBalance[u] * accAitPerShare) \div ONE - rewardDebt[u]
    BY DEF PendingDividend, Entitled
  <2>3. DOMAIN pending = Users
    OBVIOUS
  <2> HIDE DEF pending
  <2>4. claimed + SumOver(pending, Users) <= rewarded + issues
    <3>1. /\ vstkBalance \in [Users -> Nat] /\ rewardDebt \in [Users -> Nat]
          /\ accAitPerShare \in Nat /\ claimed \in Nat /\ rewarded + issues \in Nat
          /\ totalVstk = Total(vstkBalance)
      BY <2>a, LedgerFacts
    <3>2. ONE * claimed + Total(vstkBalance) * accAitPerShare
            <= ONE * ((rewarded + issues) + Total(rewardDebt))
      BY <2>a, <3>1 DEF DividendBooks
    <3> QED
      BY <2>2, <3>1, <3>2, ClaimsBound
  <2>5. claimed + Total(pending) <= rewarded + issues
    BY <2>3, <2>4 DEF Total
  <2> QED
    BY <2>1, <2>5 DEF DividendsCovered, pending
<1> QED
  BY Invariance, <1>1, PTL

\* Rewards paid and pending exceed those credited by at most one unit for each
\* settlement: who stakes late has no part in what was credited before.
THEOREM RewardsAreCovered == Spec => []RewardsCovered
<1>1. ASSUME IInv PROVE RewardsCovered
  <2>a. PoolTypeOK /\ RewardBooks
    BY <1>1 DEF IInv, PoolFine
  <2> DEFINE pending == [u \in Users |-> PendingReward(u)]
  <2>1. \A u \in Users :
          pending[u] = (staked[u] * accRewardPerShare) \div ONE - stakeDebt[u]
    <3> TAKE u \in Users
    <3>1. stakeDebt[u] <= Accumulated(staked[u])
      BY <2>a DEF RewardBooks
    <3>2. stakeDebt[u] \in Nat /\ staked[u] \in Nat
      BY <2>a, PoolFacts
    <3>3. Accumulated(staked[u]) \in Nat
      BY <2>a, <3>2, AccumulatedFacts
    <3>4. PendingReward(u) = Accumulated(staked[u]) - stakeDebt[u]
      BY <3>1, <3>2, <3>3 DEF PendingReward
    <3> QED
      BY <3>4 DEF Accumulated
  <2>2. DOMAIN pending = Users
    OBVIOUS
  <2> HIDE DEF pending
  <2>3. rewardsClaimed + SumOver(pending, Users) <= stakeRewards + settlements
    <3>1. /\ staked \in [Users -> Nat] /\ stakeDebt \in [Users -> Nat]
          /\ accRewardPerShare \in Nat /\ rewardsClaimed \in Nat
          /\ stakeRewards + settlements \in Nat /\ totalStaked = Total(staked)
      BY <2>a, PoolFacts
    <3>2. ONE * rewardsClaimed + Total(staked) * accRewardPerShare
            <= ONE * ((stakeRewards + settlements) + Total(stakeDebt))
      BY <2>a, <3>1 DEF RewardBooks
    <3> QED
      BY <2>1, <3>1, <3>2, ClaimsBound
  <2> QED
    BY <2>2, <2>3 DEF RewardsCovered, Total, pending
<1> QED
  BY Invariance, <1>1, PTL

\* Whatever the order of transactions, the escrow pays a publisher who cancels or a
\* machine that is verified when its task is approved, and nobody else.
THEOREM EscrowPaysMachines == Spec => PaidToMachines
<1>1. IInv /\ [Next]_vars =>
        [ balanceOf'["task_market"] < balanceOf["task_market"] =>
            \A u \in Users : balanceOf'[u] > balanceOf[u] =>
              \E t \in DOMAIN tasks :
                /\ tasks[t].lockedAmount > 0 /\ tasks'[t].lockedAmount = 0
                /\ \/ tasks'[t].status = "Cancelled" /\ u = tasks[t].publisher
                   \/ tasks'[t].status = "Completed" /\ u = tasks[t].aiPoolRecipient
                                                     /\ u \in verified ]_vars
  BY NextIInv DEF EscrowPays, PaidFor
<1> QED
  BY Invariance, <1>1, PTL DEF Spec, PaidToMachines
=============================================================================
