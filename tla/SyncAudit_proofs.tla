--------------------------- MODULE SyncAudit_proofs ---------------------------
(***************************************************************************)
(* Proofs about SyncAudit, for any users, amounts, thresholds and bounds.   *)
(***************************************************************************)
EXTENDS SyncAudit, TLAPS

\* Put adds or changes one entry of a map of numbers.
LEMMA PutTyped ==
  ASSUME NEW S, NEW f, DOMAIN f \subseteq S, f \in [DOMAIN f -> Nat],
         NEW k \in S, NEW v \in Nat
  PROVE  /\ DOMAIN Put(f, k, v) = DOMAIN f \cup {k}
         /\ Put(f, k, v) \in [DOMAIN Put(f, k, v) -> Nat]
  BY DEF Put

\* Keys are records of their two parts.
LEMMA KeyFacts ==
  ASSUME NEW u \in Users
  PROVE  /\ Key(u, "ait") \in Keys /\ Key(u, "vstk") \in Keys
         /\ \A w : Key(u, "vstk") # Key(w, "ait")
         /\ \A w : Key(u, "vstk") = Key(w, "vstk") => u = w
  BY DEF Key, Keys

\* A number of a map of numbers, or 0.
LEMMA ValueTyped ==
  ASSUME NEW f, f \in [DOMAIN f -> Nat], NEW k
  PROVE  ValueAt(f, k) \in Nat
  BY DEF ValueAt

\* The entries of a fill are numbers under keys.
LEMMA EntryTyped ==
  ASSUME RunnerTyped, step > 0
  PROVE  EntryKey \in Keys /\ EntryValue(EntryKey) \in Nat
<1> DEFINE v == ValueAt(shadow, EntryKey)
<1>1. v \in Nat
  BY ValueTyped DEF RunnerTyped
<1>2. trade \in Trades
  BY DEF RunnerTyped
<1>3. trade.buyer \in Users /\ trade.seller \in Users /\ trade.ait \in Nat /\ trade.vstk \in Nat
  BY <1>2, AuditAssumption DEF Trades, Amounts
<1>4. step \in {1, 2, 3, 4}
  BY DEF RunnerTyped
<1>5. EntryKey \in Keys
  BY <1>3, <1>4, KeyFacts DEF EntryKey
<1>6. EntryValue(EntryKey) \in Nat
  <2> HIDE DEF v
  <2>1. ValueAt(shadow, EntryKey) = v
    BY DEF v
  <2> QED
    BY <1>1, <1>3, <1>4, <2>1 DEF EntryValue, SaturatingSub
<1> QED
  BY <1>5, <1>6

-----------------------------------------------------------------------------
(* Types. *)

\* What moves shares between two users leaves numbers.
LEMMA GainsTyped ==
  ASSUME NEW S, NEW f \in [S -> Int], NEW s \in S, NEW b \in S, NEW a \in Int
  PROVE  /\ Gains(f, s, b, a) \in [S -> Int]
         /\ s # b => /\ Gains(f, s, b, a)[s] = f[s] - a
                      /\ Gains(f, s, b, a)[b] = f[b] + a
         /\ s = b => Gains(f, s, b, a)[s] = f[s]
         /\ \A x \in S \ {s, b} : Gains(f, s, b, a)[x] = f[x]
  BY DEF Gains

LEMMA InitTyped == Init => TypeOK
<1> SUFFICES ASSUME Init PROVE TypeOK
  OBVIOUS
<1>1. ChainTyped
  <2>1. balance \in [Keys -> Nat]
    BY AuditAssumption DEF Init
  <2>2. rate \in Rates /\ flows \in 0..MaxFlows
    BY AuditAssumption DEF Init
  <2>3. settled \in Seq(Trades) /\ traded \in [Users -> Int] /\ outside \subseteq Keys
    BY DEF Init
  <2> QED
    BY <2>1, <2>2, <2>3 DEF ChainTyped
<1>2. RunnerTyped
  BY DEF Init, RunnerTyped, NoMap
<1>3. AuditTyped
  BY DEF Init, AuditTyped, NoMap
<1> QED
  BY <1>1, <1>2, <1>3 DEF TypeOK

\* The contract's operations leave the contract well typed.
LEMMA FlowTyped ==
  ASSUME ChainTyped, head \in Nat, Flow
  PROVE  ChainTyped'
<1>1. flows' \in 0..MaxFlows
  BY AuditAssumption DEF Flow, DepositAit, WithdrawAit, IssueShares, SetTaxRate, SettleTrade,
     OnChain, ChainTyped
<1>2. rate' \in Rates
  BY DEF Flow, DepositAit, WithdrawAit, IssueShares, SetTaxRate, SettleTrade, ChainTyped
<1>3. CASE DepositAit \/ WithdrawAit \/ IssueShares
  <2>1. PICK u \in Users, fld \in {"ait", "vstk"}, v \in Nat : Outside(Key(u, fld), v)
    BY <1>3, AuditAssumption, KeyFacts
       DEF DepositAit, WithdrawAit, IssueShares, Amounts, ChainTyped
  <2>2. Key(u, fld) \in Keys
    BY KeyFacts
  <2>3. balance' \in [Keys -> Nat] /\ outside' \subseteq Keys
    BY <2>1, <2>2 DEF Outside, ChainTyped
  <2>4. settled' = settled /\ traded' = traded
    BY <1>3 DEF DepositAit, WithdrawAit, IssueShares
  <2> QED
    BY <1>1, <1>2, <2>3, <2>4 DEF ChainTyped
<1>4. CASE SetTaxRate
  BY <1>1, <1>2, <1>4 DEF SetTaxRate, ChainTyped
<1>5. CASE SettleTrade
  <2>1. PICK buyer \in Users, seller \in Users, q \in Amounts, n \in Amounts :
          /\ balance[Key(buyer, "ait")] >= n
          /\ balance[Key(seller, "vstk")] >= q
          /\ balance' = Gains([balance EXCEPT ![Key(buyer, "ait")] = @ - n],
                              Key(seller, "vstk"), Key(buyer, "vstk"), q)
          /\ traded' = Gains(traded, seller, buyer, q)
          /\ settled' = Append(settled,
               [buyer |-> buyer, seller |-> seller, vstk |-> q, ait |-> n,
                block |-> head, before |-> traded])
    BY <1>5 DEF SettleTrade
  <2> DEFINE paid == [balance EXCEPT ![Key(buyer, "ait")] = @ - n]
             s == Key(seller, "vstk")
             b == Key(buyer, "vstk")
  <2>2. q \in Nat /\ n \in Nat
    BY AuditAssumption DEF Amounts
  <2>3. /\ Key(buyer, "ait") \in Keys /\ s \in Keys /\ b \in Keys
        /\ s # Key(buyer, "ait")
    BY KeyFacts
  <2>4. paid \in [Keys -> Nat] /\ paid[s] = balance[s]
    BY <2>1, <2>2, <2>3 DEF ChainTyped
  <2>5. balance' \in [Keys -> Nat]
    <3> HIDE DEF paid, s, b
    <3>1. paid \in [Keys -> Int] /\ q \in Int
      BY <2>2, <2>4
    <3>2. balance' = Gains(paid, s, b, q) /\ paid[s] >= q
      BY <2>1, <2>4 DEF paid, s, b
    <3>3. balance' \in [Keys -> Int]
      BY <3>1, <3>2, <2>3, GainsTyped
    <3>4. ASSUME NEW k \in Keys PROVE balance'[k] \in Nat
      <4>1. CASE k \notin {s, b}
        BY <4>1, <2>3, <2>4, <3>1, <3>2, GainsTyped
      <4>2. CASE s = b /\ k = s
        BY <4>2, <2>3, <2>4, <3>1, <3>2, GainsTyped
      <4>3. CASE s # b /\ k = s
        <5>1. balance'[s] = paid[s] - q
          BY <4>3, <2>3, <3>1, <3>2, GainsTyped
        <5> QED
          BY <4>3, <5>1, <2>2, <2>3, <2>4, <3>2
      <4>4. CASE s # b /\ k = b
        <5>1. balance'[b] = paid[b] + q
          BY <4>4, <2>3, <3>1, <3>2, GainsTyped
        <5> QED
          BY <4>4, <5>1, <2>2, <2>3, <2>4
      <4> QED
        BY <4>1, <4>2, <4>3, <4>4
    <3> QED
      BY <3>3, <3>4
  <2>6. traded' \in [Users -> Int]
    <3>1. traded \in [Users -> Int] /\ q \in Int
      BY <2>2 DEF ChainTyped
    <3>2. traded' = Gains(traded, seller, buyer, q)
      BY <2>1
    <3> QED
      BY <3>1, <3>2, GainsTyped
  <2>7. settled' \in Seq(Trades)
    <3>1. [buyer |-> buyer, seller |-> seller, vstk |-> q, ait |-> n,
           block |-> head, before |-> traded] \in Trades
      BY DEF Trades, ChainTyped
    <3> QED
      BY <2>1, <3>1 DEF ChainTyped
  <2>8. outside' = outside
    BY <1>5 DEF SettleTrade
  <2> QED
    BY <1>1, <1>2, <2>5, <2>6, <2>7, <2>8 DEF ChainTyped
<1> QED
  BY <1>3, <1>4, <1>5 DEF Flow

\* What the history of the shadow becomes at each of the four entries.
LEMMA ReflectedIs ==
  /\ step \in {1, 2} => Reflected = mirror
  /\ step = 3 => Reflected = [mirror EXCEPT ![trade.seller] = @ - trade.vstk]
  /\ step = 4 => Reflected = [mirror EXCEPT ![trade.buyer] = @ + trade.vstk]
<1>1. step \in {1, 2} => Reflected = mirror
  BY DEF Reflected
<1>2. step = 3 => Reflected = [mirror EXCEPT ![trade.seller] = @ - trade.vstk]
  BY DEF Reflected
<1>3. step = 4 => Reflected = [mirror EXCEPT ![trade.buyer] = @ + trade.vstk]
  BY DEF Reflected
<1> QED
  BY <1>1, <1>2, <1>3

\* Runner and streamer leave the runner well typed, and the shadow's keys stay.
LEMMA RunnerStepTyped ==
  ASSUME ChainTyped, RunnerTyped, Runner
  PROVE  RunnerTyped' /\ DOMAIN shadow \subseteq DOMAIN shadow'
<1>1. CASE NewBlock
  <2>1. last_block_height' \in Nat
    BY <1>1 DEF NewBlock, RunnerTyped
  <2>2. UNCHANGED runnerVars /\ UNCHANGED head
    BY <1>1 DEF NewBlock
  <2> QED
    BY <2>1, <2>2 DEF RunnerTyped, runnerVars
<1>2. CASE TakeSettled
  <2>1. settled # <<>> /\ trade' = Head(settled) /\ step' = 1
        /\ last_block_height' = Head(settled).block
        /\ shadow' = shadow /\ mirror' = mirror /\ head' = head
    BY <1>2 DEF TakeSettled
  <2>2. Head(settled) \in Trades
    BY <2>1 DEF ChainTyped
  <2>3. Head(settled).block \in Nat
    BY <2>2 DEF Trades
  <2> QED
    BY <2>1, <2>2, <2>3 DEF RunnerTyped
<1>3. CASE ApplyFillShadow
  <2>1. step > 0 /\ step' = (step + 1) % 5
        /\ shadow' = Put(shadow, EntryKey, EntryValue(EntryKey))
        /\ mirror' = Reflected
        /\ trade' = trade /\ head' = head /\ last_block_height' = last_block_height
    BY <1>3 DEF ApplyFillShadow, heightVars
  <2>2. EntryKey \in Keys /\ EntryValue(EntryKey) \in Nat
    BY <2>1, EntryTyped
  <2>3. /\ DOMAIN shadow' = DOMAIN shadow \cup {EntryKey}
        /\ shadow' \in [DOMAIN shadow' -> Nat]
    <3>1. DOMAIN shadow \subseteq Keys /\ shadow \in [DOMAIN shadow -> Nat]
      BY DEF RunnerTyped
    <3>2. /\ DOMAIN Put(shadow, EntryKey, EntryValue(EntryKey)) = DOMAIN shadow \cup {EntryKey}
          /\ Put(shadow, EntryKey, EntryValue(EntryKey))
               \in [DOMAIN Put(shadow, EntryKey, EntryValue(EntryKey)) -> Nat]
      BY <2>2, <3>1, PutTyped
    <3>3. shadow' = Put(shadow, EntryKey, EntryValue(EntryKey))
      BY <2>1
    <3> QED
      BY <3>2, <3>3, Zenon
  <2>4. trade \in Trades
    BY <2>1 DEF RunnerTyped
  <2>5. trade.vstk \in Nat /\ trade.seller \in Users /\ trade.buyer \in Users
    BY <2>4, AuditAssumption DEF Trades, Amounts
  <2>6. mirror' \in [Users -> Int]
    <3>1. step \in {1, 2, 3, 4} /\ mirror \in [Users -> Int]
      BY <2>1 DEF RunnerTyped
    <3>2. CASE step \in {1, 2}
      BY <2>1, <3>1, <3>2, ReflectedIs
    <3>3. CASE step = 3
      <4>1. mirror' = [mirror EXCEPT ![trade.seller] = @ - trade.vstk]
        BY <2>1, <3>3, ReflectedIs
      <4> QED
        BY <2>5, <3>1, <4>1
    <3>4. CASE step = 4
      <4>1. mirror' = [mirror EXCEPT ![trade.buyer] = @ + trade.vstk]
        BY <2>1, <3>4, ReflectedIs
      <4> QED
        BY <2>5, <3>1, <4>1
    <3> QED
      BY <3>1, <3>2, <3>3, <3>4
  <2>7. step' \in 0..4
    BY <2>1 DEF RunnerTyped
  <2> QED
    BY <2>1, <2>2, <2>3, <2>4, <2>6, <2>7 DEF RunnerTyped
<1> QED
  BY <1>1, <1>2, <1>3 DEF Runner

\* What the audit does leaves the audit well typed.
LEMMA AuditStepTyped ==
  ASSUME ChainTyped, RunnerTyped, AuditTyped, Audit \/ Tick
  PROVE  AuditTyped' /\ UNCHANGED othersOfAudit
<1>1. CASE Tick
  BY <1>1 DEF Tick, AuditTyped, RunnerTyped, othersOfAudit, reportVars, runnerVars
<1>2. CASE SyncTreasuryTaxRate
  BY <1>2 DEF SyncTreasuryTaxRate, AuditTyped, ChainTyped, othersOfAudit, reportVars, runnerVars,
     chainVars, NoMap, ShadowKeys
<1>3. CASE ReadBalance
  <2>1. PICK k \in todo : snap' = Put(snap, k, balance[k]) /\ todo' = todo \ {k}
    BY <1>3 DEF ReadBalance
  <2>2. UNCHANGED <<othersOfAudit, reportVars, stage, last_audited_block, drifted,
                    tax_rate_bps, synced, quiet>>
    BY <1>3 DEF ReadBalance
  <2>3. k \in DOMAIN shadow /\ k \in Keys /\ balance[k] \in Nat
    BY DEF AuditTyped, RunnerTyped, ChainTyped
  <2>4. /\ DOMAIN snap' = DOMAIN snap \cup {k}
        /\ snap' \in [DOMAIN snap' -> Nat]
    <3>1. DOMAIN snap \subseteq DOMAIN shadow /\ snap \in [DOMAIN snap -> Nat]
      BY DEF AuditTyped
    <3>2. /\ DOMAIN Put(snap, k, balance[k]) = DOMAIN snap \cup {k}
          /\ Put(snap, k, balance[k]) \in [DOMAIN Put(snap, k, balance[k]) -> Nat]
      BY <2>3, <3>1, PutTyped
    <3> QED
      BY <2>1, <3>2
  <2>5. shadow' = shadow
    BY <2>2 DEF othersOfAudit, runnerVars
  <2> QED
    BY <2>1, <2>2, <2>3, <2>4, <2>5 DEF AuditTyped, reportVars
<1>4. CASE RpcFails
  BY <1>4 DEF RpcFails, AuditOver, AuditTyped, othersOfAudit, reportVars, runnerVars, NoMap
<1>5. CASE NextStage
  <2>1. UNCHANGED <<othersOfAudit, reportVars, last_audited_block, snap, drifted,
                    tax_rate_bps, synced, quiet>>
    BY <1>5 DEF NextStage
  <2>2. todo' \subseteq DOMAIN shadow
    BY <1>5 DEF NextStage, Follows, ShadowKeys
  <2>3. stage' \in {"read vstk", "compare ait", "compare vstk", "verdict"}
    BY <1>5 DEF NextStage, Follows
  <2>4. shadow' = shadow
    BY <2>1 DEF othersOfAudit, runnerVars
  <2> QED
    BY <2>1, <2>2, <2>3, <2>4 DEF AuditTyped, reportVars
<1>6. CASE Compare
  <2>1. UNCHANGED <<othersOfAudit, reportVars, stage, last_audited_block, snap,
                    tax_rate_bps, synced, quiet>>
    BY <1>6 DEF Compare
  <2>2. drifted' \in BOOLEAN /\ todo' \subseteq DOMAIN shadow
    BY <1>6 DEF Compare, AuditTyped, ExceedsThreshold
  <2>3. shadow' = shadow
    BY <2>1 DEF othersOfAudit, runnerVars
  <2> QED
    BY <2>1, <2>2, <2>3 DEF AuditTyped, reportVars
<1>7. CASE StateMatch
  BY <1>7 DEF StateMatch, AuditOver, AuditTyped, othersOfAudit, reportVars, runnerVars, NoMap
<1>8. CASE CriticalDrift
  <2>1. /\ stage' \in {"alignment", "reason", "asleep"}
        /\ todo' \subseteq DOMAIN shadow
        /\ DOMAIN snap' \subseteq DOMAIN shadow
        /\ snap' \in [DOMAIN snap' -> Nat]
        /\ {drifted', quiet', synced'} \subseteq BOOLEAN
    BY <1>8 DEF CriticalDrift, ReportDrift, AuditOver, AuditTyped, auditLocals, NoMap
  <2>2. /\ {matching_paused', match_paused', ledger_alignment_ok'} \subseteq BOOLEAN
        /\ matching_pause' \in {"none", "Drift"}
    BY <1>8 DEF CriticalDrift, ReportDrift, AuditTyped
  <2>3. UNCHANGED <<othersOfAudit, last_audited_block, tax_rate_bps>>
    BY <1>8 DEF CriticalDrift, restOfReport
  <2>4. shadow' = shadow
    BY <2>3 DEF othersOfAudit, runnerVars
  <2> QED
    BY <2>1, <2>2, <2>3, <2>4 DEF AuditTyped
<1> QED
  BY <1>1, <1>2, <1>3, <1>4, <1>5, <1>6, <1>7, <1>8 DEF Audit

\* Every step keeps the types.
LEMMA StepTyped == TypeOK /\ [Next]_vars => TypeOK'
<1> SUFFICES ASSUME TypeOK, [Next]_vars PROVE TypeOK'
  OBVIOUS
<1>a. ChainTyped /\ RunnerTyped /\ AuditTyped
  BY DEF TypeOK
<1>1. CASE Flow
  <2>1. ChainTyped'
    BY <1>1, <1>a, FlowTyped DEF RunnerTyped
  <2>2. UNCHANGED <<runnerVars, heightVars, reportVars, auditVars>> /\ quiet' = FALSE
    BY <1>1 DEF Flow, DepositAit, WithdrawAit, IssueShares, SetTaxRate, SettleTrade, OnChain
  <2>3. RunnerTyped'
    BY <1>a, <2>2 DEF RunnerTyped, runnerVars, heightVars
  <2>4. AuditTyped'
    BY <1>a, <2>2 DEF AuditTyped, runnerVars, reportVars, auditVars
  <2> QED
    BY <2>1, <2>3, <2>4 DEF TypeOK
<1>2. CASE NewHead
  <2>1. head' \in Nat /\ last_block_height' \in Nat
    BY <1>2, <1>a, AuditAssumption DEF NewHead, RunnerTyped
  <2>2. UNCHANGED <<chainVars, settled, runnerVars, reportVars, auditVars, quiet>>
    BY <1>2 DEF NewHead
  <2>3. ChainTyped'
    BY <1>a, <2>2 DEF ChainTyped, chainVars
  <2>4. RunnerTyped'
    BY <1>a, <2>1, <2>2 DEF RunnerTyped, runnerVars
  <2>5. AuditTyped'
    BY <1>a, <2>2 DEF AuditTyped, runnerVars, reportVars, auditVars
  <2> QED
    BY <2>3, <2>4, <2>5 DEF TypeOK
<1>3. CASE Runner
  <2>1. RunnerTyped' /\ DOMAIN shadow \subseteq DOMAIN shadow'
    BY <1>3, <1>a, RunnerStepTyped
  <2>2. UNCHANGED <<chainVars, reportVars, auditVars>>
    BY <1>3 DEF Runner, NewBlock, TakeSettled, ApplyFillShadow
  <2>3. settled' \in Seq(Trades) /\ quiet' \in BOOLEAN
    <3>1. settled \in Seq(Trades) /\ quiet \in BOOLEAN
      BY <1>a DEF ChainTyped, AuditTyped
    <3>2. quiet' \in {quiet, FALSE}
      BY <1>3 DEF Runner, NewBlock, TakeSettled, ApplyFillShadow
    <3>3. settled' = settled \/ (settled # <<>> /\ settled' = Tail(settled))
      BY <1>3 DEF Runner, NewBlock, TakeSettled, ApplyFillShadow
    <3>4. settled # <<>> => Tail(settled) \in Seq(Trades)
      BY <3>1
    <3>5. settled' \in Seq(Trades)
      BY <3>1, <3>3, <3>4
    <3>6. quiet' \in BOOLEAN
      BY <3>1, <3>2
    <3> QED
      BY <3>5, <3>6
  <2>4. ChainTyped'
    BY <1>a, <2>2, <2>3 DEF ChainTyped, chainVars
  <2>5. AuditTyped'
    BY <1>a, <2>1, <2>2, <2>3 DEF AuditTyped, reportVars, auditVars
  <2> QED
    BY <2>1, <2>4, <2>5 DEF TypeOK
<1>4. CASE Audit \/ Tick
  <2>1. AuditTyped' /\ UNCHANGED othersOfAudit
    BY <1>4, <1>a, AuditStepTyped
  <2>2. ChainTyped' /\ RunnerTyped'
    BY <1>a, <2>1 DEF ChainTyped, RunnerTyped, othersOfAudit, chainVars, runnerVars, heightVars
  <2> QED
    BY <2>1, <2>2 DEF TypeOK
<1>5. CASE UNCHANGED vars
  <2>1. UNCHANGED <<chainVars, settled, runnerVars, heightVars, reportVars, auditVars, quiet>>
    BY <1>5 DEF vars
  <2>2. ChainTyped' /\ RunnerTyped'
    BY <1>a, <2>1 DEF ChainTyped, RunnerTyped, chainVars, runnerVars, heightVars
  <2>3. AuditTyped'
    BY <1>a, <2>1 DEF AuditTyped, runnerVars, reportVars, auditVars
  <2> QED
    BY <2>2, <2>3 DEF TypeOK
<1> QED
  BY <1>1, <1>2, <1>3, <1>4, <1>5 DEF Next

\* Every reachable state is well typed: amounts of the chain and of the shadow never
\* become negative, and the audit only works on keys that the shadow has.
THEOREM TypeCorrect == Spec => []TypeOK
<1>1. Init => TypeOK
  BY InitTyped
<1>2. TypeOK /\ [Next]_vars => TypeOK'
  BY StepTyped
<1> QED
  BY <1>1, <1>2, PTL DEF Spec

-----------------------------------------------------------------------------
(* The shadow of shares.                                                    *)
(*                                                                          *)
(* A trade that is settled on chain carries the history `before`: the       *)
(* trades that are on their way form a chain from the history that the      *)
(* shadow has reached to the one the contract has, and within a trade       *)
(* `step` says how far the shadow has come.                                 *)
After(e) == Gains(e.before, e.seller, e.buyer, e.vstk)

Last(s) == s[Len(s)]

\* What the shadow has reached when the trade in hand is applied.
Reached == IF settled = <<>> THEN traded ELSE settled[1].before

Chained ==
  /\ settled # <<>> => After(Last(settled)) = traded
  /\ \A i \in 1..Len(settled) : i > 1 => After(settled[i - 1]) = settled[i].before

Following ==
  /\ step = 0 => mirror = Reached
  /\ step > 0 => After(trade) = Reached
  /\ step \in {1, 2, 3} => mirror = trade.before
  /\ step = 4 => mirror = [trade.before EXCEPT ![trade.seller] = @ - trade.vstk]

\* Only trades have moved the user's shares.
OwnShares(u) == Key(u, "vstk") \notin outside

HadShares(e) == OwnShares(e.seller) => e.before[e.seller] >= e.vstk

Enough ==
  /\ \A i \in 1..Len(settled) : HadShares(settled[i])
  /\ step > 0 => HadShares(trade)

ChainIsTraded == \A u \in Users : OwnShares(u) => balance[Key(u, "vstk")] = traded[u]
ShadowIsMirror == \A u \in Users : OwnShares(u) => ValueAt(shadow, Key(u, "vstk")) = mirror[u]

LedgerInv == Chained /\ Following /\ Enough /\ ChainIsTraded /\ ShadowIsMirror

shareVars == <<balance, traded, outside, settled, runnerVars>>

\* What leaves shares, trades and shadow alone leaves the ledger right.
LEMMA LedgerFrame ==
  ASSUME LedgerInv, UNCHANGED shareVars
  PROVE  LedgerInv'
<1>1. /\ balance' = balance /\ traded' = traded /\ outside' = outside
      /\ settled' = settled /\ shadow' = shadow /\ trade' = trade
      /\ step' = step /\ mirror' = mirror
  BY DEF shareVars, runnerVars
<1>2. Chained'
  BY <1>1 DEF LedgerInv, Chained
<1>3. Following'
  BY <1>1 DEF LedgerInv, Following, Reached
<1>4. Enough'
  BY <1>1 DEF LedgerInv, Enough, HadShares, OwnShares
<1>5. ChainIsTraded' /\ ShadowIsMirror'
  BY <1>1 DEF LedgerInv, ChainIsTraded, ShadowIsMirror, OwnShares
<1> QED
  BY <1>2, <1>3, <1>4, <1>5 DEF LedgerInv

\* At the start nothing has been traded and nothing is on its way.
LEMMA LedgerInit == Init => LedgerInv
<1> SUFFICES ASSUME Init PROVE LedgerInv
  OBVIOUS
<1>1. Chained
  BY DEF Init, Chained
<1>2. Following
  BY DEF Init, Following, Reached
<1>3. Enough
  BY DEF Init, Enough
<1>4. ChainIsTraded
  <2>1. SUFFICES ASSUME NEW u \in Users, OwnShares(u)
                 PROVE  balance[Key(u, "vstk")] = traded[u]
    BY DEF ChainIsTraded
  <2>2. Key(u, "vstk") \in Keys /\ ~(balance[Key(u, "vstk")] > 0)
    BY <2>1, KeyFacts DEF Init, OwnShares
  <2>3. balance[Key(u, "vstk")] \in 0..MaxAmount /\ MaxAmount \in Nat
    BY <2>2, AuditAssumption DEF Init
  <2> QED
    BY <2>2, <2>3 DEF Init
<1>5. ShadowIsMirror
  BY DEF Init, ShadowIsMirror, ValueAt, NoMap
<1> QED
  BY <1>1, <1>2, <1>3, <1>4, <1>5 DEF LedgerInv

\* A deposit, a withdrawal or an issue of shares moves one balance, and marks it.
LEMMA LedgerOutside ==
  ASSUME ChainTyped, LedgerInv, DepositAit \/ WithdrawAit \/ IssueShares
  PROVE  LedgerInv'
<1>1. PICK k, v : Outside(k, v)
  BY DEF DepositAit, WithdrawAit, IssueShares
<1>2. /\ traded' = traded /\ settled' = settled /\ shadow' = shadow
      /\ trade' = trade /\ step' = step /\ mirror' = mirror
  BY DEF DepositAit, WithdrawAit, IssueShares, OnChain, runnerVars
<1>3. \A u \in Users : OwnShares(u)' => OwnShares(u) /\ Key(u, "vstk") # k
  BY <1>1 DEF Outside, OwnShares
<1>4. Chained'
  BY <1>2 DEF LedgerInv, Chained
<1>5. Following'
  BY <1>2 DEF LedgerInv, Following, Reached
<1>6. Enough'
  <2>1. \A e : HadShares(e) => HadShares(e)'
    BY <1>1 DEF HadShares, OwnShares, Outside
  <2> QED
    BY <1>2, <2>1 DEF LedgerInv, Enough
<1>7. ChainIsTraded'
  <2>1. \A x \in Keys \ {k} : balance'[x] = balance[x]
    BY <1>1 DEF Outside, ChainTyped
  <2> QED
    BY <1>2, <1>3, <2>1, KeyFacts DEF LedgerInv, ChainIsTraded
<1>8. ShadowIsMirror'
  BY <1>2, <1>3 DEF LedgerInv, ShadowIsMirror
<1> QED
  BY <1>4, <1>5, <1>6, <1>7, <1>8 DEF LedgerInv

\* A trade joins the end of the chain of trades.
LEMMA LedgerSettle ==
  ASSUME ChainTyped, RunnerTyped, LedgerInv, SettleTrade
  PROVE  LedgerInv'
<1>1. PICK buyer \in Users, seller \in Users, q \in Amounts, n \in Amounts :
        /\ balance[Key(seller, "vstk")] >= q
        /\ balance' = Gains([balance EXCEPT ![Key(buyer, "ait")] = @ - n],
                            Key(seller, "vstk"), Key(buyer, "vstk"), q)
        /\ traded' = Gains(traded, seller, buyer, q)
        /\ settled' = Append(settled,
             [buyer |-> buyer, seller |-> seller, vstk |-> q, ait |-> n,
              block |-> head, before |-> traded])
  BY DEF SettleTrade
<1> DEFINE e == [buyer |-> buyer, seller |-> seller, vstk |-> q, ait |-> n,
                 block |-> head, before |-> traded]
           paid == [balance EXCEPT ![Key(buyer, "ait")] = @ - n]
           sk == Key(seller, "vstk")
           bk == Key(buyer, "vstk")
<1>2. /\ outside' = outside /\ shadow' = shadow
      /\ trade' = trade /\ step' = step /\ mirror' = mirror
  BY DEF SettleTrade, OnChain, runnerVars
<1>3. q \in Nat /\ n \in Nat
  BY AuditAssumption DEF Amounts
<1>4. e \in Trades /\ settled \in Seq(Trades) /\ settled' = Append(settled, e)
  BY <1>1 DEF ChainTyped, RunnerTyped, Trades
<1>5. After(e) = traded'
  BY <1>1 DEF After
<1>6. HadShares(e)
  <2>1. SUFFICES ASSUME OwnShares(seller) PROVE traded[seller] >= q
    BY DEF HadShares
  <2> QED
    BY <2>1, <1>1 DEF LedgerInv, ChainIsTraded
<1> HIDE DEF e
<1>7. /\ Len(settled') = Len(settled) + 1
      /\ settled'[Len(settled) + 1] = e
      /\ \A i \in 1..Len(settled) : settled'[i] = settled[i]
      /\ Len(settled) \in Nat
      /\ (settled = <<>>) <=> (Len(settled) = 0)
      /\ settled' # <<>>
  BY <1>4
<1>8. Reached' = Reached
  <2>1. CASE settled = <<>>
    <3>1. settled'[1] = e
      BY <2>1, <1>7
    <3>2. e.before = traded
      BY DEF e
    <3> QED
      BY <2>1, <3>1, <3>2, <1>7 DEF Reached
  <2>2. CASE settled # <<>>
    BY <2>2, <1>7 DEF Reached
  <2> QED
    BY <2>1, <2>2
<1>9. Chained'
  <2>1. After(Last(settled')) = traded'
    BY <1>5, <1>7 DEF Last
  <2>2. ASSUME NEW i \in 1..Len(settled'), i > 1
        PROVE  After(settled'[i - 1]) = settled'[i].before
    <3>1. CASE i \in 1..Len(settled)
      BY <2>2, <3>1, <1>7 DEF LedgerInv, Chained
    <3>2. CASE i = Len(settled) + 1
      <4>1. settled'[i] = e /\ settled'[i - 1] = settled[Len(settled)] /\ settled # <<>>
        BY <2>2, <3>2, <1>7
      <4>2. After(settled[Len(settled)]) = traded
        BY <4>1 DEF LedgerInv, Chained, Last
      <4>3. e.before = traded
        BY DEF e
      <4> QED
        BY <4>1, <4>2, <4>3
    <3> QED
      BY <2>2, <3>1, <3>2, <1>7
  <2> QED
    BY <2>1, <2>2, <1>2 DEF Chained, Last
<1>10. Following'
  BY <1>2, <1>8 DEF LedgerInv, Following
<1>11. Enough'
  <2>2. ASSUME NEW i \in 1..Len(settled') PROVE HadShares(settled'[i])
    <3>1. CASE i \in 1..Len(settled)
      BY <3>1, <1>7 DEF LedgerInv, Enough
    <3>2. CASE i = Len(settled) + 1
      BY <3>2, <1>6, <1>7
    <3> QED
      BY <2>2, <3>1, <3>2, <1>7
  <2>3. (\A i \in 1..Len(settled) : HadShares(settled[i]))'
    BY <1>2, <2>2 DEF HadShares, OwnShares
  <2>4. (step > 0 => HadShares(trade))'
    BY <1>2 DEF LedgerInv, Enough, HadShares, OwnShares
  <2> QED
    BY <2>3, <2>4 DEF Enough
<1>12. ChainIsTraded'
  <2>1. SUFFICES ASSUME NEW u \in Users, OwnShares(u)
                 PROVE  balance'[Key(u, "vstk")] = traded'[u]
    BY <1>2 DEF ChainIsTraded, OwnShares
  <2>2. balance[Key(u, "vstk")] = traded[u]
    BY <2>1 DEF LedgerInv, ChainIsTraded
  <2>3. /\ sk \in Keys /\ bk \in Keys /\ Key(u, "vstk") \in Keys
        /\ Key(buyer, "ait") \in Keys /\ Key(u, "vstk") # Key(buyer, "ait")
        /\ sk = Key(u, "vstk") => seller = u
        /\ bk = Key(u, "vstk") => buyer = u
        /\ sk = bk => seller = buyer
    BY KeyFacts
  <2>4. paid \in [Keys -> Int] /\ paid[Key(u, "vstk")] = balance[Key(u, "vstk")]
    BY <1>3, <2>3 DEF ChainTyped
  <2>5. traded \in [Users -> Int] /\ q \in Int
    BY <1>3 DEF ChainTyped
  <2>6. balance' = Gains(paid, sk, bk, q)
    BY <1>1
  <2> DEFINE ku == Key(u, "vstk")
  <2> HIDE DEF paid, sk, bk
  <2>11. /\ sk # bk => balance'[sk] = paid[sk] - q /\ balance'[bk] = paid[bk] + q
         /\ sk = bk => balance'[sk] = paid[sk]
         /\ \A x \in Keys \ {sk, bk} : balance'[x] = paid[x]
    <3>1. paid \in [Keys -> Int] /\ sk \in Keys /\ bk \in Keys /\ q \in Int
      BY <2>3, <2>4, <2>5
    <3> QED
      BY <2>6, <3>1, GainsTyped
  <2>7. CASE u # seller /\ u # buyer
    <3>1. ku \in Keys \ {sk, bk}
      BY <2>3, <2>7
    <3>2. balance'[ku] = paid[ku]
      BY <2>11, <3>1
    <3>3. traded'[u] = traded[u]
      BY <1>1, <2>5, <2>7, GainsTyped
    <3> QED
      BY <2>2, <2>4, <3>2, <3>3
  <2>8. CASE u = seller /\ u = buyer
    <3>1. sk = bk /\ sk = ku
      BY <2>8 DEF sk, bk
    <3>2. balance'[sk] = paid[sk]
      BY <2>11, <3>1
    <3>3. traded'[u] = traded[u]
      BY <1>1, <2>5, <2>8, GainsTyped
    <3> QED
      BY <2>2, <2>4, <3>1, <3>2, <3>3
  <2>9. CASE u = seller /\ u # buyer
    <3>1. sk # bk /\ sk = ku
      BY <2>3, <2>9 DEF sk
    <3>2. balance'[sk] = paid[sk] - q
      BY <2>11, <3>1
    <3>3. traded'[seller] = traded[seller] - q
      BY <1>1, <2>5, <2>9, GainsTyped
    <3> QED
      BY <2>2, <2>4, <2>9, <3>1, <3>2, <3>3
  <2>10. CASE u # seller /\ u = buyer
    <3>1. sk # bk /\ bk = ku
      BY <2>3, <2>10 DEF bk
    <3>2. balance'[bk] = paid[bk] + q
      BY <2>11, <3>1
    <3>3. traded'[buyer] = traded[buyer] + q
      BY <1>1, <2>5, <2>10, GainsTyped
    <3> QED
      BY <2>2, <2>4, <2>10, <3>1, <3>2, <3>3
  <2> QED
    BY <2>7, <2>8, <2>9, <2>10
<1>13. ShadowIsMirror'
  BY <1>2 DEF LedgerInv, ShadowIsMirror, OwnShares
<1> QED
  BY <1>9, <1>10, <1>11, <1>12, <1>13 DEF LedgerInv

\* The runner takes the first trade in hand: the shadow has reached what came before.
LEMMA LedgerTake ==
  ASSUME ChainTyped, LedgerInv, TakeSettled
  PROVE  LedgerInv'
<1>1. /\ step = 0 /\ settled # <<>> /\ step' = 1
      /\ trade' = Head(settled) /\ settled' = Tail(settled)
      /\ balance' = balance /\ traded' = traded /\ outside' = outside
      /\ shadow' = shadow /\ mirror' = mirror
  BY DEF TakeSettled, chainVars
<1>2. settled \in Seq(Trades)
  BY DEF ChainTyped
<1>3. /\ Len(settled) \in Nat \ {0}
      /\ trade' = settled[1]
      /\ Len(settled') = Len(settled) - 1
      /\ \A i \in 1..Len(settled') : settled'[i] = settled[i + 1]
      /\ (settled' = <<>>) <=> (Len(settled) = 1)
  <2>1. Len(settled) \in Nat \ {0} /\ trade' = settled[1]
    BY <1>1, <1>2
  <2>2. settled' \in Seq(Trades) /\ Len(settled') = Len(settled) - 1
    BY <1>1, <1>2
  <2>3. \A i \in 1..Len(settled') : settled'[i] = settled[i + 1]
    BY <1>1, <1>2
  <2>4. (settled' = <<>>) <=> (Len(settled') = 0)
    BY <2>2
  <2> QED
    BY <2>1, <2>2, <2>3, <2>4
<1>4. /\ After(settled[Len(settled)]) = traded
      /\ \A i \in 1..Len(settled) : i > 1 => After(settled[i - 1]) = settled[i].before
      /\ mirror = settled[1].before
  BY <1>1 DEF LedgerInv, Chained, Following, Reached, Last
<1>5. Chained'
  <2>1. settled' # <<>> => After(settled'[Len(settled')]) = traded'
    <3>1. settled' # <<>> => settled'[Len(settled')] = settled[Len(settled)]
      BY <1>3
    <3> QED
      BY <1>1, <1>4, <3>1
  <2>2. ASSUME NEW i \in 1..Len(settled'), i > 1
        PROVE  After(settled'[i - 1]) = settled'[i].before
    <3>1. settled'[i] = settled[i + 1] /\ settled'[i - 1] = settled[i] /\ i + 1 \in 1..Len(settled)
      BY <1>3, <2>2
    <3>2. After(settled[(i + 1) - 1]) = settled[i + 1].before
      BY <1>4, <3>1, <2>2
    <3> QED
      BY <3>1, <3>2, <2>2
  <2> QED
    BY <2>1, <2>2 DEF Chained, Last
<1>6. Following'
  <2>1. After(settled[1]) = Reached'
    <3>1. CASE Len(settled) = 1
      BY <1>1, <1>3, <1>4, <3>1 DEF Reached
    <3>2. CASE Len(settled) > 1
      <4>1. settled'[1] = settled[2] /\ settled' # <<>>
        BY <1>3, <3>2
      <4>2. After(settled[2 - 1]) = settled[2].before
        BY <1>3, <1>4, <3>2
      <4> QED
        BY <4>1, <4>2 DEF Reached
    <3> QED
      BY <1>3, <3>1, <3>2
  <2>2. After(trade') = Reached' /\ mirror' = trade'.before
    BY <1>1, <1>3, <1>4, <2>1
  <2> QED
    BY <1>1, <2>2 DEF Following
<1>7. Enough'
  <2>1. \A i \in 1..Len(settled) : HadShares(settled[i])
    BY DEF LedgerInv, Enough
  <2>2. HadShares(trade') /\ \A i \in 1..Len(settled') : HadShares(settled'[i])
    BY <1>3, <2>1
  <2> QED
    BY <1>1, <2>2 DEF Enough, HadShares, OwnShares
<1>8. ChainIsTraded' /\ ShadowIsMirror'
  BY <1>1 DEF LedgerInv, ChainIsTraded, ShadowIsMirror, OwnShares
<1> QED
  BY <1>5, <1>6, <1>7, <1>8 DEF LedgerInv

\* What Put changes is the one entry.
LEMMA PutValue ==
  ASSUME NEW f, NEW k, NEW v, NEW x
  PROVE  ValueAt(Put(f, k, v), x) = IF x = k THEN v ELSE ValueAt(f, x)
  BY DEF ValueAt, Put

\* The four entries of a trade bring the shadow from before it to after it.
LEMMA LedgerApply ==
  ASSUME RunnerTyped, LedgerInv, ApplyFillShadow
  PROVE  LedgerInv'
<1>1. /\ step > 0 /\ step' = (step + 1) % 5
      /\ shadow' = Put(shadow, EntryKey, EntryValue(EntryKey))
      /\ mirror' = Reflected
      /\ balance' = balance /\ traded' = traded /\ outside' = outside
      /\ settled' = settled /\ trade' = trade
  BY DEF ApplyFillShadow, chainVars
<1>2. /\ step \in {1, 2, 3, 4} /\ mirror \in [Users -> Int]
      /\ trade.vstk \in Nat /\ trade.seller \in Users /\ trade.buyer \in Users
  <2>1. trade \in Trades /\ step \in {1, 2, 3, 4} /\ mirror \in [Users -> Int]
    BY <1>1 DEF RunnerTyped
  <2> QED
    BY <2>1, AuditAssumption DEF Trades, Amounts
<1>3. After(trade) = Reached /\ Reached' = Reached
  BY <1>1 DEF LedgerInv, Following, Reached
<1>4. step \in {1, 2, 3} => mirror = trade.before
  BY DEF LedgerInv, Following
<1>5. \A u \in Users : OwnShares(u) =>
        /\ ValueAt(shadow, Key(u, "vstk")) = mirror[u]
        /\ ValueAt(shadow', Key(u, "vstk")) =
             IF Key(u, "vstk") = EntryKey THEN EntryValue(EntryKey) ELSE mirror[u]
  <2>1. ASSUME NEW u \in Users, OwnShares(u)
        PROVE  ValueAt(shadow, Key(u, "vstk")) = mirror[u]
    BY <2>1 DEF LedgerInv, ShadowIsMirror
  <2> HIDE DEF EntryKey, EntryValue
  <2>2. \A x : ValueAt(shadow', x) =
               IF x = EntryKey THEN EntryValue(EntryKey) ELSE ValueAt(shadow, x)
    BY <1>1, PutValue
  <2> QED
    BY <2>1, <2>2
<1>6. Chained' /\ Enough' /\ ChainIsTraded'
  <2>1. Chained'
    BY <1>1 DEF LedgerInv, Chained
  <2>2. Enough'
    BY <1>1 DEF LedgerInv, Enough, HadShares, OwnShares
  <2>3. ChainIsTraded'
    BY <1>1 DEF LedgerInv, ChainIsTraded, OwnShares
  <2> QED
    BY <2>1, <2>2, <2>3
<1>7. Following' /\ ShadowIsMirror'
  <2>1. SUFFICES
          /\ Following'
          /\ \A u \in Users : OwnShares(u) => ValueAt(shadow', Key(u, "vstk")) = mirror'[u]
    BY <1>1 DEF ShadowIsMirror, OwnShares
  <2>2. CASE step \in {1, 2}
    <3>1. mirror' = mirror /\ mirror = trade.before /\ step' \in {2, 3}
      BY <1>1, <1>4, <2>2, ReflectedIs
    <3>2. Following'
      BY <1>1, <1>3, <3>1 DEF Following
    <3>3. \A u \in Users : Key(u, "vstk") # EntryKey
      BY <2>2 DEF EntryKey, Key
    <3> QED
      BY <1>5, <3>1, <3>2, <3>3
  <2>3. CASE step = 3
    <3>1. mirror' = [mirror EXCEPT ![trade.seller] = @ - trade.vstk]
      BY <1>1, <2>3, ReflectedIs
    <3>2. mirror = trade.before /\ step' = 4
      BY <1>1, <1>4, <2>3
    <3>3. Following'
      BY <1>1, <1>3, <3>1, <3>2 DEF Following
    <3>4. ASSUME NEW u \in Users, OwnShares(u)
          PROVE  ValueAt(shadow', Key(u, "vstk")) = mirror'[u]
      <4>1. EntryKey = Key(trade.seller, "vstk")
        BY <2>3 DEF EntryKey
      <4>2. CASE u = trade.seller
        <5>1. mirror[u] >= trade.vstk /\ mirror[u] \in Int
          BY <1>1, <1>2, <3>2, <3>4, <4>2 DEF LedgerInv, Enough, HadShares
        <5>2. EntryValue(EntryKey) = SaturatingSub(mirror[u], trade.vstk)
          BY <1>5, <2>3, <3>4, <4>1, <4>2 DEF EntryValue
        <5>3. EntryValue(EntryKey) = mirror[u] - trade.vstk
          BY <1>2, <5>1, <5>2 DEF SaturatingSub
        <5>4. mirror'[u] = mirror[u] - trade.vstk
          BY <1>2, <3>1, <4>2
        <5> QED
          BY <1>5, <3>4, <4>1, <4>2, <5>3, <5>4
      <4>3. CASE u # trade.seller
        <5>1. Key(u, "vstk") # EntryKey
          BY <1>2, <4>1, <4>3, KeyFacts
        <5>2. mirror'[u] = mirror[u]
          BY <1>2, <3>1, <4>3
        <5> QED
          BY <1>5, <3>4, <5>1, <5>2
      <4> QED
        BY <4>2, <4>3
    <3> QED
      BY <3>3, <3>4
  <2>4. CASE step = 4
    <3>1. mirror' = [mirror EXCEPT ![trade.buyer] = @ + trade.vstk]
      BY <1>1, <2>4, ReflectedIs
    <3>2. mirror = [trade.before EXCEPT ![trade.seller] = @ - trade.vstk]
      BY <2>4 DEF LedgerInv, Following
    <3>3. mirror' = After(trade)
      BY <3>1, <3>2 DEF After, Gains
    <3>4. Following'
      BY <1>1, <1>3, <2>4, <3>3 DEF Following
    <3>5. ASSUME NEW u \in Users, OwnShares(u)
          PROVE  ValueAt(shadow', Key(u, "vstk")) = mirror'[u]
      <4>1. EntryKey = Key(trade.buyer, "vstk")
        BY <2>4 DEF EntryKey
      <4>2. CASE u = trade.buyer
        <5>1. EntryValue(EntryKey) = mirror[u] + trade.vstk
          BY <1>5, <2>4, <3>5, <4>1, <4>2 DEF EntryValue
        <5>2. mirror'[u] = mirror[u] + trade.vstk
          BY <1>2, <3>1, <4>2
        <5> QED
          BY <1>5, <3>5, <4>1, <4>2, <5>1, <5>2
      <4>3. CASE u # trade.buyer
        <5>1. Key(u, "vstk") # EntryKey
          BY <1>2, <4>1, <4>3, KeyFacts
        <5>2. mirror'[u] = mirror[u]
          BY <1>2, <3>1, <4>3
        <5> QED
          BY <1>5, <3>5, <5>1, <5>2
      <4> QED
        BY <4>2, <4>3
    <3> QED
      BY <3>4, <3>5
  <2> QED
    BY <1>2, <2>2, <2>3, <2>4
<1> QED
  BY <1>6, <1>7 DEF LedgerInv

\* Every step keeps the shadow of shares right.
LEMMA LedgerStep == TypeOK /\ LedgerInv /\ [Next]_vars => LedgerInv'
<1> SUFFICES ASSUME TypeOK, LedgerInv, [Next]_vars PROVE LedgerInv'
  OBVIOUS
<1>a. ChainTyped /\ RunnerTyped /\ AuditTyped
  BY DEF TypeOK
<1>1. CASE DepositAit \/ WithdrawAit \/ IssueShares
  BY <1>1, <1>a, LedgerOutside
<1>2. CASE SettleTrade
  BY <1>2, <1>a, LedgerSettle
<1>3. CASE TakeSettled
  BY <1>3, <1>a, LedgerTake
<1>4. CASE ApplyFillShadow
  BY <1>4, <1>a, LedgerApply
<1>5. CASE SetTaxRate \/ NewHead \/ NewBlock \/ UNCHANGED vars
  <2>1. UNCHANGED shareVars
    BY <1>5 DEF SetTaxRate, OnChain, NewHead, NewBlock, vars, chainVars, runnerVars, shareVars
  <2> QED
    BY <2>1, LedgerFrame
<1>6. CASE Audit \/ Tick
  <2>1. UNCHANGED shareVars
    BY <1>6, <1>a, AuditStepTyped DEF othersOfAudit, chainVars, runnerVars, shareVars
  <2> QED
    BY <2>1, LedgerFrame
<1> QED
  BY <1>1, <1>2, <1>3, <1>4, <1>5, <1>6 DEF Next, Flow, Runner

\* Once the trades on their way are applied, the shadow holds the shares that the
\* contract holds of everybody who got all of them in trades, for any number of
\* users and of trades and whatever the audit does meanwhile.
THEOREM SharesStayMirrored == Spec => []SharesMirrored
<1>1. Init => TypeOK /\ LedgerInv
  BY InitTyped, LedgerInit
<1>2. (TypeOK /\ LedgerInv) /\ [Next]_vars => (TypeOK /\ LedgerInv)'
  BY StepTyped, LedgerStep
<1>3. TypeOK /\ LedgerInv => SharesMirrored
  <2>1. SUFFICES ASSUME LedgerInv, NEW u \in Users, Key(u, "vstk") \notin outside,
                        settled = <<>>, step = 0
                 PROVE  ValueAt(shadow, Key(u, "vstk")) = balance[Key(u, "vstk")]
    BY DEF SharesMirrored, Mirrored
  <2>2. mirror = traded
    BY <2>1 DEF LedgerInv, Following, Reached
  <2>3. balance[Key(u, "vstk")] = traded[u]
    BY <2>1 DEF LedgerInv, ChainIsTraded, OwnShares
  <2>4. ValueAt(shadow, Key(u, "vstk")) = mirror[u]
    BY <2>1 DEF LedgerInv, ShadowIsMirror, OwnShares
  <2> QED
    BY <2>2, <2>3, <2>4
<1> QED
  BY <1>1, <1>2, <1>3, PTL DEF Spec

-----------------------------------------------------------------------------
(* The order of the pause. *)

\* While the audit tells of a drift, the engine is already paused.
PauseInv ==
  /\ stage \in {"alignment", "reason"} => matching_paused
  /\ PausedBeforeTold

\* Telemetry and the runner hear of a drift only after the engine is paused, and
\* what they are told stays true.
THEOREM PauseComesFirst == Spec => []PausedBeforeTold
<1>1. Init => PauseInv
  BY DEF Init, PauseInv, PausedBeforeTold
<1>2. PauseInv /\ [Next]_vars => PauseInv'
  <2> SUFFICES ASSUME PauseInv, [Next]_vars PROVE PauseInv'
    OBVIOUS
  <2>1. CASE UNCHANGED <<reportVars, stage>>
    BY <2>1 DEF PauseInv, PausedBeforeTold, reportVars
  <2>2. CASE Flow \/ NewHead \/ Runner \/ UNCHANGED vars
    <3>1. UNCHANGED <<reportVars, stage>>
      BY <2>2 DEF Flow, DepositAit, WithdrawAit, IssueShares, SetTaxRate, SettleTrade, OnChain,
         NewHead, Runner, NewBlock, TakeSettled, ApplyFillShadow, vars, auditVars, reportVars
    <3> QED
      BY <2>1, <3>1
  <2>3. CASE Tick \/ SyncTreasuryTaxRate \/ ReadBalance \/ RpcFails \/ NextStage \/ Compare
    <3>1. UNCHANGED reportVars /\ stage' \notin {"alignment", "reason"}
      BY <2>3 DEF Tick, SyncTreasuryTaxRate, ReadBalance, RpcFails, NextStage, Follows, Compare,
         AuditOver
    <3> QED
      BY <3>1 DEF PauseInv, PausedBeforeTold, reportVars
  <2>4. CASE StateMatch
    BY <2>4 DEF StateMatch, AuditOver, PauseInv, PausedBeforeTold
  <2>5. CASE CriticalDrift
    BY <2>5 DEF CriticalDrift, ReportDrift, AuditOver, auditLocals, PauseInv, PausedBeforeTold
  <2> QED
    BY <2>2, <2>3, <2>4, <2>5 DEF Next, Audit
<1>3. PauseInv => PausedBeforeTold
  BY DEF PauseInv
<1> QED
  BY <1>1, <1>2, <1>3, PTL DEF Spec

-----------------------------------------------------------------------------
(* The verdict. *)

Exceeds(keys) == \E k \in keys : ExceedsThreshold(shadow[k], balance[k])

\* What the audit has read so far, and that it is still so.
ReadRight ==
  /\ stage = "read ait" => ShadowKeys("ait") \ todo \subseteq DOMAIN snap
  /\ stage = "read vstk" =>
       ShadowKeys("ait") \cup (ShadowKeys("vstk") \ todo) \subseteq DOMAIN snap
  /\ stage \in {"compare ait", "compare vstk"} => DOMAIN shadow \subseteq DOMAIN snap
  /\ \A k \in DOMAIN snap : snap[k] = balance[k]

\* What it has still to compare, and what the comparisons so far say.
ComparedRight ==
  /\ stage = "compare ait" => todo \subseteq ShadowKeys("ait")
  /\ stage = "compare vstk" => todo \subseteq ShadowKeys("vstk")
  /\ stage = "compare ait" => (drifted <=> Exceeds(ShadowKeys("ait") \ todo))
  /\ stage = "compare vstk" =>
       (drifted <=> Exceeds(ShadowKeys("ait") \cup (ShadowKeys("vstk") \ todo)))
  /\ stage = "verdict" => (drifted <=> Exceeds(DOMAIN shadow))

RateRight == synced => tax_rate_bps = rate

Fresh ==
  /\ stage \in {"asleep", "tax"} => ~synced /\ snap = NoMap
  /\ stage \in {"asleep", "tax", "read ait", "read vstk"} => ~drifted

VerdictInv ==
  /\ Fresh
  /\ quiet => ReadRight /\ ComparedRight /\ RateRight

\* What leaves the chain, the shadow and the audit alone leaves the verdict right,
\* and so does what ends the quiet.
LEMMA VerdictFrame ==
  ASSUME VerdictInv, UNCHANGED auditVars,
         \/ quiet' = FALSE
         \/ UNCHANGED <<balance, rate, shadow, quiet>>
  PROVE  VerdictInv'
<1>1. /\ stage' = stage /\ todo' = todo /\ snap' = snap /\ drifted' = drifted
      /\ tax_rate_bps' = tax_rate_bps /\ synced' = synced
  BY DEF auditVars
<1>2. Fresh'
  BY <1>1 DEF VerdictInv, Fresh
<1>3. CASE quiet' = FALSE
  BY <1>2, <1>3 DEF VerdictInv
<1>4. CASE UNCHANGED <<balance, rate, shadow, quiet>>
  <2>1. ReadRight => ReadRight'
    BY <1>1, <1>4 DEF ReadRight, ShadowKeys
  <2>2. ComparedRight => ComparedRight'
    BY <1>1, <1>4 DEF ComparedRight, Exceeds, ShadowKeys
  <2>3. RateRight => RateRight'
    BY <1>1, <1>4 DEF RateRight
  <2> QED
    BY <1>2, <1>4, <2>1, <2>2, <2>3 DEF VerdictInv
<1> QED
  BY <1>3, <1>4

\* Every step of the audit keeps its reads and its verdict right.
LEMMA VerdictAudit ==
  ASSUME RunnerTyped, AuditTyped, VerdictInv, Audit \/ Tick
  PROVE  VerdictInv'
<1>1. CASE Tick
  <2>1. /\ stage' = "tax" /\ stage = "asleep" /\ snap' = snap
        /\ drifted' = drifted /\ synced' = synced
    BY <1>1 DEF Tick
  <2>2. ~synced /\ ~drifted /\ snap = NoMap
    BY <2>1 DEF VerdictInv, Fresh
  <2>3. Fresh'
    BY <2>1, <2>2 DEF Fresh
  <2>4. ReadRight' /\ ComparedRight' /\ RateRight'
    BY <2>1, <2>2 DEF ReadRight, ComparedRight, RateRight, NoMap
  <2> QED
    BY <2>3, <2>4 DEF VerdictInv
<1>2. CASE SyncTreasuryTaxRate
  <2>1. /\ stage' = "read ait" /\ todo' = ShadowKeys("ait") /\ snap' = NoMap
        /\ drifted' = FALSE /\ shadow' = shadow /\ rate' = rate
        /\ synced' => tax_rate_bps' = rate
    BY <1>2 DEF SyncTreasuryTaxRate, othersOfAudit, chainVars, runnerVars
  <2>2. Fresh'
    BY <2>1 DEF Fresh
  <2>3. ReadRight' /\ ComparedRight' /\ RateRight'
    BY <2>1 DEF ReadRight, ComparedRight, RateRight, NoMap, ShadowKeys
  <2> QED
    BY <2>2, <2>3 DEF VerdictInv
<1>3. CASE ReadBalance
  <2>1. PICK k \in todo : snap' = Put(snap, k, balance[k]) /\ todo' = todo \ {k}
    BY <1>3 DEF ReadBalance
  <2>2. /\ stage' = stage /\ stage \in {"read ait", "read vstk"}
        /\ drifted' = drifted /\ tax_rate_bps' = tax_rate_bps /\ synced' = synced
        /\ quiet' = quiet /\ shadow' = shadow /\ balance' = balance /\ rate' = rate
    BY <1>3 DEF ReadBalance, othersOfAudit, chainVars, runnerVars
  <2>3. /\ DOMAIN snap' = DOMAIN snap \cup {k}
        /\ \A x \in DOMAIN snap' : snap'[x] = IF x = k THEN balance[k] ELSE snap[x]
    BY <2>1 DEF Put
  <2>4. Fresh'
    BY <2>2 DEF VerdictInv, Fresh
  <2>5. ReadRight => ReadRight'
    BY <2>1, <2>2, <2>3 DEF ReadRight, ShadowKeys
  <2>6. ComparedRight' /\ (RateRight => RateRight')
    BY <2>2 DEF ComparedRight, RateRight
  <2> QED
    BY <2>2, <2>4, <2>5, <2>6 DEF VerdictInv
<1>4. CASE RpcFails \/ StateMatch
  <2>1. stage' = "asleep" /\ ~synced' /\ snap' = NoMap /\ ~drifted' /\ ~quiet'
    BY <1>4 DEF RpcFails, StateMatch, AuditOver
  <2> QED
    BY <2>1 DEF VerdictInv, Fresh
<1>5. CASE NextStage
  <2>1. /\ snap' = snap /\ drifted' = drifted /\ tax_rate_bps' = tax_rate_bps
        /\ synced' = synced /\ quiet' = quiet
        /\ shadow' = shadow /\ balance' = balance /\ rate' = rate
    BY <1>5 DEF NextStage, othersOfAudit, chainVars, runnerVars
  <2>2. DOMAIN shadow = ShadowKeys("ait") \cup ShadowKeys("vstk")
    BY DEF RunnerTyped, Keys, ShadowKeys
  <2>3. RateRight => RateRight'
    BY <2>1 DEF RateRight
  <2>4. CASE Follows("read ait", "read vstk", ShadowKeys("vstk"))
    <3>1. /\ stage = "read ait" /\ todo = {} /\ stage' = "read vstk"
          /\ todo' = ShadowKeys("vstk")
      BY <2>4 DEF Follows
    <3>2. Fresh' /\ ComparedRight'
      BY <2>1, <3>1 DEF VerdictInv, Fresh, ComparedRight
    <3>3. ReadRight => ReadRight'
      BY <2>1, <3>1 DEF ReadRight, ShadowKeys
    <3> QED
      BY <2>1, <2>3, <3>2, <3>3 DEF VerdictInv
  <2>5. CASE Follows("read vstk", "compare ait", ShadowKeys("ait"))
    <3>1. /\ stage = "read vstk" /\ todo = {} /\ stage' = "compare ait"
          /\ todo' = ShadowKeys("ait")
      BY <2>5 DEF Follows
    <3>2. Fresh' /\ ~drifted'
      BY <2>1, <3>1 DEF VerdictInv, Fresh
    <3>3. ComparedRight'
      BY <2>1, <3>1, <3>2 DEF ComparedRight, Exceeds, ShadowKeys
    <3>4. ReadRight => ReadRight'
      BY <2>1, <2>2, <3>1 DEF ReadRight
    <3> QED
      BY <2>1, <2>3, <3>2, <3>3, <3>4 DEF VerdictInv
  <2>6. CASE Follows("compare ait", "compare vstk", ShadowKeys("vstk"))
    <3>1. /\ stage = "compare ait" /\ todo = {} /\ stage' = "compare vstk"
          /\ todo' = ShadowKeys("vstk")
      BY <2>6 DEF Follows
    <3>2. Fresh' /\ (ReadRight => ReadRight')
      BY <2>1, <3>1 DEF Fresh, ReadRight
    <3>3. ComparedRight => ComparedRight'
      BY <2>1, <3>1 DEF ComparedRight, Exceeds, ShadowKeys
    <3> QED
      BY <2>1, <2>3, <3>2, <3>3 DEF VerdictInv
  <2>7. CASE Follows("compare vstk", "verdict", {})
    <3>1. stage = "compare vstk" /\ todo = {} /\ stage' = "verdict"
      BY <2>7 DEF Follows
    <3>2. Fresh' /\ (ReadRight => ReadRight')
      BY <2>1, <3>1 DEF Fresh, ReadRight
    <3>3. ASSUME ComparedRight PROVE ComparedRight'
      <4>1. drifted <=> Exceeds(DOMAIN shadow)
        BY <2>2, <3>1, <3>3 DEF ComparedRight, Exceeds
      <4> QED
        BY <2>1, <3>1, <4>1 DEF ComparedRight, Exceeds
    <3> QED
      BY <2>1, <2>3, <3>2, <3>3 DEF VerdictInv
  <2> QED
    BY <1>5, <2>4, <2>5, <2>6, <2>7 DEF NextStage
<1>6. CASE Compare
  <2>1. PICK k \in todo :
          /\ drifted' = (drifted \/ ExceedsThreshold(shadow[k], ValueAt(snap, k)))
          /\ todo' = todo \ {k}
    BY <1>6 DEF Compare
  <2>2. /\ stage' = stage /\ stage \in {"compare ait", "compare vstk"}
        /\ snap' = snap /\ tax_rate_bps' = tax_rate_bps /\ synced' = synced
        /\ quiet' = quiet /\ shadow' = shadow /\ balance' = balance /\ rate' = rate
    BY <1>6 DEF Compare, othersOfAudit, chainVars, runnerVars
  <2>3. Fresh' /\ (ReadRight => ReadRight') /\ (RateRight => RateRight')
    BY <2>2 DEF Fresh, ReadRight, RateRight
  <2>4. ASSUME ReadRight, ComparedRight PROVE ComparedRight'
    <3>1. k \in DOMAIN shadow
      BY DEF AuditTyped
    <3>2. ValueAt(snap, k) = balance[k]
      BY <2>2, <2>4, <3>1 DEF ReadRight, ValueAt
    <3>3. drifted' <=> drifted \/ ExceedsThreshold(shadow[k], balance[k])
      BY <2>1, <3>2 DEF AuditTyped, ExceedsThreshold
    <3>4. /\ stage = "compare ait" => k \in ShadowKeys("ait")
          /\ stage = "compare vstk" => k \in ShadowKeys("vstk")
      BY <2>4 DEF ComparedRight
    <3>5. CASE stage = "compare ait" /\ k \in ShadowKeys("ait")
      BY <2>1, <2>2, <2>4, <3>3, <3>5 DEF ComparedRight, Exceeds, ShadowKeys
    <3>6. CASE stage = "compare vstk" /\ k \in ShadowKeys("vstk")
      BY <2>1, <2>2, <2>4, <3>3, <3>6 DEF ComparedRight, Exceeds, ShadowKeys
    <3> QED
      BY <2>2, <3>4, <3>5, <3>6
  <2> QED
    BY <2>2, <2>3, <2>4 DEF VerdictInv
<1>7. CASE CriticalDrift
  <2>1. CASE stage' = "asleep"
    <3>1. ~synced' /\ snap' = NoMap /\ ~drifted' /\ ~quiet'
      BY <1>7, <2>1 DEF CriticalDrift, ReportDrift, AuditOver
    <3> QED
      BY <2>1, <3>1 DEF VerdictInv, Fresh
  <2>2. CASE stage' # "asleep"
    <3>1. /\ stage' \in {"alignment", "reason"}
          /\ snap' = snap /\ synced' = synced /\ quiet' = quiet
          /\ tax_rate_bps' = tax_rate_bps /\ balance' = balance /\ rate' = rate
      BY <1>7, <2>2 DEF CriticalDrift, ReportDrift, AuditOver, auditLocals, restOfReport,
         othersOfAudit, chainVars
    <3>2. Fresh' /\ ComparedRight'
      BY <3>1 DEF Fresh, ComparedRight
    <3>3. (ReadRight => ReadRight') /\ (RateRight => RateRight')
      BY <3>1 DEF ReadRight, RateRight
    <3> QED
      BY <3>1, <3>2, <3>3 DEF VerdictInv
  <2> QED
    BY <2>1, <2>2
<1> QED
  BY <1>1, <1>2, <1>3, <1>4, <1>5, <1>6, <1>7 DEF Audit

\* The verdict of an audit during which neither the chain nor the shadow moved is
\* true of every key of the shadow, in whatever order the keys were read.
THEOREM QuietVerdictsAreTrue == Spec => []VerdictsTrue
<1>1. Init => TypeOK /\ VerdictInv
  <2>1. Init => VerdictInv
    BY DEF Init, VerdictInv, Fresh
  <2> QED
    BY <2>1, InitTyped
<1>2. (TypeOK /\ VerdictInv) /\ [Next]_vars => (TypeOK /\ VerdictInv)'
  <2> SUFFICES ASSUME TypeOK, VerdictInv, [Next]_vars PROVE VerdictInv'
    BY StepTyped
  <2>1. CASE Flow \/ NewHead \/ Runner \/ UNCHANGED vars
    <3>1. UNCHANGED auditVars
      BY <2>1 DEF Flow, DepositAit, WithdrawAit, IssueShares, SetTaxRate, SettleTrade, OnChain,
         NewHead, Runner, NewBlock, TakeSettled, ApplyFillShadow, vars
    <3>2. quiet' = FALSE \/ UNCHANGED <<balance, rate, shadow, quiet>>
      BY <2>1 DEF Flow, DepositAit, WithdrawAit, IssueShares, SetTaxRate, SettleTrade, OnChain,
         NewHead, Runner, NewBlock, TakeSettled, ApplyFillShadow, vars, chainVars, runnerVars
    <3> QED
      BY <3>1, <3>2, VerdictFrame
  <2>2. CASE Audit \/ Tick
    BY <2>2, VerdictAudit DEF TypeOK
  <2> QED
    BY <2>1, <2>2 DEF Next
<1>3. VerdictInv => VerdictsTrue
  <2>1. SUFFICES ASSUME ComparedRight, RateRight, stage = "verdict"
                 PROVE  /\ drifted <=> Exceeds(DOMAIN shadow)
                        /\ synced => tax_rate_bps = rate
    BY DEF VerdictInv, VerdictsTrue, Exceeds, ExceedsThreshold
  <2> QED
    BY <2>1 DEF ComparedRight, RateRight
<1> QED
  BY <1>1, <1>2, <1>3, PTL DEF Spec
=============================================================================
