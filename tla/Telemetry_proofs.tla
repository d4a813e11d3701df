---------------------------- MODULE Telemetry_proofs ----------------------------
(***************************************************************************)
(* Proofs about Telemetry, for any fills, heights, rates and bounds: two    *)
(* tasks that pause the engine in opposite orders leave health, reason,     *)
(* engine and runner in agreement; the three windows of 24 hours hold what  *)
(* their readers should find, whoever evicted before; and the velocity is   *)
(* the mean of the latest heights.                                          *)
(*                                                                         *)
(* A window is compared with its log, of which it holds a suffix: what was  *)
(* dropped has expired, and the sum is that of the suffix.  The block       *)
(* window is compared with the log of its samples in the same way.          *)
(***************************************************************************)
EXTENDS Telemetry, Sums_proofs

-----------------------------------------------------------------------------
(* What is assumed of the constants, one by one. *)
LEMMA MaxBlocksPositive == MaxBlocks \in Nat \ {0}
  BY TelemetryAssumption

LEMMA MaxU256Positive == MaxU256 \in Nat \ {0}
  BY WindowAssumption

LEMMA HeightsAreNumbers == Heights \subseteq Nat
  BY TelemetryAssumption

LEMMA RatesBounded == Rates \subseteq 0..10000
  BY TelemetryAssumption

LEMMA SeqLength ==
  ASSUME NEW S, NEW q \in Seq(S)
  PROVE  Len(q) \in Nat
  OBVIOUS

LEMMA TailEntries ==
  ASSUME NEW S, NEW q \in Seq(S), q # <<>>
  PROVE  /\ Len(Tail(q)) = Len(q) - 1
         /\ \A i \in 1..Len(Tail(q)) : Tail(q)[i] = q[i + 1]
  OBVIOUS

LEMMA FillsBounded == Fills \subseteq [vstk : 1..MaxU256, ait : 1..MaxU256]
  BY TelemetryAssumption

-----------------------------------------------------------------------------
(* The pauses. *)
\* What a task that is in the middle of a pause has done so far.
AuditDid ==
  /\ audit \in {"asleep", "reason", "stop"}
  /\ audit \in {"reason", "stop"} => matching_paused
  /\ audit = "stop" => matching_pause # "none"

SettlerDid ==
  /\ settler \in {"pause", "stop"} => matching_pause # "none"
  /\ settler = "stop" => matching_paused

\* A pause that is not complete is some task's to complete.
SomebodyFinishes ==
  /\ match_paused => matching_paused
  /\ matching_paused /\ ~match_paused => audit \in {"reason", "stop"} \/ settler = "stop"
  /\ matching_paused /\ matching_pause = "none" => audit = "reason"
  /\ matching_pause # "none" /\ ~matching_paused => settler = "pause"

PauseInv ==
  /\ {matching_paused, match_paused} \subseteq BOOLEAN
  /\ AuditDid
  /\ SettlerDid
  /\ SomebodyFinishes

\* What leaves the pauses and the two tasks' places in them alone keeps the invariant.
LEMMA PauseFrame ==
  ASSUME PauseInv, UNCHANGED <<pauseVars, audit>>,
         \/ settler' = settler
         \/ settler \notin {"pause", "stop"} /\ settler' \notin {"pause", "stop"}
  PROVE  PauseInv'
  BY DEF PauseInv, AuditDid, SettlerDid, SomebodyFinishes, pauseVars

\* The settler's part of a pause.
LEMMA PauseBySettler ==
  ASSUME PauseInv, SettlementFailure
  PROVE  PauseInv'
<1>1. audit' = audit
  BY DEF SettlementFailure, others
<1>2. CASE settler = "reason" /\ matching_pause' = "SettlementFailure" /\ settler' = "pause"
           /\ UNCHANGED <<matching_paused, match_paused>>
  BY <1>1, <1>2 DEF PauseInv, AuditDid, SettlerDid, SomebodyFinishes
<1>3. CASE settler = "pause" /\ matching_paused' = TRUE /\ settler' = "stop"
           /\ UNCHANGED <<matching_pause, match_paused>>
  BY <1>1, <1>3 DEF PauseInv, AuditDid, SettlerDid, SomebodyFinishes
<1>4. CASE settler = "stop" /\ match_paused' = TRUE /\ settler' = "call"
           /\ UNCHANGED <<matching_pause, matching_paused>>
  BY <1>1, <1>4 DEF PauseInv, AuditDid, SettlerDid, SomebodyFinishes
<1> QED
  BY <1>2, <1>3, <1>4 DEF SettlementFailure

\* The audit's part.
LEMMA PauseByAudit ==
  ASSUME PauseInv, CriticalDrift
  PROVE  PauseInv'
<1>1. settler' = settler
  BY DEF CriticalDrift, taskVars
<1>2. CASE audit = "asleep" /\ matching_paused' = TRUE /\ audit' = "reason"
           /\ UNCHANGED <<matching_pause, match_paused>>
  BY <1>1, <1>2 DEF PauseInv, AuditDid, SettlerDid, SomebodyFinishes
<1>3. CASE audit = "reason" /\ matching_pause' = "Drift" /\ audit' = "stop"
           /\ UNCHANGED <<matching_paused, match_paused>>
  BY <1>1, <1>3 DEF PauseInv, AuditDid, SettlerDid, SomebodyFinishes
<1>4. CASE audit = "stop" /\ match_paused' = TRUE /\ audit' = "asleep"
           /\ UNCHANGED <<matching_paused, matching_pause>>
  BY <1>1, <1>4 DEF PauseInv, AuditDid, SettlerDid, SomebodyFinishes
<1> QED
  BY <1>2, <1>3, <1>4 DEF CriticalDrift

\* Every step keeps the invariant.
LEMMA PauseStep == PauseInv /\ [Next]_vars => PauseInv'
<1> SUFFICES ASSUME PauseInv, [Next]_vars PROVE PauseInv'
  OBVIOUS
<1>1. CASE Settler /\ ~SettlementFailure
  <2>1. UNCHANGED <<pauseVars, audit>>
    BY <1>1 DEF Settler, ReceiveFill, FlushBatch, RecordTradeSettled, RecordVstkNotional,
       RecordTax, CallSucceeds, CallFails, BatchDone, others
  <2>2. \/ settler' = settler
        \/ settler \notin {"pause", "stop"} /\ settler' \notin {"pause", "stop"}
    BY <1>1 DEF Settler, ReceiveFill, FlushBatch, RecordTradeSettled, RecordVstkNotional,
       RecordTax, CallSucceeds, CallFails, BatchDone
  <2> QED
    BY <2>1, <2>2, PauseFrame
<1>2. CASE SettlementFailure
  BY <1>2, PauseBySettler
<1>3. CASE CriticalDrift
  BY <1>3, PauseByAudit
<1>4. CASE ListenerExits \/ Pass \/ ToMetricsJson \/ ToSummaryJson \/ UNCHANGED vars
  <2>1. UNCHANGED <<pauseVars, audit, settler>>
    BY <1>4 DEF ListenerExits, Pass, ToMetricsJson, ToSummaryJson, EvictIn, vars, taskVars, others
  <2> QED
    BY <2>1, PauseFrame
<1> QED
  BY <1>1, <1>2, <1>3, <1>4 DEF Next

\* When neither the settler nor the audit is in the middle of a pause, the health that
\* the dashboard shows is that of engine and runner.
THEOREM HealthStaysTrue == Spec => []HealthShowsPause
<1>1. Init => PauseInv
  BY DEF Init, PauseInv, AuditDid, SettlerDid, SomebodyFinishes
<1>2. PauseInv => HealthShowsPause
  <2>1. SUFFICES ASSUME PauseInv, audit = "asleep", settler \notin {"pause", "stop"}
                 PROVE  HealthShowsPause
    BY DEF HealthShowsPause
  <2>2. match_paused = matching_paused /\ (matching_paused <=> matching_pause # "none")
    BY <2>1 DEF PauseInv, SomebodyFinishes
  <2>3. CASE ~chain_listener_connected
    BY <2>2, <2>3 DEF HealthShowsPause, HealthScore
  <2>4. CASE chain_listener_connected /\ matching_paused
    BY <2>2, <2>4 DEF HealthShowsPause, HealthScore
  <2>5. CASE chain_listener_connected /\ ~matching_paused
    BY <2>2, <2>5 DEF HealthShowsPause, HealthScore
  <2> QED
    BY <2>3, <2>4, <2>5
<1> QED
  BY <1>1, <1>2, PauseStep, PTL DEF Spec

-----------------------------------------------------------------------------
(* Saturating sums. *)
IsRun(h, start, g, n) ==
  /\ h = [i \in 0..n |-> h[i]]
  /\ h[0] = start
  /\ \A i \in 1..n : h[i] = SaturatingAdd(h[i - 1], g[i])

LEMMA RunExists == \A start, g : \A n \in Nat : \E h : IsRun(h, start, g, n)
<1> SUFFICES ASSUME NEW start, NEW g PROVE \A n \in Nat : \E h : IsRun(h, start, g, n)
  OBVIOUS
<1> DEFINE S == {n \in Nat : \E h : IsRun(h, start, g, n)}
<1>1. 0 \in S
  <2> DEFINE h == [i \in 0..0 |-> start]
  <2>1. h[0] = start /\ h = [i \in 0..0 |-> h[i]] /\ 1..0 = {}
    OBVIOUS
  <2>2. IsRun(h, start, g, 0)
    BY <2>1 DEF IsRun
  <2> QED
    BY <2>2
<1>2. ASSUME NEW n \in Nat, n \in S PROVE n + 1 \in S
  <2>1. PICK h : IsRun(h, start, g, n)
    BY <1>2
  <2> DEFINE k == [i \in 0..(n + 1) |->
                     IF i = n + 1 THEN SaturatingAdd(h[n], g[n + 1]) ELSE h[i]]
  <2>2. /\ k[n + 1] = SaturatingAdd(h[n], g[n + 1])
        /\ \A i \in 0..n : k[i] = h[i]
        /\ k = [i \in 0..(n + 1) |-> k[i]]
    OBVIOUS
  <2> HIDE DEF k
  <2>3. k[0] = start
    <3>1. h[0] = start /\ 0 \in 0..n
      BY <2>1 DEF IsRun
    <3> QED
      BY <2>2, <3>1
  <2>4. ASSUME NEW i \in 1..(n + 1) PROVE k[i] = SaturatingAdd(k[i - 1], g[i])
    <3>1. CASE i = n + 1
      <4>1. k[i - 1] = h[n]
        BY <2>2, <3>1
      <4> QED
        BY <2>2, <3>1, <4>1
    <3>2. CASE i # n + 1
      <4>1. i \in 1..n /\ i \in 0..n /\ i - 1 \in 0..n
        BY <3>2
      <4> QED
        BY <2>1, <2>2, <4>1 DEF IsRun
    <3> QED
      BY <3>1, <3>2
  <2>5. IsRun(k, start, g, n + 1)
    BY <2>2, <2>3, <2>4 DEF IsRun
  <2> QED
    BY <2>5
<1> HIDE DEF S
<1>3. Nat \subseteq S
  BY <1>1, <1>2, SetInduction
<1> QED
  BY <1>3 DEF S

LEMMA RunsAgree ==
  ASSUME NEW start, NEW g, NEW n \in Nat, NEW m \in Nat, NEW h, NEW k,
         IsRun(h, start, g, n), IsRun(k, start, g, m)
  PROVE  \A i \in Nat : i <= n /\ i <= m => h[i] = k[i]
<1> DEFINE S == {i \in Nat : i <= n /\ i <= m => h[i] = k[i]}
<1>1. 0 \in S
  BY DEF IsRun
<1>2. ASSUME NEW i \in Nat, i \in S PROVE i + 1 \in S
  <2>1. CASE i + 1 <= n /\ i + 1 <= m
    <3>1. h[i] = k[i] /\ (i + 1) - 1 = i
      BY <1>2, <2>1
    <3>2. i + 1 \in 1..n /\ i + 1 \in 1..m
      BY <2>1
    <3>3. /\ h[i + 1] = SaturatingAdd(h[(i + 1) - 1], g[i + 1])
          /\ k[i + 1] = SaturatingAdd(k[(i + 1) - 1], g[i + 1])
      BY <3>2 DEF IsRun
    <3>4. h[i + 1] = k[i + 1]
      BY <3>1, <3>3
    <3> QED
      BY <3>4
  <2> QED
    BY <2>1
<1> HIDE DEF S
<1>3. Nat \subseteq S
  BY <1>1, <1>2, SetInduction
<1> QED
  BY <1>3 DEF S

RunStep(start, g, h, i) == IF i = 0 THEN start ELSE SaturatingAdd(h[i - 1], g[i])

LEMMA RunningSum == \A start, g : \E h : h = [i \in Nat |-> RunStep(start, g, h, i)]
<1> SUFFICES ASSUME NEW start, NEW g PROVE \E h : h = [i \in Nat |-> RunStep(start, g, h, i)]
  OBVIOUS
<1> DEFINE c(n) == CHOOSE h : IsRun(h, start, g, n)
           F == [n \in Nat |-> c(n)[n]]
<1>1. ASSUME NEW n \in Nat PROVE IsRun(c(n), start, g, n)
  BY RunExists
<1> HIDE DEF c
<1>2. ASSUME NEW n \in Nat PROVE F[n] = RunStep(start, g, F, n)
  <2>1. CASE n = 0
    BY <1>1, <2>1 DEF IsRun, RunStep
  <2>2. CASE n # 0
    <3>1. n - 1 \in Nat /\ n \in 1..n /\ n - 1 <= n
      BY <2>2
    <3>2. c(n)[n] = SaturatingAdd(c(n)[n - 1], g[n])
      BY <1>1, <3>1 DEF IsRun
    <3>3. IsRun(c(n), start, g, n) /\ IsRun(c(n - 1), start, g, n - 1)
      BY <1>1, <3>1
    <3>4. c(n)[n - 1] = c(n - 1)[n - 1]
      BY <3>1, <3>3, RunsAgree
    <3> QED
      BY <2>2, <3>1, <3>2, <3>4 DEF RunStep
  <2> QED
    BY <2>1, <2>2
<1>3. F = [n \in Nat |-> F[n]]
  OBVIOUS
<1> HIDE DEF F
<1>4. F = [n \in Nat |-> RunStep(start, g, F, n)]
  BY <1>2, <1>3
<1> QED
  BY <1>4

LEMMA SaturatingSumStep ==
  ASSUME NEW start, NEW g
  PROVE  /\ SaturatingSum(start, g, 0) = start
         /\ \A n \in Nat : SaturatingSum(start, g, n + 1)
                             = SaturatingAdd(SaturatingSum(start, g, n), g[n + 1])
<1> DEFINE sum == CHOOSE h : h = [i \in Nat |-> RunStep(start, g, h, i)]
<1>1. sum = [i \in Nat |-> RunStep(start, g, sum, i)]
  BY RunningSum
<1>2. \A n : SaturatingSum(start, g, n) = sum[n]
  BY DEF SaturatingSum, RunStep
<1> HIDE DEF sum
<1>3. sum[0] = start
  BY <1>1 DEF RunStep
<1>4. ASSUME NEW n \in Nat PROVE sum[n + 1] = SaturatingAdd(sum[n], g[n + 1])
  <2>1. n + 1 \in Nat /\ n + 1 # 0 /\ (n + 1) - 1 = n
    OBVIOUS
  <2>2. sum[n + 1] = RunStep(start, g, sum, n + 1)
    BY <1>1, <2>1
  <2> QED
    BY <2>1, <2>2 DEF RunStep
<1> QED
  BY <1>2, <1>3, <1>4

LEMMA SaturatingSumNext ==
  ASSUME NEW start, NEW g, NEW k \in Nat
  PROVE  SaturatingSum(start, g, k + 1) = SaturatingAdd(SaturatingSum(start, g, k), g[k + 1])
  BY SaturatingSumStep

\* What is added only up saturates at the top.
LEMMA SaturatingUp ==
  ASSUME NEW start \in 0..MaxU256, NEW n \in Nat, NEW g, \A i \in 1..n : g[i] \in Nat
  PROVE  SaturatingSum(start, g, n) =
           IF start + SumTo(g, n) <= MaxU256 THEN start + SumTo(g, n) ELSE MaxU256
<1> DEFINE Right(k) == SaturatingSum(start, g, k) =
                         IF start + SumTo(g, k) <= MaxU256 THEN start + SumTo(g, k)
                                                           ELSE MaxU256
           S == {k \in Nat : k <= n => SumTo(g, k) \in Nat /\ Right(k)}
<1>0. MaxU256 \in Nat
  BY WindowAssumption
<1>1. 0 \in S
  <2>1. SumTo(g, 0) = 0 /\ SaturatingSum(start, g, 0) = start
    BY SumToStep, SaturatingSumStep
  <2> QED
    BY <1>0, <2>1
<1>2. ASSUME NEW k \in Nat, k \in S PROVE k + 1 \in S
  <2> SUFFICES ASSUME k + 1 <= n PROVE SumTo(g, k + 1) \in Nat /\ Right(k + 1)
    BY DEF S
  <2>1. SumTo(g, k) \in Nat /\ Right(k) /\ g[k + 1] \in Nat
    BY <1>2
  <2>2. SumTo(g, k + 1) = SumTo(g, k) + g[k + 1]
    BY SumToStep
  <2>8. SaturatingSum(start, g, k + 1) = SaturatingAdd(SaturatingSum(start, g, k), g[k + 1])
    BY SaturatingSumNext
  <2>3. PICK s \in Nat : s = SumTo(g, k)
    BY <2>1
  <2>4. PICK a \in Nat : a = g[k + 1]
    BY <2>1
  <2>5. SaturatingSum(start, g, k + 1)
          = SaturatingAdd(IF start + s <= MaxU256 THEN start + s ELSE MaxU256, a)
    BY <2>1, <2>3, <2>4, <2>8
  <2>6. SumTo(g, k + 1) = s + a
    BY <2>2, <2>3, <2>4
  <2>7. SaturatingAdd(IF start + s <= MaxU256 THEN start + s ELSE MaxU256, a)
          = IF start + (s + a) <= MaxU256 THEN start + (s + a) ELSE MaxU256
    BY <1>0 DEF SaturatingAdd, Saturating
  <2> QED
    BY <2>5, <2>6, <2>7
<1> HIDE DEF S
<1>3. Nat \subseteq S
  BY <1>1, <1>2, SetInduction
<1> QED
  BY <1>3 DEF S

\* What is only subtracted stops at zero.
LEMMA SaturatingDown ==
  ASSUME NEW start \in 0..MaxU256, NEW n \in Nat, NEW g, NEW h,
         \A i \in 1..n : g[i] \in Nat /\ h[i] = -g[i]
  PROVE  SaturatingSum(start, h, n) =
           IF SumTo(g, n) <= start THEN start - SumTo(g, n) ELSE 0
<1> DEFINE Right(k) == SaturatingSum(start, h, k) =
                         IF SumTo(g, k) <= start THEN start - SumTo(g, k) ELSE 0
           S == {k \in Nat : k <= n => SumTo(g, k) \in Nat /\ Right(k)}
<1>0. MaxU256 \in Nat
  BY WindowAssumption
<1>1. 0 \in S
  <2>1. SumTo(g, 0) = 0 /\ SaturatingSum(start, h, 0) = start
    BY SumToStep, SaturatingSumStep
  <2> QED
    BY <1>0, <2>1
<1>2. ASSUME NEW k \in Nat, k \in S PROVE k + 1 \in S
  <2> SUFFICES ASSUME k + 1 <= n PROVE SumTo(g, k + 1) \in Nat /\ Right(k + 1)
    BY DEF S
  <2>1. SumTo(g, k) \in Nat /\ Right(k) /\ g[k + 1] \in Nat /\ h[k + 1] = -g[k + 1]
    BY <1>2
  <2>9. SumTo(g, k + 1) = SumTo(g, k) + g[k + 1]
    BY SumToStep
  <2>10. SaturatingSum(start, h, k + 1) = SaturatingAdd(SaturatingSum(start, h, k), h[k + 1])
    BY SaturatingSumNext
  <2>2. /\ SumTo(g, k + 1) = SumTo(g, k) + g[k + 1]
        /\ SaturatingSum(start, h, k + 1) = SaturatingAdd(SaturatingSum(start, h, k), h[k + 1])
    BY <2>9, <2>10
  <2>3. PICK s \in Nat : s = SumTo(g, k)
    BY <2>1
  <2>4. PICK a \in Nat : a = g[k + 1]
    BY <2>1
  <2>5. SaturatingSum(start, h, k + 1)
          = SaturatingAdd(IF s <= start THEN start - s ELSE 0, -a)
    BY <2>1, <2>2, <2>3, <2>4
  <2>6. SumTo(g, k + 1) = s + a
    BY <2>2, <2>3, <2>4
  <2>7. SaturatingAdd(IF s <= start THEN start - s ELSE 0, -a)
          = IF s + a <= start THEN start - (s + a) ELSE 0
    BY <1>0 DEF SaturatingAdd, Saturating
  <2> QED
    BY <2>5, <2>6, <2>7
<1> HIDE DEF S
<1>3. Nat \subseteq S
  BY <1>1, <1>2, SetInduction
<1> QED
  BY <1>3 DEF S

-----------------------------------------------------------------------------
(* Sums of the amounts at some places of a log. *)
Amounts(past) == \A i \in 1..Len(past) : past[i].amount \in Nat

LEMMA SumInType ==
  ASSUME NEW past, Len(past) \in Nat, Amounts(past), NEW places
  PROVE  SumIn(past, places) \in Nat
<1> DEFINE g == [i \in 1..Len(past) |-> IF i \in places THEN past[i].amount ELSE 0]
           z == [i \in 1..Len(past) |-> 0]
<1>1. \A i \in 1..Len(past) : g[i] \in Int /\ z[i] \in Int /\ z[i] <= g[i] /\ z[i] = 0
  BY DEF Amounts
<1> HIDE DEF g, z
<1>2. SumTo(g, Len(past)) \in Int /\ SumTo(z, Len(past)) <= SumTo(g, Len(past))
  BY <1>1, SumToType, SumToMono
<1>3. SumTo(z, Len(past)) = 0
  BY <1>1, SumToZero
<1> QED
  BY <1>2, <1>3 DEF SumIn, g

\* The same places, as far as the log goes.
LEMMA SumInSame ==
  ASSUME NEW past, Len(past) \in Nat, NEW p, NEW q,
         \A i \in 1..Len(past) : i \in p <=> i \in q
  PROVE  SumIn(past, p) = SumIn(past, q)
<1> DEFINE g == [i \in 1..Len(past) |-> IF i \in p THEN past[i].amount ELSE 0]
           h == [i \in 1..Len(past) |-> IF i \in q THEN past[i].amount ELSE 0]
<1>1. \A i \in 1..Len(past) : g[i] = h[i]
  OBVIOUS
<1> HIDE DEF g, h
<1>2. SumTo(g, Len(past)) = SumTo(h, Len(past))
  BY <1>1, SumToSame
<1> QED
  BY <1>2 DEF SumIn, g, h

\* Places that are apart.
LEMMA SumInApart ==
  ASSUME NEW past, Len(past) \in Nat, Amounts(past), NEW p, NEW q, NEW r,
         \A i \in 1..Len(past) : (i \in r <=> i \in p \/ i \in q) /\ ~(i \in p /\ i \in q)
  PROVE  SumIn(past, r) = SumIn(past, p) + SumIn(past, q)
<1> DEFINE f == [i \in 1..Len(past) |-> IF i \in p THEN past[i].amount ELSE 0]
           g == [i \in 1..Len(past) |-> IF i \in q THEN past[i].amount ELSE 0]
           h == [i \in 1..Len(past) |-> IF i \in r THEN past[i].amount ELSE 0]
<1>1. \A i \in 1..Len(past) : f[i] \in Int /\ g[i] \in Int /\ h[i] = f[i] + g[i]
  BY DEF Amounts
<1> HIDE DEF f, g, h
<1>2. SumTo(h, Len(past)) = SumTo(f, Len(past)) + SumTo(g, Len(past))
  BY <1>1, SumToAdd
<1> QED
  BY <1>2 DEF SumIn, f, g, h

LEMMA SumInSplit ==
  ASSUME NEW past, Len(past) \in Nat, Amounts(past), NEW k \in Nat, NEW n \in Nat,
         k + n <= Len(past)
  PROVE  SumIn(past, (k + 1)..Len(past))
           = SumIn(past, (k + 1)..(k + n)) + SumIn(past, (k + n + 1)..Len(past))
<1>1. PICK p, q, r : p = (k + 1)..(k + n) /\ q = (k + n + 1)..Len(past) /\ r = (k + 1)..Len(past)
  OBVIOUS
<1>2. \A i \in 1..Len(past) : (i \in r <=> i \in p \/ i \in q) /\ ~(i \in p /\ i \in q)
  BY <1>1
<1>3. SumIn(past, r) = SumIn(past, p) + SumIn(past, q)
  BY <1>2, SumInApart
<1> QED
  BY <1>1, <1>3

\* More places, no less.
LEMMA SumInMono ==
  ASSUME NEW past, Len(past) \in Nat, Amounts(past), NEW p, NEW q,
         \A i \in 1..Len(past) : i \in p => i \in q
  PROVE  SumIn(past, p) <= SumIn(past, q)
<1> DEFINE g == [i \in 1..Len(past) |-> IF i \in p THEN past[i].amount ELSE 0]
           h == [i \in 1..Len(past) |-> IF i \in q THEN past[i].amount ELSE 0]
<1>1. \A i \in 1..Len(past) : g[i] \in Int /\ h[i] \in Int /\ g[i] <= h[i]
  BY DEF Amounts
<1> HIDE DEF g, h
<1>2. SumTo(g, Len(past)) <= SumTo(h, Len(past))
  BY <1>1, SumToMono
<1> QED
  BY <1>2 DEF SumIn, g, h

\* One place.
LEMMA SumInOne ==
  ASSUME NEW past, Len(past) \in Nat, Amounts(past), NEW k \in 1..Len(past)
  PROVE  SumIn(past, {k}) = past[k].amount
<1> DEFINE g == [i \in 1..Len(past) |-> IF i \in {k} THEN past[i].amount ELSE 0]
           z == [i \in 1..Len(past) |-> 0]
<1>1. \A i \in 1..Len(past) : g[i] \in Int /\ z[i] \in Int /\ z[i] = 0
  BY DEF Amounts
<1>2. \A i \in 1..Len(past) : i # k => g[i] = z[i]
  OBVIOUS
<1>3. g[k] = past[k].amount /\ z[k] = 0 /\ g[k] \in Int
  BY DEF Amounts
<1> HIDE DEF g, z
<1>4. SumTo(g, Len(past)) = SumTo(z, Len(past)) - z[k] + g[k]
  <2>1. \A i \in 1..Len(past) : z[i] \in Int /\ g[i] \in Int
    BY <1>1
  <2> QED
    BY <1>2, <2>1, SumToChange
<1>5. SumTo(z, Len(past)) = 0
  BY <1>1, SumToZero
<1>6. SumTo(g, Len(past)) = past[k].amount
  BY <1>3, <1>4, <1>5
<1> QED
  BY <1>6 DEF SumIn, g

\* A stretch of places.
LEMMA SumInStretch ==
  ASSUME NEW past, Len(past) \in Nat, Amounts(past), NEW k \in Nat, NEW n \in Nat,
         k + n <= Len(past), NEW g, \A i \in 1..n : g[i] = past[k + i].amount
  PROVE  SumTo(g, n) = SumIn(past, (k + 1)..(k + n))
<1> DEFINE S == {m \in Nat : m <= n => SumTo(g, m) = SumIn(past, (k + 1)..(k + m))}
<1>1. 0 \in S
  <2>1. SumIn(past, (k + 1)..(k + 0)) = SumIn(past, {})
    BY SumInSame
  <2>2. SumIn(past, {}) = SumIn(past, {}) + SumIn(past, {})
    BY SumInApart
  <2>3. SumIn(past, {}) \in Nat
    BY SumInType
  <2>4. SumTo(g, 0) = 0
    BY SumToStep
  <2>5. SumTo(g, 0) = SumIn(past, (k + 1)..(k + 0))
    BY <2>1, <2>2, <2>3, <2>4
  <2> QED
    BY <2>5
<1>2. ASSUME NEW m \in Nat, m \in S PROVE m + 1 \in S
  <2> SUFFICES ASSUME m + 1 <= n
               PROVE  SumTo(g, m + 1) = SumIn(past, (k + 1)..(k + (m + 1)))
    OBVIOUS
  <2>1. SumTo(g, m) = SumIn(past, (k + 1)..(k + m))
    BY <1>2
  <2>2. k + (m + 1) \in 1..Len(past) /\ g[m + 1] = past[k + (m + 1)].amount
    OBVIOUS
  <2>3. SumIn(past, {k + (m + 1)}) = past[k + (m + 1)].amount
    BY <2>2, SumInOne
  <2>4. \A i \in 1..Len(past) :
          /\ i \in (k + 1)..(k + (m + 1)) <=> i \in (k + 1)..(k + m) \/ i \in {k + (m + 1)}
          /\ ~(i \in (k + 1)..(k + m) /\ i \in {k + (m + 1)})
    OBVIOUS
  <2>5. SumIn(past, (k + 1)..(k + (m + 1)))
          = SumIn(past, (k + 1)..(k + m)) + SumIn(past, {k + (m + 1)})
    BY <2>4, SumInApart
  <2>6. SumTo(g, m + 1) = SumTo(g, m) + g[m + 1]
    BY SumToStep
  <2> QED
    BY <2>1, <2>2, <2>3, <2>5, <2>6
<1> HIDE DEF S
<1>3. Nat \subseteq S
  BY <1>1, <1>2, SetInduction
<1> QED
  BY <1>3 DEF S

\* A log that is one longer.
LEMMA SumInLonger ==
  ASSUME NEW past, NEW l, Len(past) \in Nat, Len(l) = Len(past) + 1, Amounts(past),
         \A i \in 1..Len(past) : l[i] = past[i],
         NEW p, NEW q, \A i \in 1..Len(past) : i \in p <=> i \in q
  PROVE  SumIn(l, q) = SumIn(past, p) + (IF Len(l) \in q THEN l[Len(l)].amount ELSE 0)
<1> DEFINE g == [i \in 1..Len(past) |-> IF i \in p THEN past[i].amount ELSE 0]
           h == [i \in 1..Len(l) |-> IF i \in q THEN l[i].amount ELSE 0]
<1>1. /\ \A i \in 1..Len(past) : g[i] = h[i]
      /\ h[Len(past) + 1] = IF Len(l) \in q THEN l[Len(l)].amount ELSE 0
  OBVIOUS
<1> HIDE DEF g, h
<1>2. SumTo(g, Len(past)) = SumTo(h, Len(past))
  BY <1>1, SumToSame
<1>3. SumTo(h, Len(past) + 1) = SumTo(h, Len(past)) + h[Len(past) + 1]
  BY SumToStep
<1>4. SumTo(h, Len(l)) = SumTo(g, Len(past)) + (IF Len(l) \in q THEN l[Len(l)].amount ELSE 0)
  BY <1>1, <1>2, <1>3
<1> QED
  BY <1>4 DEF SumIn, g, h

-----------------------------------------------------------------------------
(* A window holds the latest samples of its log; those before have expired. *)
InTime(past, t) ==
  /\ past \in Seq(Samples)
  /\ \A i \in 1..Len(past) : past[i].at <= t
  /\ \A i, j \in 1..Len(past) : i <= j => past[i].at <= past[j].at
LeftOf(w, past) == Len(past) - Len(w.samples)
Holds(w, past) ==
  /\ LeftOf(w, past) >= 0
  /\ \A i \in 1..Len(w.samples) : w.samples[i] = past[LeftOf(w, past) + i]
AddsUp(w, past) ==
  LET held == SumIn(past, (LeftOf(w, past) + 1)..Len(past)) IN
  /\ w.sum <= held
  /\ SumOf(past) <= MaxU256 => w.sum = held
LeftExpired(w, past, t) == \A i \in 1..LeftOf(w, past) : Expired(past[i].at, t)
WindowInv(w, past, t) ==
  /\ w \in Windows
  /\ InTime(past, t)
  /\ Holds(w, past)
  /\ AddsUp(w, past)
  /\ LeftExpired(w, past, t)

LEMMA LogAmounts ==
  ASSUME NEW past \in Seq(Samples)
  PROVE  Len(past) \in Nat /\ Amounts(past) /\ \A i \in 1..Len(past) : past[i].at \in Nat
<1>1. \A i \in 1..Len(past) : past[i] \in Samples
  OBVIOUS
<1> QED
  BY <1>1, WindowAssumption DEF Samples, Amounts

\* Eviction stops at the first sample that has not expired.
LEMMA LeavingFacts ==
  ASSUME NEW samples, Len(samples) \in Nat, NEW t
  PROVE  /\ Leaving(samples, t) \in 0..Len(samples)
         /\ \A i \in 1..Leaving(samples, t) : Expired(samples[i].at, t)
         /\ Leaving(samples, t) < Len(samples) => ~Expired(samples[Leaving(samples, t) + 1].at, t)
<1> DEFINE T == {n \in 0..Len(samples) : n < Len(samples) => ~Expired(samples[n + 1].at, t)}
<1>1. Len(samples) \in T
  OBVIOUS
<1>2. T \subseteq Nat /\ T \subseteq 0..Len(samples)
  OBVIOUS
<1>3. PICK m \in T : \A k \in T : m <= k
  <2> HIDE DEF T
  <2> QED
    BY <1>1, <1>2, LeastElement
<1>4. m \in 0..Len(samples) /\ (m < Len(samples) => ~Expired(samples[m + 1].at, t))
  OBVIOUS
<1>5. ASSUME NEW i \in 1..m PROVE Expired(samples[i].at, t)
  <2>1. /\ i - 1 \in 0..Len(samples) /\ i - 1 < Len(samples) /\ (i - 1) + 1 = i
        /\ ~(m <= i - 1)
    BY <1>4
  <2>2. i - 1 \notin T
    BY <1>3, <2>1
  <2> QED
    BY <2>1, <2>2
<1> HIDE DEF T
<1> DEFINE P(n) == /\ \A i \in 1..n : Expired(samples[i].at, t)
                   /\ n < Len(samples) => ~Expired(samples[n + 1].at, t)
<1>6. P(m)
  BY <1>4, <1>5
<1>7. Leaving(samples, t) = CHOOSE n \in 0..Len(samples) : P(n)
  BY DEF Leaving
<1> HIDE DEF P
<1>8. Leaving(samples, t) \in 0..Len(samples) /\ P(Leaving(samples, t))
  BY <1>4, <1>6, <1>7
<1> QED
  BY <1>8 DEF P

\* What evict_old keeps.
LEMMA EvictFacts ==
  ASSUME NEW w \in Windows, NEW t
  PROVE  /\ Leaving(w.samples, t) \in 0..Len(w.samples)
         /\ EvictOld(w, t).samples \in Seq(Samples)
         /\ Len(EvictOld(w, t).samples) = Len(w.samples) - Leaving(w.samples, t)
         /\ \A i \in 1..Len(EvictOld(w, t).samples) :
              EvictOld(w, t).samples[i] = w.samples[Leaving(w.samples, t) + i]
<1> DEFINE n == Leaving(w.samples, t)
<1>1. w.samples \in Seq(Samples) /\ Len(w.samples) \in Nat
  BY DEF Windows
<1>2. n \in 0..Len(w.samples)
  BY <1>1, LeavingFacts
<1>3. EvictOld(w, t).samples = SubSeq(w.samples, n + 1, Len(w.samples))
  BY DEF EvictOld
<1> HIDE DEF n
<1>4. n + 1 \in 1..(Len(w.samples) + 1)
  BY <1>1, <1>2
<1>5. /\ SubSeq(w.samples, n + 1, Len(w.samples)) \in Seq(Samples)
      /\ Len(SubSeq(w.samples, n + 1, Len(w.samples))) = Len(w.samples) - n
      /\ \A i \in 1..(Len(w.samples) - n) :
           SubSeq(w.samples, n + 1, Len(w.samples))[i] = w.samples[n + i]
  BY <1>1, <1>2, <1>4
<1> QED
  BY <1>2, <1>3, <1>5 DEF n

\* The sum of a window goes down by what leaves, and not below zero.
LEMMA EvictSum ==
  ASSUME NEW w \in Windows, NEW past, NEW t, InTime(past, t), Holds(w, past)
  PROVE  LET k == LeftOf(w, past)
             n == Leaving(w.samples, t)
             lost == SumIn(past, (k + 1)..(k + n))
         IN /\ k \in Nat /\ n \in Nat /\ k + n <= Len(past)
            /\ lost \in Nat
            /\ EvictOld(w, t).sum = IF lost <= w.sum THEN w.sum - lost ELSE 0
            /\ LeftOf(EvictOld(w, t), past) = k + n
<1> DEFINE k == LeftOf(w, past)
           n == Leaving(w.samples, t)
           g == [i \in 1..n |-> w.samples[i].amount]
           h == [i \in 1..n |-> -w.samples[i].amount]
<1>1. /\ Len(past) \in Nat /\ Amounts(past)
  BY LogAmounts DEF InTime
<1>2. /\ Len(w.samples) \in Nat /\ w.sum \in 0..MaxU256 /\ n \in 0..Len(w.samples)
      /\ Len(EvictOld(w, t).samples) = Len(w.samples) - n
  BY EvictFacts DEF Windows
<1>3. k \in Nat /\ n \in Nat /\ k + Len(w.samples) = Len(past) /\ k + n <= Len(past)
  BY <1>1, <1>2 DEF LeftOf, Holds
<1>4. EvictOld(w, t).sum = SaturatingSum(w.sum, h, n)
  BY DEF EvictOld
<1>5. LeftOf(EvictOld(w, t), past) = k + n
  BY <1>1, <1>2, <1>3 DEF LeftOf
<1>6. \A i \in 1..n : w.samples[i] = past[k + i]
  BY <1>2 DEF Holds
<1> HIDE DEF k, n
<1>7. \A i \in 1..n : k + i \in 1..Len(past)
  BY <1>1, <1>2, <1>3
<1>8. \A i \in 1..n : past[k + i].amount \in Nat
  BY <1>1, <1>7 DEF Amounts
<1>9. \A i \in 1..n : g[i] = past[k + i].amount /\ h[i] = -g[i] /\ g[i] \in Nat
  BY <1>6, <1>8
<1> HIDE DEF g, h
<1>10. SumTo(g, n) = SumIn(past, (k + 1)..(k + n))
  BY <1>1, <1>3, <1>9, SumInStretch
<1>11. SaturatingSum(w.sum, h, n)
         = IF SumTo(g, n) <= w.sum THEN w.sum - SumTo(g, n) ELSE 0
  BY <1>2, <1>3, <1>9, SaturatingDown
<1>12. SumIn(past, (k + 1)..(k + n)) \in Nat
  BY <1>1, SumInType
<1> QED
  BY <1>3, <1>4, <1>5, <1>10, <1>11, <1>12 DEF k, n

\* Eviction keeps the invariant, and all that is left is recent.
LEMMA EvictKeeps ==
  ASSUME NEW w, NEW past, NEW t \in Nat, WindowInv(w, past, t)
  PROVE  /\ WindowInv(EvictOld(w, t), past, t)
         /\ \A i \in 1..Len(past) : i > LeftOf(EvictOld(w, t), past) => ~Expired(past[i].at, t)
<1> DEFINE k == LeftOf(w, past)
           n == Leaving(w.samples, t)
           v == EvictOld(w, t)
           lost == SumIn(past, (k + 1)..(k + n))
           held == SumIn(past, (k + 1)..Len(past))
           rest == SumIn(past, (k + n + 1)..Len(past))
<1>1. /\ w \in Windows /\ InTime(past, t) /\ Holds(w, past) /\ AddsUp(w, past)
      /\ LeftExpired(w, past, t)
      /\ Len(past) \in Nat /\ Amounts(past) /\ MaxU256 \in Nat
      /\ w.sum \in 0..MaxU256 /\ Len(w.samples) \in Nat
      /\ v = [samples |-> v.samples, sum |-> v.sum]
  BY LogAmounts, WindowAssumption DEF WindowInv, InTime, Windows, EvictOld
<1>2. /\ k \in Nat /\ n \in Nat /\ k + n <= Len(past)
      /\ lost \in Nat
      /\ v.sum = IF lost <= w.sum THEN w.sum - lost ELSE 0
      /\ LeftOf(v, past) = k + n
  BY <1>1, EvictSum
<1>3. /\ n \in 0..Len(w.samples)
      /\ v.samples \in Seq(Samples)
      /\ Len(v.samples) = Len(w.samples) - n
      /\ \A i \in 1..Len(v.samples) : v.samples[i] = w.samples[n + i]
  BY <1>1, EvictFacts
<1>4. /\ \A i \in 1..n : Expired(w.samples[i].at, t)
      /\ n < Len(w.samples) => ~Expired(w.samples[n + 1].at, t)
  BY <1>1, LeavingFacts
<1>5. /\ k + Len(w.samples) = Len(past)
      /\ \A i \in 1..Len(w.samples) : w.samples[i] = past[k + i]
      /\ \A i \in 1..k : Expired(past[i].at, t)
  BY <1>1, <1>2 DEF Holds, LeftOf, LeftExpired
<1>6. w.sum <= held /\ (SumOf(past) <= MaxU256 => w.sum = held)
  BY <1>1 DEF AddsUp
<1> HIDE DEF k, n, v
<1>7. held = lost + rest /\ held \in Nat /\ rest \in Nat
  <2>1. Len(past) \in Nat /\ Amounts(past)
    BY <1>1
  <2>2. held = lost + rest
    BY <1>2, <2>1, SumInSplit
  <2>3. held \in Nat
    BY <2>1, SumInType
  <2>4. rest \in Nat
    BY <2>1, SumInType
  <2> QED
    BY <2>2, <2>3, <2>4
<1> HIDE DEF held, lost, rest
<1>8. v \in Windows
  <2>1. v.sum \in 0..MaxU256
    BY <1>1, <1>2
  <2> QED
    BY <1>1, <1>3, <2>1 DEF Windows
<1>9. Holds(v, past)
  <2>1. ASSUME NEW i \in 1..Len(v.samples) PROVE v.samples[i] = past[k + n + i]
    <3>2. k \in Nat /\ n \in Nat /\ i \in Nat \ {0}
      BY <1>2
    <3>3. i <= Len(w.samples) - n /\ Len(w.samples) \in Nat
      BY <1>1, <1>3
    <3>1. n + i \in 1..Len(w.samples) /\ k + (n + i) = k + n + i
      BY <3>2, <3>3
    <3> QED
      BY <1>3, <1>5, <3>1
  <2> QED
    BY <1>2, <2>1 DEF Holds
<1>10. AddsUp(v, past)
  <2>1. v.sum <= rest /\ (SumOf(past) <= MaxU256 => v.sum = rest)
    BY <1>1, <1>2, <1>6, <1>7
  <2> QED
    BY <1>2, <2>1 DEF AddsUp, rest
<1>11. LeftExpired(v, past, t)
  <2> SUFFICES ASSUME NEW i \in 1..(k + n) PROVE Expired(past[i].at, t)
    BY <1>2 DEF LeftExpired
  <2>1. CASE i <= k
    BY <1>2, <1>5, <2>1
  <2>2. CASE i > k
    <3>1. i - k \in 1..n /\ i - k \in 1..Len(w.samples) /\ k + (i - k) = i
      BY <1>2, <1>3, <2>2
    <3> QED
      BY <1>4, <1>5, <3>1
  <2> QED
    BY <1>2, <2>1, <2>2
<1>12. ASSUME NEW i \in 1..Len(past), i > k + n PROVE ~Expired(past[i].at, t)
  <2>6. n < Len(w.samples)
    BY <1>1, <1>2, <1>3, <1>5, <1>12
  <2>1. n < Len(w.samples) /\ n + 1 \in 1..Len(w.samples) /\ k + (n + 1) = k + n + 1
    BY <1>1, <1>2, <2>6
  <2>2. ~Expired(past[k + n + 1].at, t)
    BY <1>4, <1>5, <2>1
  <2>3. /\ k + n + 1 \in 1..Len(past) /\ k + n + 1 <= i
    BY <1>2, <1>5, <1>12, <2>1
  <2>4. past[k + n + 1].at <= past[i].at
    BY <1>1, <2>3 DEF InTime
  <2>5. past[k + n + 1].at \in Nat /\ past[i].at \in Nat
    BY <1>1, <2>3, LogAmounts DEF InTime
  <2> QED
    BY <2>2, <2>4, <2>5, WindowAssumption DEF Expired
<1> QED
  BY <1>1, <1>2, <1>8, <1>9, <1>10, <1>11, <1>12 DEF WindowInv, v

\* Time passes.
LEMMA WaitKeeps ==
  ASSUME NEW w, NEW past, NEW t \in Nat, NEW u \in Nat, t <= u, WindowInv(w, past, t)
  PROVE  WindowInv(w, past, u)
<1>1. /\ w \in Windows /\ InTime(past, t) /\ Holds(w, past) /\ AddsUp(w, past)
      /\ LeftExpired(w, past, t) /\ Len(past) \in Nat /\ Len(w.samples) \in Nat
  BY LogAmounts DEF WindowInv, InTime, Windows
<1>2. \A i \in 1..Len(past) : past[i].at \in Nat
  BY <1>1, LogAmounts DEF InTime
<1>3. InTime(past, u)
  BY <1>1, <1>2 DEF InTime
<1>4. ASSUME NEW i \in 1..LeftOf(w, past) PROVE Expired(past[i].at, u)
  <2>1. i \in 1..Len(past)
    BY <1>1, <1>4 DEF Holds, LeftOf
  <2>2. Expired(past[i].at, t)
    BY <1>1 DEF LeftExpired
  <2> QED
    BY <1>2, <2>1, <2>2, WindowAssumption DEF Expired
<1> QED
  BY <1>1, <1>3, <1>4 DEF WindowInv, LeftExpired

\* A sample comes in.
LEMMA SampleKeeps ==
  ASSUME NEW w, NEW past, NEW t \in Nat, WindowInv(w, past, t), NEW amount \in 0..MaxU256
  PROVE  WindowInv([samples |-> Append(w.samples, [at |-> t, amount |-> amount]),
                    sum |-> SaturatingAdd(w.sum, amount)],
                   Append(past, [at |-> t, amount |-> amount]), t)
<1> DEFINE s == [at |-> t, amount |-> amount]
           l == Append(past, s)
           v == [samples |-> Append(w.samples, s), sum |-> SaturatingAdd(w.sum, amount)]
           k == LeftOf(w, past)
<1>1. /\ w \in Windows /\ InTime(past, t) /\ Holds(w, past) /\ AddsUp(w, past)
      /\ LeftExpired(w, past, t) /\ past \in Seq(Samples)
      /\ Len(past) \in Nat /\ Amounts(past) /\ MaxU256 \in Nat
      /\ w.sum \in 0..MaxU256 /\ w.samples \in Seq(Samples) /\ Len(w.samples) \in Nat
  BY LogAmounts, WindowAssumption DEF WindowInv, InTime, Windows
<1>2. s \in Samples /\ s.at = t /\ s.amount = amount
  BY DEF Samples
<1>3. /\ l \in Seq(Samples) /\ Len(l) = Len(past) + 1 /\ l[Len(past) + 1] = s
      /\ \A i \in 1..Len(past) : l[i] = past[i]
      /\ v.samples \in Seq(Samples) /\ Len(v.samples) = Len(w.samples) + 1
      /\ v.samples[Len(w.samples) + 1] = s
      /\ \A i \in 1..Len(w.samples) : v.samples[i] = w.samples[i]
      /\ v.sum = SaturatingAdd(w.sum, amount)
  <2> HIDE DEF s
  <2> QED
    BY <1>1, <1>2
<1>4. v \in Windows
  <2>1. SaturatingAdd(w.sum, amount) \in 0..MaxU256
    BY <1>1 DEF SaturatingAdd, Saturating
  <2> QED
    BY <1>3, <2>1 DEF Windows
<1>5. Len(l) \in Nat /\ Amounts(l)
  BY <1>3, LogAmounts
<1>6. LeftOf(v, l) = k /\ k \in Nat /\ k + Len(w.samples) = Len(past)
  <2>1. k = Len(past) - Len(w.samples) /\ k >= 0
    BY <1>1 DEF LeftOf, Holds
  <2>2. LeftOf(v, l) = (Len(past) + 1) - (Len(w.samples) + 1)
    BY <1>3 DEF LeftOf
  <2> HIDE DEF k
  <2> QED
    BY <1>1, <2>1, <2>2
<1>7. \A i \in 1..Len(w.samples) : w.samples[i] = past[k + i]
  BY <1>1 DEF Holds
<1>8. \A i \in 1..k : Expired(past[i].at, t)
  BY <1>1 DEF LeftExpired
<1> DEFINE held == SumIn(past, (k + 1)..Len(past))
<1>9. w.sum <= held /\ (SumOf(past) <= MaxU256 => w.sum = held)
  BY <1>1 DEF AddsUp
<1> HIDE DEF k, v, l, s
<1>10. InTime(l, t)
  <2>1. \A i \in 1..Len(l) : i \in 1..Len(past) \/ i = Len(past) + 1
    BY <1>1, <1>3
  <2>2. \A i \in 1..Len(l) : l[i].at <= t
    BY <1>1, <1>2, <1>3, <2>1 DEF InTime
  <2>3. ASSUME NEW i \in 1..Len(l), NEW j \in 1..Len(l), i <= j PROVE l[i].at <= l[j].at
    <3>1. CASE j = Len(past) + 1
      BY <1>2, <1>3, <2>2, <3>1
    <3>2. CASE j \in 1..Len(past)
      <4>1. i \in 1..Len(past)
        BY <1>1, <2>3, <3>2
      <4> QED
        BY <1>1, <1>3, <2>3, <3>2, <4>1 DEF InTime
    <3> QED
      BY <2>1, <3>1, <3>2
  <2> QED
    BY <1>3, <2>2, <2>3 DEF InTime
<1>11. Holds(v, l)
  <2>1. ASSUME NEW i \in 1..Len(v.samples) PROVE v.samples[i] = l[k + i]
    <3>1. CASE i \in 1..Len(w.samples)
      <4>1. k + i \in 1..Len(past)
        BY <1>1, <1>6, <3>1
      <4> QED
        BY <1>3, <1>7, <3>1, <4>1
    <3>2. CASE i = Len(w.samples) + 1
      <4>1. k + i = Len(past) + 1
        BY <1>1, <1>6, <3>2
      <4> QED
        BY <1>3, <3>2, <4>1
    <3> QED
      BY <1>1, <1>3, <3>1, <3>2
  <2> QED
    BY <1>6, <2>1 DEF Holds
<1>12. LeftExpired(v, l, t)
  <2>1. \A i \in 1..k : i \in 1..Len(past)
    BY <1>1, <1>6
  <2> QED
    BY <1>3, <1>6, <1>8, <2>1 DEF LeftExpired
<1>13. /\ SumIn(l, (k + 1)..Len(l)) = held + amount
       /\ SumOf(l) = SumOf(past) + amount
       /\ held \in Nat /\ SumOf(past) \in Nat /\ held <= SumOf(past)
  <2>1. l[Len(l)].amount = amount /\ Len(l) \in 1..Len(l) /\ Len(l) \in (k + 1)..Len(l)
    BY <1>1, <1>2, <1>3, <1>6
  <2>2. ASSUME NEW p, NEW q, \A i \in 1..Len(past) : i \in p <=> i \in q, Len(l) \in q
        PROVE  SumIn(l, q) = SumIn(past, p) + amount
    <3>1. SumIn(l, q) = SumIn(past, p) + (IF Len(l) \in q THEN l[Len(l)].amount ELSE 0)
      <4>1. Len(past) \in Nat /\ Len(l) = Len(past) + 1 /\ Amounts(past)
        BY <1>1, <1>3
      <4>2. \A i \in 1..Len(past) : l[i] = past[i]
        BY <1>3
      <4> QED
        BY <2>2, <4>1, <4>2, SumInLonger
    <3> QED
      BY <2>1, <2>2, <3>1
  <2>3. SumIn(l, (k + 1)..Len(l)) = held + amount
    <3>1. PICK p : p = (k + 1)..Len(past)
      OBVIOUS
    <3>2. PICK q : q = (k + 1)..Len(l)
      OBVIOUS
    <3>3. (\A i \in 1..Len(past) : i \in p <=> i \in q) /\ Len(l) \in q
      BY <1>1, <1>3, <1>6, <2>1, <3>1, <3>2
    <3>4. SumIn(l, q) = SumIn(past, p) + amount
      BY <2>2, <3>3
    <3> QED
      BY <3>1, <3>2, <3>4 DEF held
  <2>4. SumOf(l) = SumOf(past) + amount
    <3>1. PICK p : p = 1..Len(past)
      OBVIOUS
    <3>2. PICK q : q = 1..Len(l)
      OBVIOUS
    <3>3. (\A i \in 1..Len(past) : i \in p <=> i \in q) /\ Len(l) \in q
      BY <1>1, <1>3, <2>1, <3>1, <3>2
    <3>4. SumIn(l, q) = SumIn(past, p) + amount
      BY <2>2, <3>3
    <3> QED
      BY <3>1, <3>2, <3>4 DEF SumOf
  <2>5. held \in Nat /\ SumOf(past) \in Nat
    BY <1>1, SumInType DEF SumOf
  <2>6. held <= SumOf(past)
    BY <1>1, SumInMono DEF SumOf
  <2> QED
    BY <2>3, <2>4, <2>5, <2>6
<1> HIDE DEF held
<1>14. AddsUp(v, l)
  <2>1. v.sum <= held + amount
    BY <1>1, <1>3, <1>9, <1>13 DEF SaturatingAdd, Saturating
  <2>2. SumOf(l) <= MaxU256 => v.sum = held + amount
    BY <1>1, <1>3, <1>9, <1>13 DEF SaturatingAdd, Saturating
  <2> QED
    BY <1>6, <1>13, <2>1, <2>2 DEF AddsUp
<1>15. WindowInv(v, l, t)
  BY <1>4, <1>10, <1>11, <1>12, <1>14 DEF WindowInv
<1> QED
  BY <1>15 DEF v, l, s

LEMMA RecordKeeps ==
  ASSUME NEW w, NEW past, NEW t \in Nat, WindowInv(w, past, t), NEW amount \in 0..MaxU256
  PROVE  WindowInv(Record(w, t, amount), Append(past, [at |-> t, amount |-> amount]), t)
  BY SampleKeeps, EvictKeeps DEF Record

\* What is read is the sum of the recent samples.
LEMMA VolumeIsRecent ==
  ASSUME NEW w, NEW past, NEW t \in Nat, WindowInv(w, past, t)
  PROVE  /\ WindowVolume(w, t) <= SumIn(past, Recent(past, t))
         /\ SumOf(past) <= MaxU256 => WindowVolume(w, t) = SumIn(past, Recent(past, t))
<1> DEFINE v == EvictOld(w, t)
           k == LeftOf(v, past)
<1>1. /\ WindowInv(v, past, t)
      /\ \A i \in 1..Len(past) : i > k => ~Expired(past[i].at, t)
  BY EvictKeeps
<1>2. /\ past \in Seq(Samples) /\ Len(past) \in Nat /\ AddsUp(v, past) /\ LeftExpired(v, past, t)
      /\ v.samples \in Seq(Samples) /\ Len(v.samples) \in Nat /\ Holds(v, past)
  BY <1>1 DEF WindowInv, InTime, Windows
<1>3. k \in Nat /\ k <= Len(past)
  BY <1>2 DEF Holds, LeftOf
<1>4. \A i \in 1..k : Expired(past[i].at, t)
  BY <1>2 DEF LeftExpired
<1> HIDE DEF k
<1>5. ASSUME NEW i \in 1..Len(past)
      PROVE  i \in (k + 1)..Len(past) <=> i \in Recent(past, t)
  <2>1. past[i].at \in Nat
    BY <1>2, LogAmounts
  <2>2. i \in Recent(past, t) <=> ~Expired(past[i].at, t)
    BY <2>1, WindowAssumption DEF Recent, Expired
  <2>3. i \in 1..k \/ i > k
    BY <1>3
  <2> QED
    BY <1>1, <1>3, <1>4, <2>2, <2>3
<1>6. SumIn(past, (k + 1)..Len(past)) = SumIn(past, Recent(past, t))
  BY <1>2, <1>5, SumInSame
<1> QED
  BY <1>2, <1>6 DEF AddsUp, WindowVolume, k

-----------------------------------------------------------------------------
(* Types. *)
BlockEntry == [block : Nat, sum : 0..MaxU256]

TasksTyped ==
  /\ now \in Nat /\ fills \in Nat /\ bn \in Nat /\ calls \in Nat
  /\ batch \in Seq(Fills) /\ recording \in Seq(Fills)
  /\ settler \in {"receive", "trade", "vstk", "tax", "call", "reason", "pause", "stop"}
  /\ settler \in {"trade", "vstk", "tax"} => recording # <<>>
  /\ settlement_fail_streak \in 0..3
PausesTyped ==
  /\ audit \in {"asleep", "reason", "stop"}
  /\ matching_paused \in BOOLEAN /\ match_paused \in BOOLEAN
  /\ chain_listener_connected \in BOOLEAN
  /\ matching_pause \in {"none", "Drift", "SettlementFailure"}
WindowsInv ==
  /\ window = [n \in WindowNames |-> window[n]]
  /\ log = [n \in WindowNames |-> log[n]]
  /\ \A n \in WindowNames : WindowInv(window[n], log[n], now)
BlocksTyped ==
  /\ block_ait \in Seq(BlockEntry)
  /\ Len(block_ait) <= MaxBlocks
  /\ heights \in Seq([block : Nat, amount : 0..MaxU256])
HubInv == TasksTyped /\ PausesTyped /\ WindowsInv /\ BlocksTyped

\* A fee is no more than the amount that it is taken from.
LEMMA FeeIsAmount ==
  ASSUME NEW f \in Fills, NEW r \in Rates
  PROVE  (f.ait * r) \div 10000 \in 0..MaxU256
<1>1. PICK a \in Nat : a = f.ait /\ a <= MaxU256
  <2>1. f.ait \in 1..MaxU256 /\ MaxU256 \in Nat
    BY FillsBounded, MaxU256Positive
  <2> QED
    BY <2>1
<1>2. PICK q \in 0..10000 : q = r
  BY TelemetryAssumption
<1>3. (a * q) \div 10000 \in Nat /\ (a * q) \div 10000 <= a
  <2>1. PICK n \in Nat : n = a * q
    OBVIOUS
  <2>2. n <= a * 10000
    BY <2>1
  <2>3. n \div 10000 \in Nat /\ 10000 * (n \div 10000) <= n
    BY Quotient
  <2>4. n \div 10000 <= a
    BY <2>2, <2>3
  <2> QED
    BY <2>1, <2>3, <2>4
<1>4. MaxU256 \in Nat
  BY WindowAssumption
<1>5. (a * q) \div 10000 \in 0..MaxU256
  BY <1>1, <1>3, <1>4
<1> QED
  BY <1>1, <1>2, <1>5

LEMMA NamesOfWindows == WindowNames = {"vstk", "tax", "ait"}
  BY DEF WindowNames

\* A call of the hub that records.
LEMMA RecordInKeeps ==
  ASSUME WindowsInv, now \in Nat, now' = now, NEW names, NEW amount,
         \A n \in names : amount[n] \in 0..MaxU256, RecordIn(names, amount)
  PROVE  WindowsInv'
<1>1. /\ window' = [n \in WindowNames |->
                      IF n \in names THEN Record(window[n], now, amount[n]) ELSE window[n]]
      /\ log' = [n \in WindowNames |->
                   IF n \in names THEN Append(log[n], [at |-> now, amount |-> amount[n]])
                                  ELSE log[n]]
  BY DEF RecordIn
<1>2. ASSUME NEW n \in WindowNames PROVE WindowInv(window'[n], log'[n], now)
  <2>1. WindowInv(window[n], log[n], now)
    BY DEF WindowsInv
  <2>2. CASE n \in names
    <3>1. /\ window'[n] = Record(window[n], now, amount[n])
          /\ log'[n] = Append(log[n], [at |-> now, amount |-> amount[n]])
      BY <1>1, <2>2
    <3>2. amount[n] \in 0..MaxU256
      BY <2>2
    <3> QED
      BY <2>1, <3>1, <3>2, RecordKeeps
  <2>3. CASE n \notin names
    BY <1>1, <2>1, <2>3
  <2> QED
    BY <2>2, <2>3
<1>3. window' = [n \in WindowNames |-> window'[n]] /\ log' = [n \in WindowNames |-> log'[n]]
  BY <1>1
<1> QED
  BY <1>2, <1>3 DEF WindowsInv

\* A reader evicts.
LEMMA EvictInKeeps ==
  ASSUME WindowsInv, now \in Nat, NEW names, EvictIn(names)
  PROVE  WindowsInv'
<1>1. /\ window' = [n \in WindowNames |->
                      IF n \in names THEN EvictOld(window[n], now) ELSE window[n]]
      /\ log' = log /\ now' = now
  BY DEF EvictIn, others
<1>2. ASSUME NEW n \in WindowNames PROVE WindowInv(window'[n], log'[n], now)
  <2>1. WindowInv(window[n], log[n], now)
    BY DEF WindowsInv
  <2>2. WindowInv(EvictOld(window[n], now), log[n], now)
    BY <2>1, EvictKeeps
  <2>3. window'[n] = EvictOld(window[n], now) \/ window'[n] = window[n]
    BY <1>1
  <2> QED
    BY <1>1, <2>1, <2>2, <2>3
<1>3. window' = [n \in WindowNames |-> window'[n]] /\ log' = [n \in WindowNames |-> log'[n]]
  BY <1>1 DEF WindowsInv
<1> QED
  BY <1>1, <1>2, <1>3 DEF WindowsInv

LEMMA WaitInKeeps ==
  ASSUME WindowsInv, now \in Nat, now' \in Nat, now <= now', UNCHANGED <<window, log>>
  PROVE  WindowsInv'
<1>1. ASSUME NEW n \in WindowNames PROVE WindowInv(window'[n], log'[n], now')
  <2>1. WindowInv(window[n], log[n], now)
    BY DEF WindowsInv
  <2> QED
    BY <2>1, WaitKeeps
<1> QED
  BY <1>1 DEF WindowsInv

\* The block window after a sample.
LEMMA RecordBlockTyped ==
  ASSUME NEW blocks \in Seq(BlockEntry), Len(blocks) <= MaxBlocks, NEW b \in Nat,
         NEW n \in 0..MaxU256
  PROVE  RecordBlock(blocks, b, n) \in Seq(BlockEntry) /\ Len(RecordBlock(blocks, b, n)) <= MaxBlocks
<1> DEFINE e == [block |-> b, sum |-> n]
           longer == Append(blocks, e)
<1>0. MaxBlocks \in Nat \ {0} /\ MaxU256 \in Nat /\ Len(blocks) \in Nat
  <2>1. MaxBlocks \in Nat \ {0}
    BY MaxBlocksPositive
  <2>2. MaxU256 \in Nat
    BY MaxU256Positive
  <2>3. Len(blocks) \in Nat
    BY SeqLength
  <2> QED
    BY <2>1, <2>2, <2>3
<1>1. e \in BlockEntry
  BY DEF BlockEntry
<1>2. CASE blocks # <<>> /\ blocks[Len(blocks)].block = b
  <2> DEFINE last == Len(blocks)
             more == [blocks[last] EXCEPT !.sum = SaturatingAdd(@, n)]
  <2>1. last \in 1..Len(blocks) /\ blocks[last] \in BlockEntry
    BY <1>0, <1>2
  <2>2. more \in BlockEntry
    <3>1. SaturatingAdd(blocks[last].sum, n) \in 0..MaxU256
      BY <1>0, <2>1 DEF SaturatingAdd, Saturating, BlockEntry
    <3> QED
      BY <2>1, <3>1 DEF BlockEntry
  <2>3. RecordBlock(blocks, b, n) = [blocks EXCEPT ![last] = more]
    BY <1>2, <2>1 DEF RecordBlock
  <2> HIDE DEF more, last
  <2>4. /\ [blocks EXCEPT ![last] = more] \in Seq(BlockEntry)
        /\ Len([blocks EXCEPT ![last] = more]) = Len(blocks)
    BY <1>0, <2>1, <2>2
  <2> QED
    BY <2>3, <2>4
<1>3. CASE ~(blocks # <<>> /\ blocks[Len(blocks)].block = b)
  <2>1. RecordBlock(blocks, b, n) = IF Len(longer) > MaxBlocks THEN Tail(longer) ELSE longer
    BY <1>3 DEF RecordBlock
  <2> HIDE DEF e
  <2>4. longer \in Seq(BlockEntry) /\ Len(longer) = Len(blocks) + 1
    BY <1>0, <1>1
  <2>2. longer \in Seq(BlockEntry) /\ Len(longer) = Len(blocks) + 1 /\ longer # <<>>
    <3> HIDE DEF longer
    <3> QED
      BY <1>0, <2>4
  <2> HIDE DEF longer
  <2>3. Tail(longer) \in Seq(BlockEntry) /\ Len(Tail(longer)) = Len(blocks)
    BY <1>0, <2>2
  <2> QED
    BY <1>0, <2>1, <2>2, <2>3
<1> QED
  BY <1>2, <1>3

-----------------------------------------------------------------------------
LEMMA FillsAmounts ==
  ASSUME NEW f \in Fills
  PROVE  f.vstk \in 0..MaxU256 /\ f.ait \in 0..MaxU256 /\ f.ait \in Nat
<1>1. f.vstk \in 1..MaxU256 /\ f.ait \in 1..MaxU256 /\ MaxU256 \in Nat
  BY FillsBounded, MaxU256Positive
<1> QED
  BY <1>1

LEMMA FirstFill ==
  ASSUME NEW q \in Seq(Fills), q # <<>>
  PROVE  Head(q) \in Fills /\ Tail(q) \in Seq(Fills) /\ Len(q) \in Nat
  OBVIOUS

LEMMA HubStarts == Init => HubInv
<1> SUFFICES ASSUME Init PROVE HubInv
  OBVIOUS
<1>1. TasksTyped /\ PausesTyped
  <2>1. TasksTyped
    BY DEF Init, TasksTyped
  <2>2. PausesTyped
    BY DEF Init, PausesTyped
  <2> QED
    BY <2>1, <2>2
<1>2. ASSUME NEW n \in WindowNames PROVE WindowInv(window[n], log[n], now)
  <2>1. window[n] = NewWindow /\ log[n] = <<>> /\ now = 0
    BY DEF Init
  <2>2. /\ window[n].samples = <<>> /\ window[n].sum = 0 /\ Len(log[n]) = 0
        /\ Len(window[n].samples) = 0 /\ MaxU256 \in Nat
    BY <2>1, WindowAssumption DEF NewWindow
  <2>3. window[n] \in Windows
    BY <2>1, WindowAssumption DEF NewWindow, Windows
  <2>4. InTime(log[n], now)
    BY <2>1, <2>2 DEF InTime
  <2>5. LeftOf(window[n], log[n]) = 0
    <3>1. LeftOf(window[n], log[n]) = Len(log[n]) - Len(window[n].samples)
      BY DEF LeftOf
    <3> QED
      BY <2>2, <3>1
  <2>6. Holds(window[n], log[n]) /\ LeftExpired(window[n], log[n], now)
    BY <2>2, <2>5 DEF Holds, LeftExpired
  <2>7. \A p : SumIn(log[n], p) = 0
    BY <2>2, SumToZero DEF SumIn
  <2>8. AddsUp(window[n], log[n])
    BY <2>2, <2>7 DEF AddsUp
  <2> QED
    BY <2>3, <2>4, <2>6, <2>8 DEF WindowInv
<1>3. WindowsInv
  BY <1>2 DEF Init, WindowsInv
<1>4. BlocksTyped
  BY MaxBlocksPositive DEF Init, BlocksTyped
<1> QED
  BY <1>1, <1>3, <1>4 DEF HubInv

LEMMA TasksTypedStep == TasksTyped /\ [Next]_vars => TasksTyped'
<1> SUFFICES ASSUME TasksTyped, [Next]_vars PROVE TasksTyped'
  OBVIOUS
<1>1. CASE Pass
  BY <1>1 DEF Pass, TasksTyped, taskVars
<1>2. CASE ListenerExits \/ CriticalDrift \/ ToMetricsJson \/ ToSummaryJson \/ UNCHANGED vars
  BY <1>2 DEF ListenerExits, CriticalDrift, ToMetricsJson, ToSummaryJson, EvictIn, vars,
              others, TasksTyped, taskVars
<1>3. CASE ReceiveFill
  BY <1>3 DEF ReceiveFill, TasksTyped, others
<1>4. CASE FlushBatch
  <2>1. bn' \in Nat
    BY <1>4, HeightsAreNumbers DEF FlushBatch
  <2> QED
    BY <1>4, <2>1 DEF FlushBatch, TasksTyped, others
<1>5. CASE RecordTradeSettled
  BY <1>5 DEF RecordTradeSettled, TasksTyped, others
<1>6. CASE RecordVstkNotional
  BY <1>6 DEF RecordVstkNotional, TasksTyped, others
<1>7. CASE RecordTax
  <2>1. /\ recording' = Tail(recording) /\ recording # <<>>
        /\ settler' = IF recording' = <<>> THEN "call" ELSE "trade"
        /\ UNCHANGED <<now, fills, batch, bn, calls, settlement_fail_streak>>
    BY <1>7 DEF RecordTax, TasksTyped, others
  <2>2. recording' \in Seq(Fills)
    BY <2>1, FirstFill DEF TasksTyped
  <2> QED
    BY <2>1, <2>2 DEF TasksTyped
<1>8. CASE CallSucceeds \/ CallFails
  BY <1>8 DEF CallSucceeds, CallFails, TasksTyped, others
<1>9. CASE SettlementFailure \/ BatchDone
  BY <1>9 DEF SettlementFailure, BatchDone, TasksTyped, others
<1> QED
  BY <1>1, <1>2, <1>3, <1>4, <1>5, <1>6, <1>7, <1>8, <1>9 DEF Next, Settler

LEMMA PausesTypedStep == PausesTyped /\ [Next]_vars => PausesTyped'
<1> SUFFICES ASSUME PausesTyped, [Next]_vars PROVE PausesTyped'
  OBVIOUS
<1>1. CASE Settler /\ ~SettlementFailure
  BY <1>1 DEF Settler, ReceiveFill, FlushBatch, RecordTradeSettled, RecordVstkNotional,
       RecordTax, CallSucceeds, CallFails, BatchDone, others, pauseVars, PausesTyped
<1>2. CASE SettlementFailure
  BY <1>2 DEF SettlementFailure, others, PausesTyped
<1>3. CASE CriticalDrift
  BY <1>3 DEF CriticalDrift, PausesTyped
<1>4. CASE ListenerExits \/ Pass \/ ToMetricsJson \/ ToSummaryJson \/ UNCHANGED vars
  BY <1>4 DEF ListenerExits, Pass, ToMetricsJson, ToSummaryJson, EvictIn, vars, taskVars,
       others, pauseVars, PausesTyped
<1> QED
  BY <1>1, <1>2, <1>3, <1>4 DEF Next

LEMMA WindowsStep == TasksTyped /\ WindowsInv /\ [Next]_vars => WindowsInv'
<1> SUFFICES ASSUME TasksTyped, WindowsInv, [Next]_vars PROVE WindowsInv'
  OBVIOUS
<1>0. now \in Nat /\ recording \in Seq(Fills)
  BY DEF TasksTyped
<1>1. CASE Pass
  BY <1>0, <1>1, WaitInKeeps DEF Pass, sampleVars
<1>2. CASE ToMetricsJson \/ ToSummaryJson
  BY <1>0, <1>2, EvictInKeeps DEF ToMetricsJson, ToSummaryJson
<1>3. CASE RecordTradeSettled
  <2> DEFINE f == Head(recording)
             amount == [ait |-> f.ait, vstk |-> f.vstk]
  <2>1. RecordIn({"ait", "vstk"}, amount) /\ now' = now /\ recording # <<>>
    BY <1>3 DEF RecordTradeSettled, others
  <2>2. f.ait \in 0..MaxU256 /\ f.vstk \in 0..MaxU256
    BY <1>0, <2>1, FirstFill, FillsAmounts
  <2>3. \A n \in {"ait", "vstk"} : amount[n] \in 0..MaxU256
    BY <2>2
  <2> HIDE DEF amount
  <2> QED
    BY <1>0, <2>1, <2>3, RecordInKeeps
<1>4. CASE RecordVstkNotional
  <2> DEFINE amount == [vstk |-> Head(recording).vstk]
  <2>1. RecordIn({"vstk"}, amount) /\ now' = now /\ recording # <<>>
    BY <1>4 DEF RecordVstkNotional, others, TasksTyped
  <2>2. Head(recording).vstk \in 0..MaxU256
    BY <1>0, <2>1, FirstFill, FillsAmounts
  <2>3. \A n \in {"vstk"} : amount[n] \in 0..MaxU256
    BY <2>2
  <2> HIDE DEF amount
  <2> QED
    BY <1>0, <2>1, <2>3, RecordInKeeps
<1>5. CASE RecordTax
  <2>1. PICK tax_bps \in Rates :
          IF tax_bps > 0
          THEN RecordIn({"tax"}, [tax |-> (Head(recording).ait * tax_bps) \div 10000])
          ELSE UNCHANGED <<window, log>>
    BY <1>5 DEF RecordTax
  <2>2. now' = now /\ recording # <<>>
    BY <1>5 DEF RecordTax, others, TasksTyped
  <2>3. CASE UNCHANGED <<window, log>>
    BY <1>0, <2>2, <2>3, WaitInKeeps
  <2>4. CASE RecordIn({"tax"}, [tax |-> (Head(recording).ait * tax_bps) \div 10000])
    <3> DEFINE fee == (Head(recording).ait * tax_bps) \div 10000
               amount == [tax |-> fee]
    <3>1. fee \in 0..MaxU256
      BY <1>0, <2>2, FirstFill, FeeIsAmount
    <3> HIDE DEF fee
    <3>5. \A n \in {"tax"} : amount[n] \in 0..MaxU256
      BY <3>1
    <3>6. RecordIn({"tax"}, amount)
      BY <2>4 DEF fee
    <3> HIDE DEF amount
    <3> QED
      BY <1>0, <2>2, <3>5, <3>6, RecordInKeeps
  <2> QED
    BY <2>1, <2>3, <2>4
<1>6. CASE ReceiveFill \/ FlushBatch \/ CallSucceeds \/ CallFails \/ SettlementFailure \/ BatchDone
           \/ CriticalDrift \/ ListenerExits \/ UNCHANGED vars
  <2>1. UNCHANGED <<window, log, now>>
    BY <1>6 DEF ReceiveFill, FlushBatch, CallSucceeds, CallFails, SettlementFailure, BatchDone,
                CriticalDrift, ListenerExits, vars, sampleVars, others
  <2> QED
    BY <1>0, <2>1, WaitInKeeps
<1> QED
  BY <1>1, <1>2, <1>3, <1>4, <1>5, <1>6 DEF Next, Settler

\* Only record_trade_settled adds to the block window.
LEMMA BlocksMove ==
  ASSUME TasksTyped, [Next]_vars
  PROVE  \/ UNCHANGED <<block_ait, heights>>
         \/ /\ block_ait' = RecordBlock(block_ait, bn, Head(recording).ait)
            /\ heights' = Append(heights, [block |-> bn, amount |-> Head(recording).ait])
            /\ Head(recording).ait \in 0..MaxU256 /\ bn \in Nat
<1>1. CASE RecordTradeSettled
  <2>1. /\ block_ait' = RecordBlock(block_ait, bn, Head(recording).ait)
        /\ heights' = Append(heights, [block |-> bn, amount |-> Head(recording).ait])
        /\ recording # <<>>
    BY <1>1 DEF RecordTradeSettled
  <2> QED
    BY <2>1, FirstFill, FillsAmounts DEF TasksTyped
<1>2. CASE ReceiveFill \/ FlushBatch \/ CallSucceeds \/ CallFails \/ SettlementFailure \/ BatchDone
           \/ CriticalDrift \/ ListenerExits \/ Pass \/ UNCHANGED vars
  BY <1>2 DEF ReceiveFill, FlushBatch, CallSucceeds, CallFails, SettlementFailure, BatchDone,
              CriticalDrift, ListenerExits, Pass, vars, sampleVars
<1>3. CASE RecordVstkNotional \/ RecordTax \/ ToMetricsJson \/ ToSummaryJson
  BY <1>3 DEF RecordVstkNotional, RecordTax, ToMetricsJson, ToSummaryJson, EvictIn
<1> QED
  BY <1>1, <1>2, <1>3 DEF Next, Settler

LEMMA BlocksTypedStep ==
  ASSUME TasksTyped, BlocksTyped, [Next]_vars
  PROVE  BlocksTyped'
<1>1. CASE UNCHANGED <<block_ait, heights>>
  BY <1>1 DEF BlocksTyped
<1>2. CASE /\ block_ait' = RecordBlock(block_ait, bn, Head(recording).ait)
           /\ heights' = Append(heights, [block |-> bn, amount |-> Head(recording).ait])
           /\ Head(recording).ait \in 0..MaxU256 /\ bn \in Nat
  <2>1. block_ait' \in Seq(BlockEntry) /\ Len(block_ait') <= MaxBlocks
    BY <1>2, RecordBlockTyped DEF BlocksTyped
  <2>2. heights' \in Seq([block : Nat, amount : 0..MaxU256])
    BY <1>2 DEF BlocksTyped
  <2> QED
    BY <2>1, <2>2 DEF BlocksTyped
<1> QED
  BY <1>1, <1>2, BlocksMove

LEMMA HubKept == HubInv /\ [Next]_vars => HubInv'
  BY TasksTypedStep, PausesTypedStep, WindowsStep, BlocksTypedStep DEF HubInv

\* Tasks, pauses, windows and block window are what their code keeps them to be.
THEOREM HubInductive == Spec => []HubInv
  BY HubStarts, HubKept, PTL DEF Spec

\* Every value of the hub keeps its type; among others, evict_old and record never take
\* a sum out of the range of a U256, and the block window never outgrows max_blocks
\* (telemetry.rs:49, 82).
THEOREM HubTypeCorrect == Spec => []TypeOK
<1>1. HubInv => TypeOK
  <2> SUFFICES ASSUME HubInv PROVE TypeOK
    OBVIOUS
  <2>1. window \in [WindowNames -> Windows]
    BY DEF HubInv, WindowsInv, WindowInv
  <2>2. block_ait \in Seq([block : Nat, sum : 0..MaxU256]) /\ Len(block_ait) <= MaxBlocks
    BY DEF HubInv, BlocksTyped, BlockEntry
  <2>3. {matching_paused, match_paused, chain_listener_connected} \subseteq BOOLEAN
    BY Zenon DEF HubInv, PausesTyped
  <2> QED
    BY <2>1, <2>2, <2>3 DEF HubInv, TasksTyped, PausesTyped, TypeOK
<1> QED
  BY <1>1, HubInductive, PTL

\* Whenever a reader asks for a volume, it gets the sum of the samples of the last 24
\* hours, however writers and readers have evicted before; and never more, even after
\* the sum has saturated (telemetry.rs:49).
THEOREM WindowsStayExact == Spec => []WindowsExact
<1>1. HubInv => WindowsExact
  <2> SUFFICES ASSUME HubInv, NEW n \in WindowNames
               PROVE  /\ WindowVolume(window[n], now) <= SumIn(log[n], Recent(log[n], now))
                      /\ SumOf(log[n]) <= MaxU256 =>
                           WindowVolume(window[n], now) = SumIn(log[n], Recent(log[n], now))
    BY DEF WindowsExact
  <2>1. WindowInv(window[n], log[n], now) /\ now \in Nat
    BY DEF HubInv, WindowsInv, TasksTyped
  <2> QED
    BY <2>1, VolumeIsRecent
<1> QED
  BY <1>1, HubInductive, PTL

-----------------------------------------------------------------------------
(* The block window hs, the samples; heights do not go back. *)
HeightSamples == [block : Nat, amount : 0..MaxU256]
Seen(hs) == {hs[i].block : i \in 1..Len(hs)}
PlacesOf(hs, b) == {i \in 1..Len(hs) : hs[i].block = b}
Flow(hs, b) == SumIn(hs, PlacesOf(hs, b))
NotBack(hs) == \A i \in 2..Len(hs) : hs[i - 1].block <= hs[i].block

LEMMA TwoOrMore ==
  ASSUME NEW n \in Nat \ {0, 1}
  PROVE  n \in 2..n
  OBVIOUS

LEMMA LastNotBack ==
  ASSUME NEW hs, Len(hs) \in Nat \ {0, 1}, NotBack(hs)
  PROVE  hs[Len(hs) - 1].block <= hs[Len(hs)].block
<1>1. Len(hs) \in 2..Len(hs)
  BY TwoOrMore
<1> QED
  BY <1>1, Zenon DEF NotBack

Ascending(blocks) ==
  \A i, j \in 1..Len(blocks) : i < j => blocks[i].block < blocks[j].block
EndsAtLast(blocks, hs) ==
  /\ Len(blocks) = 0 <=> Len(hs) = 0
  /\ Len(hs) > 0 => blocks[Len(blocks)].block = hs[Len(hs)].block
FromSeen(blocks, hs) == \A i \in 1..Len(blocks) : blocks[i].block \in Seen(hs)
NoneLeftOut(blocks, hs) ==
  \A b \in Seen(hs) :
    \/ \E i \in 1..Len(blocks) : blocks[i].block = b
    \/ Len(blocks) = MaxBlocks /\ b < blocks[1].block
FlowsSummed(blocks, hs) == \A i \in 1..Len(blocks) : blocks[i].sum = Flow(hs, blocks[i].block)
Latest(blocks, hs) ==
  /\ Ascending(blocks)
  /\ EndsAtLast(blocks, hs)
  /\ FromSeen(blocks, hs)
  /\ NoneLeftOut(blocks, hs)
  /\ FlowsSummed(blocks, hs)

LEMMA HeightFacts ==
  ASSUME NEW hs \in Seq(HeightSamples)
  PROVE  /\ Len(hs) \in Nat /\ Amounts(hs)
         /\ \A i \in 1..Len(hs) : hs[i].block \in Nat
         /\ Seen(hs) \subseteq Nat /\ IsFiniteSet(Seen(hs))
<1>1. \A i \in 1..Len(hs) : hs[i] \in HeightSamples
  OBVIOUS
<1>2. /\ Len(hs) \in Nat /\ Amounts(hs)
      /\ \A i \in 1..Len(hs) : hs[i].block \in Nat
  BY <1>1, WindowAssumption DEF HeightSamples, Amounts
<1>3. Seen(hs) \subseteq Nat
  BY <1>2 DEF Seen
<1> DEFINE f == [i \in 1..Len(hs) |-> hs[i].block]
<1>4. f \in Surjection(1..Len(hs), Seen(hs))
  BY DEF Seen, Surjection
<1>5. IsFiniteSet(1..Len(hs))
  BY <1>2, FS_Interval
<1> HIDE DEF f
<1>6. IsFiniteSet(Seen(hs))
  BY <1>4, <1>5, FS_Surjection
<1> QED
  BY <1>2, <1>3, <1>6

LEMMA BlockFacts ==
  ASSUME NEW blocks \in Seq(BlockEntry)
  PROVE  /\ Len(blocks) \in Nat
         /\ \A i \in 1..Len(blocks) :
              /\ blocks[i] = [block |-> blocks[i].block, sum |-> blocks[i].sum]
              /\ blocks[i].block \in Nat /\ blocks[i].sum \in 0..MaxU256 /\ blocks[i].sum \in Nat
<1>1. \A i \in 1..Len(blocks) : blocks[i] \in BlockEntry
  OBVIOUS
<1> QED
  BY <1>1, WindowAssumption DEF BlockEntry

\* No height is above the last entry.
LEMMA LastIsHighest ==
  ASSUME NEW blocks \in Seq(BlockEntry), NEW hs \in Seq(HeightSamples), Latest(blocks, hs),
         NEW c \in Seen(hs)
  PROVE  Len(blocks) > 0 /\ c <= blocks[Len(blocks)].block
<1>1. /\ Len(hs) \in Nat /\ c \in Nat /\ Len(hs) > 0 /\ Len(blocks) \in Nat
      /\ Len(blocks) > 0
  <2>1. Len(hs) \in Nat /\ c \in Nat /\ Len(blocks) \in Nat
    BY HeightFacts, BlockFacts
  <2>2. Len(hs) > 0
    BY <2>1 DEF Seen
  <2> QED
    BY <2>1, <2>2 DEF Latest, EndsAtLast
<1>2. 1 \in 1..Len(blocks) /\ Len(blocks) \in 1..Len(blocks)
  BY <1>1
<1>3. \A i \in 1..Len(blocks) :
        /\ blocks[i].block \in Nat
        /\ i < Len(blocks) => blocks[i].block < blocks[Len(blocks)].block
  BY <1>2, BlockFacts DEF Latest, Ascending
<1>4. \A i \in 1..Len(blocks) : blocks[i].block <= blocks[Len(blocks)].block
  <2> SUFFICES ASSUME NEW i \in 1..Len(blocks) PROVE blocks[i].block <= blocks[Len(blocks)].block
    OBVIOUS
  <2>1. i < Len(blocks) \/ i = Len(blocks)
    BY <1>1
  <2> QED
    BY <1>2, <1>3, <2>1
<1>5. CASE \E i \in 1..Len(blocks) : blocks[i].block = c
  BY <1>1, <1>4, <1>5
<1>6. CASE c < blocks[1].block
  <2>1. blocks[1].block <= blocks[Len(blocks)].block
    BY <1>2, <1>4
  <2> QED
    BY <1>1, <1>2, <1>3, <1>6, <2>1
<1> QED
  BY <1>5, <1>6 DEF Latest, NoneLeftOut

\* What a sample adds to what was seen and to the flow of each height.
Grown(hs, hs2, b, n) ==
  /\ hs2 \in Seq(HeightSamples) /\ Len(hs2) = Len(hs) + 1
  /\ hs2[Len(hs2)].block = b
  /\ \A i \in 1..Len(hs) : hs2[i] = hs[i]
  /\ Seen(hs2) = Seen(hs) \cup {b}
  /\ \A c : Flow(hs2, c) = Flow(hs, c) + (IF c = b THEN n ELSE 0)
  /\ SumOf(hs2) = SumOf(hs) + n

LEMMA SumInGrows ==
  ASSUME NEW past, NEW l, Len(past) \in Nat, Len(l) = Len(past) + 1, Amounts(past),
         \A i \in 1..Len(past) : l[i] = past[i], NEW n, l[Len(l)].amount = n
  PROVE  \A p, q : (\A i \in 1..Len(past) : i \in p <=> i \in q) =>
                   SumIn(l, q) = SumIn(past, p) + (IF Len(l) \in q THEN n ELSE 0)
  BY SumInLonger

LEMMA LongerIsGrown ==
  ASSUME NEW hs, NEW hs2, NEW b, NEW n \in Int,
         Len(hs) \in Nat, Amounts(hs), hs2 \in Seq(HeightSamples), Len(hs2) = Len(hs) + 1,
         \A i \in 1..Len(hs) : hs2[i] = hs[i],
         hs2[Len(hs2)].block = b, hs2[Len(hs2)].amount = n
  PROVE  Grown(hs, hs2, b, n)
<1>2. Len(hs) \in Nat /\ Amounts(hs) /\ n \in Int
  OBVIOUS
<1>3. /\ hs2 \in Seq(HeightSamples) /\ Len(hs2) = Len(hs) + 1
      /\ \A i \in 1..Len(hs) : hs2[i] = hs[i]
  OBVIOUS
<1>4. hs2[Len(hs2)].block = b /\ hs2[Len(hs2)].amount = n /\ Len(hs2) \in 1..Len(hs2)
  BY <1>2, <1>3
<1>5. \A i \in 1..Len(hs2) : i = Len(hs2) \/ i \in 1..Len(hs)
  BY <1>2, <1>3
<1>6. \A i \in 1..Len(hs) : i \in 1..Len(hs2) /\ i # Len(hs2)
  BY <1>2, <1>3
<1>7. Seen(hs2) = Seen(hs) \cup {b}
  BY <1>3, <1>4, <1>5, <1>6 DEF Seen
<1>8. \A p, q : (\A i \in 1..Len(hs) : i \in p <=> i \in q) =>
                SumIn(hs2, q) = SumIn(hs, p) + (IF Len(hs2) \in q THEN n ELSE 0)
  <2>1. Len(hs) \in Nat /\ Len(hs2) = Len(hs) + 1 /\ Amounts(hs)
    BY <1>2, <1>3
  <2>2. \A i \in 1..Len(hs) : hs2[i] = hs[i]
    BY <1>3
  <2>3. hs2[Len(hs2)].amount = n
    BY <1>4
  <2> QED
    BY <2>1, <2>2, <2>3, SumInGrows
<1>9. ASSUME NEW c PROVE Flow(hs2, c) = Flow(hs, c) + (IF c = b THEN n ELSE 0)
  <2>1. \A i \in 1..Len(hs) : i \in PlacesOf(hs, c) <=> i \in PlacesOf(hs2, c)
    BY <1>3, <1>6 DEF PlacesOf
  <2>2. Len(hs2) \in PlacesOf(hs2, c) <=> c = b
    BY <1>4 DEF PlacesOf
  <2>3. SumIn(hs2, PlacesOf(hs2, c))
          = SumIn(hs, PlacesOf(hs, c)) + (IF Len(hs2) \in PlacesOf(hs2, c) THEN n ELSE 0)
    BY <1>8, <2>1
  <2> QED
    BY <2>2, <2>3 DEF Flow
<1>10. SumOf(hs2) = SumOf(hs) + n
  <2>1. PICK p : p = 1..Len(hs)
    OBVIOUS
  <2>2. PICK q : q = 1..Len(hs2)
    OBVIOUS
  <2>3. (\A i \in 1..Len(hs) : i \in p <=> i \in q) /\ Len(hs2) \in q
    BY <1>4, <1>6, <2>1, <2>2
  <2>4. SumIn(hs2, q) = SumIn(hs, p) + n
    BY <1>8, <2>3
  <2> QED
    BY <2>1, <2>2, <2>4 DEF SumOf
<1> QED
  BY <1>3, <1>4, <1>7, <1>9, <1>10 DEF Grown

LEMMA SeenGrows ==
  ASSUME NEW hs \in Seq(HeightSamples), NEW b \in Nat, NEW n \in 0..MaxU256
  PROVE  Grown(hs, Append(hs, [block |-> b, amount |-> n]), b, n)
<1> DEFINE s == [block |-> b, amount |-> n]
           hs2 == Append(hs, s)
<1>1. s \in HeightSamples /\ s.block = b /\ s.amount = n
  BY DEF HeightSamples
<1>2. Len(hs) \in Nat /\ Amounts(hs) /\ n \in Int
  BY HeightFacts, WindowAssumption
<1> HIDE DEF s
<1>3. /\ hs2 \in Seq(HeightSamples) /\ Len(hs2) = Len(hs) + 1
      /\ \A i \in 1..Len(hs) : hs2[i] = hs[i]
      /\ hs2[Len(hs) + 1] = s
  BY <1>1, <1>2
<1> HIDE DEF hs2
<1>4. hs2[Len(hs2)].block = b /\ hs2[Len(hs2)].amount = n
  BY <1>1, <1>3
<1>5. Grown(hs, hs2, b, n)
  BY <1>2, <1>3, <1>4, LongerIsGrown
<1> QED
  BY <1>5 DEF hs2, s

LEMMA FlowType ==
  ASSUME NEW hs \in Seq(HeightSamples), NEW c
  PROVE  /\ Flow(hs, c) \in Nat /\ SumOf(hs) \in Nat /\ Flow(hs, c) <= SumOf(hs)
         /\ c \notin Seen(hs) => Flow(hs, c) = 0
<1>1. Len(hs) \in Nat /\ Amounts(hs)
  BY HeightFacts
<1>2. Flow(hs, c) \in Nat /\ SumOf(hs) \in Nat
  BY <1>1, SumInType DEF Flow, SumOf
<1>3. Flow(hs, c) <= SumOf(hs)
  BY <1>1, SumInMono DEF Flow, SumOf
<1>4. ASSUME c \notin Seen(hs) PROVE Flow(hs, c) = 0
  <2> DEFINE g == [i \in 1..Len(hs) |-> IF i \in PlacesOf(hs, c) THEN hs[i].amount ELSE 0]
  <2>1. \A i \in 1..Len(hs) : i \notin PlacesOf(hs, c)
    BY <1>4 DEF Seen, PlacesOf
  <2>2. \A i \in 1..Len(hs) : g[i] = 0
    BY <2>1
  <2> HIDE DEF g
  <2>3. SumTo(g, Len(hs)) = 0
    BY <1>1, <2>2, SumToZero
  <2> QED
    BY <2>3 DEF Flow, SumIn, g
<1> QED
  BY <1>2, <1>3, <1>4

\* A sample of the height at the back.
LEMMA SameHeightKeeps ==
  ASSUME NEW blocks \in Seq(BlockEntry), NEW hs \in Seq(HeightSamples), Latest(blocks, hs),
         NEW b \in Nat, NEW n \in 0..MaxU256,
         NEW hs2, hs2 = Append(hs, [block |-> b, amount |-> n]), SumOf(hs2) <= MaxU256,
         Len(blocks) > 0, blocks[Len(blocks)].block = b
  PROVE  Latest(RecordBlock(blocks, b, n), hs2)
<1> DEFINE last == Len(blocks)
           more == RecordBlock(blocks, b, n)
<1>1. /\ last \in Nat /\ last \in 1..last
      /\ \A i \in 1..last : /\ blocks[i].block \in Nat
                            /\ blocks[i].sum \in 0..MaxU256
                            /\ blocks[i] = [block |-> blocks[i].block, sum |-> blocks[i].sum]
  BY BlockFacts
<1>2. /\ Len(hs) \in Nat /\ Len(hs2) = Len(hs) + 1 /\ hs2[Len(hs2)].block = b
      /\ Seen(hs2) = Seen(hs) \cup {b}
      /\ \A c : Flow(hs2, c) = Flow(hs, c) + (IF c = b THEN n ELSE 0)
      /\ hs2 \in Seq(HeightSamples)
  <2>1. Len(hs) \in Nat
    BY HeightFacts
  <2>2. Grown(hs, hs2, b, n)
    BY SeenGrows
  <2> QED
    BY <2>1, <2>2 DEF Grown
<1>3. MaxU256 \in Nat /\ n \in Nat
  BY WindowAssumption
<1>4. blocks # <<>>
  BY <1>1
<1>5. more = [blocks EXCEPT ![last].sum = SaturatingAdd(@, n)]
  BY <1>4 DEF RecordBlock
<1>6. /\ Len(more) = last
      /\ \A i \in 1..last : more[i].block = blocks[i].block
      /\ \A i \in 1..last : i # last => more[i].sum = blocks[i].sum
      /\ more[last].sum = SaturatingAdd(blocks[last].sum, n)
  BY <1>1, <1>5
<1> HIDE DEF more, last
<1>7. b \in Seen(hs)
  BY <1>1 DEF Latest, FromSeen, last
<1>8. Ascending(more)
  BY <1>6 DEF Latest, Ascending, last
<1>9. EndsAtLast(more, hs2)
  BY <1>1, <1>2, <1>6 DEF EndsAtLast, last
<1>10. FromSeen(more, hs2)
  BY <1>2, <1>6 DEF Latest, FromSeen, last
<1>11. NoneLeftOut(more, hs2)
  <2>1. Seen(hs2) = Seen(hs)
    BY <1>2, <1>7
  <2>2. 1 \in 1..last
    BY <1>1
  <2> QED
    BY <1>6, <2>1, <2>2 DEF Latest, NoneLeftOut, last
<1>12. FlowsSummed(more, hs2)
  <2> SUFFICES ASSUME NEW i \in 1..last PROVE more[i].sum = Flow(hs2, more[i].block)
    BY <1>6 DEF FlowsSummed
  <2>1. blocks[i].sum = Flow(hs, blocks[i].block)
    BY DEF Latest, FlowsSummed, last
  <2>2. CASE i = last
    <3>1. Flow(hs2, b) = blocks[last].sum + n
      BY <1>2, <2>1, <2>2 DEF last
    <3>2. Flow(hs2, b) <= SumOf(hs2) /\ Flow(hs2, b) \in Nat /\ SumOf(hs2) \in Nat
      BY <1>2, FlowType
    <3>3. SaturatingAdd(blocks[last].sum, n) = blocks[last].sum + n
      BY <1>1, <1>3, <3>1, <3>2 DEF SaturatingAdd, Saturating
    <3> QED
      BY <1>6, <2>2, <3>1, <3>3 DEF last
  <2>3. CASE i # last
    <3>1. blocks[i].block # b
      <4>1. i < last
        BY <1>1, <2>3
      <4>2. blocks[i].block < blocks[last].block
        BY <1>1, <4>1 DEF Latest, Ascending, last
      <4> QED
        BY <1>1, <4>2 DEF last
    <3>2. Flow(hs2, blocks[i].block) = Flow(hs, blocks[i].block) + 0
      BY <1>2, <3>1
    <3>3. Flow(hs, blocks[i].block) \in Nat
      BY FlowType
    <3> QED
      BY <1>6, <2>1, <2>3, <3>2, <3>3
  <2> QED
    BY <2>2, <2>3
<1> QED
  BY <1>8, <1>9, <1>10, <1>11, <1>12 DEF Latest, more

\* A sample of a new height.
LEMMA NewHeightKeeps ==
  ASSUME NEW blocks \in Seq(BlockEntry), Len(blocks) <= MaxBlocks,
         NEW hs \in Seq(HeightSamples), Latest(blocks, hs),
         NEW b \in Nat, NEW n \in 0..MaxU256,
         NEW hs2, hs2 = Append(hs, [block |-> b, amount |-> n]), NotBack(hs2),
         ~(Len(blocks) > 0 /\ blocks[Len(blocks)].block = b)
  PROVE  Latest(RecordBlock(blocks, b, n), hs2)
<1> DEFINE last == Len(blocks)
           e == [block |-> b, sum |-> n]
           longer == Append(blocks, e)
<1>1. /\ last \in Nat /\ MaxBlocks \in Nat \ {0} /\ n \in Nat
      /\ \A i \in 1..last : blocks[i].block \in Nat
  <2>1. last \in Nat /\ \A i \in 1..last : blocks[i].block \in Nat
    BY BlockFacts, Zenon
  <2>2. MaxBlocks \in Nat \ {0}
    BY MaxBlocksPositive
  <2>3. n \in Nat
    BY WindowAssumption
  <2> QED
    BY <2>1, <2>2, <2>3
<1>2. /\ Len(hs) \in Nat /\ Len(hs2) = Len(hs) + 1 /\ hs2[Len(hs2)].block = b
      /\ \A i \in 1..Len(hs) : hs2[i] = hs[i]
      /\ Seen(hs2) = Seen(hs) \cup {b}
      /\ \A c : Flow(hs2, c) = Flow(hs, c) + (IF c = b THEN n ELSE 0)
      /\ Seen(hs) \subseteq Nat
  <2>1. Len(hs) \in Nat /\ Seen(hs) \subseteq Nat
    BY HeightFacts, Zenon
  <2>2. Grown(hs, hs2, b, n)
    BY SeenGrows
  <2> QED
    BY <2>1, <2>2 DEF Grown
<1>3. \A c \in Seen(hs) : c < b
  <2> SUFFICES ASSUME NEW c \in Seen(hs) PROVE c < b
    OBVIOUS
  <2>1. last > 0 /\ c <= blocks[last].block
    BY LastIsHighest
  <2>2. Len(hs) > 0 /\ blocks[last].block = hs[Len(hs)].block
    BY <1>1, <1>2, <2>1 DEF Latest, EndsAtLast
  <2>6. Len(hs2) - 1 = Len(hs) /\ Len(hs2) \in Nat \ {0, 1}
    BY <1>2, <2>2
  <2>3. hs2[Len(hs2) - 1].block <= hs2[Len(hs2)].block
    BY <2>6, LastNotBack
  <2>4. hs2[Len(hs2) - 1] = hs[Len(hs)]
    BY <1>2, <2>2, <2>6
  <2>5. last \in 1..last /\ blocks[last].block # b /\ blocks[last].block <= b
    BY <1>1, <1>2, <2>1, <2>2, <2>3, <2>4
  <2> QED
    BY <1>1, <1>2, <2>1, <2>5
<1>4. Flow(hs2, b) = n
  <2>1. b \notin Seen(hs)
    BY <1>2, <1>3
  <2>2. Flow(hs, b) = 0
    BY <2>1, FlowType
  <2>3. Flow(hs2, b) = Flow(hs, b) + n
    BY <1>2
  <2> QED
    BY <1>1, <2>2, <2>3
<1>5. /\ Len(longer) = last + 1 /\ longer[last + 1] = e
      /\ \A i \in 1..last : longer[i] = blocks[i]
  BY <1>1
<1>6. e.block = b /\ e.sum = n
  OBVIOUS
<1>7. RecordBlock(blocks, b, n) = IF Len(longer) > MaxBlocks THEN Tail(longer) ELSE longer
  <2>1. ~(blocks # <<>> /\ blocks[Len(blocks)].block = b)
    BY <1>1
  <2> QED
    BY <2>1 DEF RecordBlock
<1>8. longer # <<>>
  BY <1>1, <1>5
<1> HIDE DEF last, e, longer
<1>9. \A i \in 1..(last + 1) : i \in 1..last \/ i = last + 1
  BY <1>1
<1>10. /\ Ascending(longer) /\ FromSeen(longer, hs2) /\ FlowsSummed(longer, hs2)
  <2>1. \A i \in 1..last : blocks[i].block \in Seen(hs)
    BY DEF Latest, FromSeen, last
  <2>2. Ascending(longer)
    <3> SUFFICES ASSUME NEW i \in 1..(last + 1), NEW j \in 1..(last + 1), i < j
                 PROVE  longer[i].block < longer[j].block
      BY <1>5 DEF Ascending
    <3>1. i \in 1..last
      BY <1>1
    <3>2. CASE j = last + 1
      BY <1>3, <1>5, <1>6, <2>1, <3>1, <3>2
    <3>3. CASE j \in 1..last
      BY <1>5, <3>1, <3>3 DEF Latest, Ascending, last
    <3> QED
      BY <1>9, <3>2, <3>3
  <2>3. FromSeen(longer, hs2)
    BY <1>2, <1>5, <1>6, <1>9, <2>1 DEF FromSeen
  <2>4. FlowsSummed(longer, hs2)
    <3> SUFFICES ASSUME NEW i \in 1..(last + 1) PROVE longer[i].sum = Flow(hs2, longer[i].block)
      BY <1>5 DEF FlowsSummed
    <3>1. CASE i = last + 1
      BY <1>4, <1>5, <1>6, <3>1
    <3>2. CASE i \in 1..last
      <4>1. blocks[i].block # b
        BY <1>1, <1>3, <2>1, <3>2
      <4>2. Flow(hs2, blocks[i].block) = Flow(hs, blocks[i].block) + 0
        BY <1>2, <4>1
      <4>3. Flow(hs, blocks[i].block) \in Nat
        BY FlowType
      <4>4. blocks[i].sum = Flow(hs, blocks[i].block)
        BY <3>2 DEF Latest, FlowsSummed, last
      <4> QED
        BY <1>5, <3>2, <4>2, <4>3, <4>4
    <3> QED
      BY <1>9, <3>1, <3>2
  <2> QED
    BY <2>2, <2>3, <2>4
<1>11. \A c \in Seen(hs2) :
         \/ \E i \in 1..(last + 1) : longer[i].block = c
         \/ last = MaxBlocks /\ c < blocks[1].block
  <2> SUFFICES ASSUME NEW c \in Seen(hs2)
               PROVE  \/ \E i \in 1..(last + 1) : longer[i].block = c
                      \/ last = MaxBlocks /\ c < blocks[1].block
    OBVIOUS
  <2>1. CASE c = b
    <3>1. last + 1 \in 1..(last + 1)
      BY <1>1
    <3> QED
      BY <1>5, <1>6, <2>1, <3>1
  <2>2. CASE c \in Seen(hs)
    <3>1. \/ \E i \in 1..last : blocks[i].block = c
          \/ last = MaxBlocks /\ c < blocks[1].block
      BY <2>2 DEF Latest, NoneLeftOut, last
    <3>2. \A i \in 1..last : i \in 1..(last + 1)
      BY <1>1
    <3> QED
      BY <1>5, <3>1, <3>2
  <2> QED
    BY <1>2, <2>1, <2>2
<1>12. CASE Len(longer) <= MaxBlocks
  <2>1. RecordBlock(blocks, b, n) = longer /\ last < MaxBlocks
    BY <1>1, <1>5, <1>7, <1>12
  <2>2. EndsAtLast(longer, hs2)
    BY <1>1, <1>2, <1>5, <1>6 DEF EndsAtLast
  <2>3. NoneLeftOut(longer, hs2)
    BY <1>1, <1>5, <1>11, <2>1 DEF NoneLeftOut
  <2> QED
    BY <1>10, <2>1, <2>2, <2>3 DEF Latest
<1>13. CASE Len(longer) > MaxBlocks
  <2> DEFINE rest == Tail(longer)
  <2>1. RecordBlock(blocks, b, n) = rest /\ last = MaxBlocks
    BY <1>1, <1>5, <1>7, <1>13 DEF last
  <2>2. /\ Len(rest) = last /\ \A i \in 1..last : rest[i] = longer[i + 1]
    <3>1. longer \in Seq(BlockEntry)
      <4>1. e \in BlockEntry
        BY DEF e, BlockEntry
      <4> QED
        BY <4>1 DEF longer
    <3> QED
      BY <1>1, <1>5, <1>8, <3>1
  <2> HIDE DEF rest
  <2>3. \A i \in 1..last : i + 1 \in 1..(last + 1) /\ i + 1 # 1
    BY <1>1
  <2>4. Ascending(rest)
    <3> SUFFICES ASSUME NEW i \in 1..last, NEW j \in 1..last, i < j
                 PROVE  rest[i].block < rest[j].block
      BY <2>2 DEF Ascending
    <3>1. i + 1 < j + 1 /\ i + 1 \in 1..(last + 1) /\ j + 1 \in 1..(last + 1)
      BY <1>1
    <3> QED
      BY <1>5, <1>10, <2>2, <3>1 DEF Ascending
  <2>5. FromSeen(rest, hs2) /\ FlowsSummed(rest, hs2)
    BY <1>5, <1>10, <2>2, <2>3 DEF FromSeen, FlowsSummed
  <2>6. EndsAtLast(rest, hs2)
    <3>1. last \in 1..last /\ last > 0 /\ Len(hs2) > 0
      BY <1>1, <1>2, <2>1
    <3>2. rest[last].block = b
      BY <1>5, <1>6, <2>2, <3>1
    <3> QED
      BY <1>1, <1>2, <2>2, <3>1, <3>2 DEF EndsAtLast
  <2>7. NoneLeftOut(rest, hs2)
    <3> SUFFICES ASSUME NEW c \in Seen(hs2)
                 PROVE  \/ \E i \in 1..last : rest[i].block = c
                        \/ last = MaxBlocks /\ c < rest[1].block
      BY <2>2 DEF NoneLeftOut
    <3>1. 1 \in 1..last /\ 1 \in 1..(last + 1) /\ 2 \in 1..(last + 1) /\ c \in Nat
      BY <1>1, <1>2, <2>1
    <3>2. rest[1].block = longer[2].block /\ longer[1].block < longer[2].block
          /\ longer[1] = blocks[1] /\ blocks[1].block \in Nat
      <4>1. rest[1] = longer[1 + 1]
        BY <2>2, <3>1
      <4> QED
        BY <1>1, <1>5, <1>10, <3>1, <4>1 DEF Ascending
    <3>3. rest[1].block \in Nat
      <4>1. rest[1].block \in Seen(hs2)
        BY <2>2, <2>5, <3>1 DEF FromSeen
      <4> QED
        BY <1>2, <4>1
    <3>4. CASE \E i \in 1..(last + 1) : longer[i].block = c
      <4>1. PICK i \in 1..(last + 1) : longer[i].block = c
        BY <3>4
      <4>2. CASE i = 1
        BY <2>1, <3>2, <4>1, <4>2
      <4>3. CASE i # 1
        <5>1. i - 1 \in 1..last /\ (i - 1) + 1 = i
          BY <1>1, <4>3
        <5> QED
          BY <2>2, <4>1, <5>1
      <4> QED
        BY <4>2, <4>3
    <3>5. CASE c < blocks[1].block
      BY <2>1, <3>1, <3>2, <3>3, <3>5
    <3> QED
      BY <1>11, <3>4, <3>5
  <2> QED
    BY <2>1, <2>4, <2>5, <2>6, <2>7 DEF Latest
<1> QED
  BY <1>1, <1>5, <1>12, <1>13

LEMMA RecordBlockKeeps ==
  ASSUME NEW blocks \in Seq(BlockEntry), Len(blocks) <= MaxBlocks,
         NEW hs \in Seq(HeightSamples), Latest(blocks, hs),
         NEW b \in Nat, NEW n \in 0..MaxU256,
         NEW hs2, hs2 = Append(hs, [block |-> b, amount |-> n]), NotBack(hs2),
         SumOf(hs2) <= MaxU256
  PROVE  Latest(RecordBlock(blocks, b, n), hs2)
  BY SameHeightKeeps, NewHeightKeeps

-----------------------------------------------------------------------------
(* The entries of a block window that holds the latest heights. *)
BlocksOf(blocks) == {blocks[i].block : i \in 1..Len(blocks)}
Above(hs, b) == {c \in Seen(hs) : c > b}
Top(hs) == {b \in Seen(hs) : Cardinality(Above(hs, b)) < MaxBlocks}

LEMMA BlocksCounted ==
  ASSUME NEW blocks, Len(blocks) \in Nat, \A i \in 1..Len(blocks) : blocks[i].block \in Nat,
         Ascending(blocks)
  PROVE  IsFiniteSet(BlocksOf(blocks)) /\ Cardinality(BlocksOf(blocks)) = Len(blocks)
<1> DEFINE f == [i \in 1..Len(blocks) |-> blocks[i].block]
<1>1. f \in Surjection(1..Len(blocks), BlocksOf(blocks))
  BY DEF Surjection, BlocksOf
<1>2. \A i, j \in 1..Len(blocks) : i # j => blocks[i].block # blocks[j].block
  <2> SUFFICES ASSUME NEW i \in 1..Len(blocks), NEW j \in 1..Len(blocks), i # j
               PROVE  blocks[i].block # blocks[j].block
    OBVIOUS
  <2>1. i < j \/ j < i
    OBVIOUS
  <2>2. (i < j => blocks[i].block < blocks[j].block) /\ (j < i => blocks[j].block < blocks[i].block)
    BY DEF Ascending
  <2>3. blocks[i].block \in Nat /\ blocks[j].block \in Nat
    OBVIOUS
  <2> QED
    BY <2>1, <2>2, <2>3
<1>3. f \in Injection(1..Len(blocks), BlocksOf(blocks))
  <2>1. \A i, j \in 1..Len(blocks) : f[i] = f[j] => i = j
    BY <1>2
  <2>2. f \in [1..Len(blocks) -> BlocksOf(blocks)]
    BY <1>1 DEF Surjection
  <2> HIDE DEF f
  <2> QED
    BY <2>1, <2>2, Zenon DEF Injection, IsInjective
<1>4. IsFiniteSet(1..Len(blocks)) /\ Cardinality(1..Len(blocks)) = Len(blocks)
  <2>1. PICK n \in Nat : n = Len(blocks)
    OBVIOUS
  <2>2. IsFiniteSet(1..n) /\ Cardinality(1..n) = IF 1 > n THEN 0 ELSE n - 1 + 1
    BY FS_Interval
  <2>3. IsFiniteSet(1..n) /\ Cardinality(1..n) = n
    BY <2>2
  <2> QED
    BY <2>1, <2>3
<1> HIDE DEF f
<1>5. /\ IsFiniteSet(BlocksOf(blocks))
      /\ Cardinality(BlocksOf(blocks)) = Cardinality(1..Len(blocks))
  BY <1>1, <1>3, <1>4, FS_Surjection
<1> QED
  BY <1>4, <1>5

\* They are the last max_blocks of the heights seen.
LEMMA EntriesAreTop ==
  ASSUME NEW blocks \in Seq(BlockEntry), Len(blocks) <= MaxBlocks,
         NEW hs \in Seq(HeightSamples), Latest(blocks, hs)
  PROVE  Top(hs) = BlocksOf(blocks)
<1>1. Len(blocks) \in Nat /\ (\A i \in 1..Len(blocks) : blocks[i].block \in Nat)
  BY BlockFacts, Zenon
<1>2. Seen(hs) \subseteq Nat /\ IsFiniteSet(Seen(hs))
  BY HeightFacts, Zenon
<1>3. /\ Ascending(blocks) /\ FromSeen(blocks, hs) /\ NoneLeftOut(blocks, hs)
  BY DEF Latest
<1>4. MaxBlocks \in Nat \ {0}
  BY MaxBlocksPositive
<1>5. IsFiniteSet(BlocksOf(blocks)) /\ Cardinality(BlocksOf(blocks)) = Len(blocks)
  BY <1>1, <1>3, BlocksCounted
<1>6. BlocksOf(blocks) \subseteq Seen(hs)
  BY <1>3 DEF FromSeen, BlocksOf
<1>7. ASSUME NEW b \in BlocksOf(blocks) PROVE Cardinality(Above(hs, b)) < MaxBlocks
  <2>1. PICK i \in 1..Len(blocks) : b = blocks[i].block
    BY DEF BlocksOf
  <2>2. 1 \in 1..Len(blocks) /\ blocks[1].block <= b
    <3>1. 1 \in 1..Len(blocks) /\ (i = 1 \/ 1 < i)
      BY <1>1
    <3>2. 1 < i => blocks[1].block < blocks[i].block
      BY <1>3, <3>1 DEF Ascending
    <3> QED
      BY <1>1, <2>1, <3>1, <3>2
  <2>3. ASSUME NEW c \in Above(hs, b) PROVE c \in BlocksOf(blocks) \ {b}
    <3>1. c \in Seen(hs) /\ c > b /\ c \in Nat /\ b \in Nat
      BY <1>1, <1>2, <2>1 DEF Above
    <3>2. ~(c < blocks[1].block)
      BY <1>1, <2>2, <3>1
    <3>3. \E j \in 1..Len(blocks) : blocks[j].block = c
      BY <1>3, <3>1, <3>2 DEF NoneLeftOut
    <3> QED
      BY <3>1, <3>3 DEF BlocksOf
  <2>4. Above(hs, b) \in SUBSET (BlocksOf(blocks) \ {b})
    BY <2>3
  <2>5. /\ IsFiniteSet(BlocksOf(blocks) \ {b})
        /\ Cardinality(BlocksOf(blocks) \ {b}) = Len(blocks) - 1
    BY <1>5, FS_RemoveElement
  <2>6. /\ IsFiniteSet(Above(hs, b))
        /\ Cardinality(Above(hs, b)) <= Cardinality(BlocksOf(blocks) \ {b})
    BY <2>4, <2>5, FS_Subset
  <2>7. Cardinality(Above(hs, b)) \in Nat
    BY <2>6, FS_CardinalityType
  <2> QED
    BY <1>1, <1>4, <2>5, <2>6, <2>7
<1>8. ASSUME NEW b \in Seen(hs), b \notin BlocksOf(blocks)
      PROVE  ~(Cardinality(Above(hs, b)) < MaxBlocks)
  <2>1. Len(blocks) = MaxBlocks /\ b < blocks[1].block
    BY <1>3, <1>8 DEF NoneLeftOut, BlocksOf
  <2>2. ASSUME NEW c \in BlocksOf(blocks) PROVE c \in Above(hs, b)
    <3>1. PICK i \in 1..Len(blocks) : c = blocks[i].block
      BY DEF BlocksOf
    <3>2. 1 \in 1..Len(blocks) /\ (i = 1 \/ 1 < i)
      BY <1>1
    <3>3. 1 < i => blocks[1].block < blocks[i].block
      BY <1>3, <3>2 DEF Ascending
    <3>4. b \in Nat /\ c \in Nat /\ blocks[1].block \in Nat
      BY <1>1, <1>2, <3>1, <3>2
    <3>5. c > b
      BY <2>1, <3>1, <3>2, <3>3, <3>4
    <3> QED
      BY <1>6, <3>5 DEF Above
  <2>3. BlocksOf(blocks) \in SUBSET Above(hs, b) /\ Above(hs, b) \in SUBSET Seen(hs)
    BY <2>2 DEF Above
  <2>4. IsFiniteSet(Above(hs, b))
    BY <1>2, <2>3, FS_Subset
  <2>5. Cardinality(BlocksOf(blocks)) <= Cardinality(Above(hs, b))
    BY <2>3, <2>4, FS_Subset
  <2>6. Cardinality(Above(hs, b)) \in Nat
    BY <2>4, FS_CardinalityType
  <2> QED
    BY <1>4, <1>5, <2>1, <2>5, <2>6
<1>9. \A b \in Top(hs) : b \in BlocksOf(blocks)
  BY <1>8 DEF Top
<1>10. \A b \in BlocksOf(blocks) : b \in Top(hs)
  BY <1>6, <1>7 DEF Top
<1> QED
  BY <1>9, <1>10

LEMMA EntriesAreFlows ==
  ASSUME NEW blocks \in Seq(BlockEntry), NEW hs \in Seq(HeightSamples), Latest(blocks, hs)
  PROVE  {blocks[i] : i \in 1..Len(blocks)}
           = {[block |-> b, sum |-> Flow(hs, b)] : b \in BlocksOf(blocks)}
<1>1. \A i \in 1..Len(blocks) : blocks[i] = [block |-> blocks[i].block, sum |-> blocks[i].sum]
  BY BlockFacts, Zenon
<1>2. \A i \in 1..Len(blocks) : blocks[i].sum = Flow(hs, blocks[i].block)
  BY DEF Latest, FlowsSummed
<1>3. \A i \in 1..Len(blocks) :
        blocks[i] = [block |-> blocks[i].block, sum |-> Flow(hs, blocks[i].block)]
  BY <1>1, <1>2
<1> QED
  BY <1>3, Zenon DEF BlocksOf

\* The places of a set of heights.
PlacesIn(hs, s) == {i \in 1..Len(hs) : hs[i].block \in s}

LEMMA FlowsAddUp ==
  ASSUME NEW blocks, NEW hs, Len(hs) \in Nat, Amounts(hs), Len(blocks) \in Nat, NEW g,
         \A i, j \in 1..Len(blocks) : i # j => blocks[i].block # blocks[j].block,
         \A i \in 1..Len(blocks) : g[i] = Flow(hs, blocks[i].block)
  PROVE  SumTo(g, Len(blocks)) = SumIn(hs, PlacesIn(hs, BlocksOf(blocks)))
<1> DEFINE n == Len(blocks)
           First(k) == {blocks[i].block : i \in 1..k}
           S == {k \in Nat : k <= n => SumTo(g, k) = SumIn(hs, PlacesIn(hs, First(k)))}
<1>1. 0 \in S
  <2>1. \A i \in 1..Len(hs) : i \in PlacesIn(hs, First(0)) <=> i \in {}
    BY DEF PlacesIn
  <2>2. SumIn(hs, PlacesIn(hs, First(0))) = SumIn(hs, {})
    <3> HIDE DEF First
    <3> QED
      BY <2>1, SumInSame
  <2>3. SumIn(hs, {}) = SumIn(hs, {}) + SumIn(hs, {})
    BY SumInApart
  <2>4. SumIn(hs, {}) \in Nat
    BY SumInType
  <2>5. SumTo(g, 0) = 0
    BY SumToStep
  <2>6. SumTo(g, 0) = SumIn(hs, PlacesIn(hs, First(0)))
    BY <2>2, <2>3, <2>4, <2>5
  <2> QED
    BY <2>6
<1>2. ASSUME NEW k \in Nat, k \in S PROVE k + 1 \in S
  <2> SUFFICES ASSUME k + 1 <= n
               PROVE  SumTo(g, k + 1) = SumIn(hs, PlacesIn(hs, First(k + 1)))
    OBVIOUS
  <2>1. SumTo(g, k) = SumIn(hs, PlacesIn(hs, First(k)))
    BY <1>2
  <2>2. k + 1 \in 1..n /\ \A i \in 1..k : i \in 1..n /\ i # k + 1 /\ i \in 1..(k + 1)
    OBVIOUS
  <2>3. g[k + 1] = SumIn(hs, PlacesOf(hs, blocks[k + 1].block))
    BY <2>2 DEF Flow
  <2>4. \A b : b \in First(k + 1) <=> b \in First(k) \/ b = blocks[k + 1].block
    <3>1. \A i \in 1..(k + 1) : i \in 1..k \/ i = k + 1
      OBVIOUS
    <3>2. k + 1 \in 1..(k + 1)
      OBVIOUS
    <3> QED
      BY <2>2, <3>1, <3>2
  <2>5. blocks[k + 1].block \notin First(k)
    BY <2>2
  <2> HIDE DEF First
  <2>6. \A i \in 1..Len(hs) :
          /\ i \in PlacesIn(hs, First(k + 1)) <=>
               i \in PlacesIn(hs, First(k)) \/ i \in PlacesOf(hs, blocks[k + 1].block)
          /\ ~(i \in PlacesIn(hs, First(k)) /\ i \in PlacesOf(hs, blocks[k + 1].block))
    BY <2>4, <2>5 DEF PlacesIn, PlacesOf
  <2>7. SumIn(hs, PlacesIn(hs, First(k + 1)))
          = SumIn(hs, PlacesIn(hs, First(k))) + SumIn(hs, PlacesOf(hs, blocks[k + 1].block))
    BY <2>6, SumInApart
  <2>8. SumTo(g, k + 1) = SumTo(g, k) + g[k + 1]
    BY SumToStep
  <2> QED
    BY <2>1, <2>3, <2>7, <2>8
<1> HIDE DEF S
<1>3. Nat \subseteq S
  BY <1>1, <1>2, SetInduction
<1>4. First(n) = BlocksOf(blocks)
  BY DEF BlocksOf
<1>5. n \in S
  BY <1>3
<1> HIDE DEF First
<1>6. SumTo(g, n) = SumIn(hs, PlacesIn(hs, First(n)))
  BY <1>5 DEF S
<1> QED
  BY <1>4, <1>6

\* The sum of all entries does not saturate.
LEMMA EntriesAddUp ==
  ASSUME NEW blocks \in Seq(BlockEntry), NEW hs \in Seq(HeightSamples), Latest(blocks, hs),
         SumOf(hs) <= MaxU256
  PROVE  SaturatingSum(0, [i \in 1..Len(blocks) |-> blocks[i].sum], Len(blocks))
           = SumIn(hs, PlacesIn(hs, BlocksOf(blocks)))
<1> DEFINE g == [i \in 1..Len(blocks) |-> blocks[i].sum]
           total == SumIn(hs, PlacesIn(hs, BlocksOf(blocks)))
<1>1. /\ Len(blocks) \in Nat
      /\ \A i \in 1..Len(blocks) : blocks[i].block \in Nat /\ blocks[i].sum \in Nat
  BY BlockFacts
<1>2. Len(hs) \in Nat /\ Amounts(hs)
  BY HeightFacts
<1>3. \A i \in 1..Len(blocks) : g[i] = Flow(hs, blocks[i].block)
  BY DEF Latest, FlowsSummed
<1>4. \A i \in 1..Len(blocks) : g[i] \in Nat
  BY <1>1
<1> HIDE DEF g
<1>5. \A i, j \in 1..Len(blocks) : i # j => blocks[i].block # blocks[j].block
  <2> SUFFICES ASSUME NEW i \in 1..Len(blocks), NEW j \in 1..Len(blocks), i # j
               PROVE  blocks[i].block # blocks[j].block
    OBVIOUS
  <2>1. i < j \/ j < i
    BY <1>1
  <2>2. (i < j => blocks[i].block < blocks[j].block) /\ (j < i => blocks[j].block < blocks[i].block)
    BY DEF Latest, Ascending
  <2> QED
    BY <1>1, <2>1, <2>2
<1>6. SumTo(g, Len(blocks)) = total
  BY <1>1, <1>2, <1>3, <1>5, FlowsAddUp
<1>7. total <= SumOf(hs) /\ total \in Nat /\ SumOf(hs) \in Nat /\ MaxU256 \in Nat
  <2>1. \A i \in 1..Len(hs) : i \in PlacesIn(hs, BlocksOf(blocks)) => i \in 1..Len(hs)
    OBVIOUS
  <2> QED
    BY <1>2, <2>1, SumInMono, SumInType, WindowAssumption DEF SumOf
<1> HIDE DEF total
<1>8. SaturatingSum(0, g, Len(blocks))
        = IF 0 + SumTo(g, Len(blocks)) <= MaxU256 THEN 0 + SumTo(g, Len(blocks)) ELSE MaxU256
  <2>1. 0 \in 0..MaxU256
    BY <1>7
  <2> QED
    BY <1>1, <1>4, <2>1, SaturatingUp
<1>9. SaturatingSum(0, g, Len(blocks)) = total
  BY <1>6, <1>7, <1>8
<1> QED
  BY <1>9 DEF g, total

-----------------------------------------------------------------------------
BlocksInv == NotBack(heights) /\ SumOf(heights) <= MaxU256 => Latest(block_ait, heights)

LEMMA LatestAtFirst == ASSUME NEW blocks, NEW hs, Len(blocks) = 0, Len(hs) = 0
                       PROVE  Latest(blocks, hs)
<1>1. Ascending(blocks) /\ EndsAtLast(blocks, hs)
  BY DEF Ascending, EndsAtLast
<1>2. FromSeen(blocks, hs) /\ NoneLeftOut(blocks, hs) /\ FlowsSummed(blocks, hs)
  BY DEF FromSeen, NoneLeftOut, FlowsSummed, Seen
<1> QED
  BY <1>1, <1>2 DEF Latest

LEMMA NotBackBefore ==
  ASSUME NEW hs, NEW hs2, NEW b, NEW n, Len(hs) \in Nat, Grown(hs, hs2, b, n), NotBack(hs2)
  PROVE  NotBack(hs)
<1> SUFFICES ASSUME NEW i \in 2..Len(hs) PROVE hs[i - 1].block <= hs[i].block
  BY DEF NotBack
<1>1. Len(hs2) = Len(hs) + 1
  BY DEF Grown
<1>2. i \in 2..Len(hs2) /\ i \in 1..Len(hs) /\ i - 1 \in 1..Len(hs)
  BY <1>1
<1>3. hs2[i - 1].block <= hs2[i].block
  BY <1>2 DEF NotBack
<1>4. hs2[i] = hs[i] /\ hs2[i - 1] = hs[i - 1]
  BY <1>2 DEF Grown
<1> QED
  BY <1>3, <1>4

LEMMA LatestGrows ==
  ASSUME NEW blocks \in Seq(BlockEntry), Len(blocks) <= MaxBlocks,
         NEW hs \in Seq(HeightSamples),
         NotBack(hs) /\ SumOf(hs) <= MaxU256 => Latest(blocks, hs),
         NEW b \in Nat, NEW n \in 0..MaxU256,
         NEW hs2, hs2 = Append(hs, [block |-> b, amount |-> n]), NotBack(hs2),
         SumOf(hs2) <= MaxU256
  PROVE  Latest(RecordBlock(blocks, b, n), hs2)
<1>1. Grown(hs, hs2, b, n)
  BY SeenGrows
<1>2. Len(hs) \in Nat /\ SumOf(hs) \in Nat /\ MaxU256 \in Nat
  BY HeightFacts, FlowType, WindowAssumption
<1>3. NotBack(hs)
  BY <1>1, <1>2, NotBackBefore
<1>4. SumOf(hs) <= MaxU256
  <2>1. SumOf(hs2) = SumOf(hs) + n
    BY <1>1 DEF Grown
  <2> QED
    BY <1>2, <2>1
<1> QED
  BY <1>3, <1>4, RecordBlockKeeps

LEMMA BlocksStart == Init => BlocksInv
  BY LatestAtFirst DEF Init, BlocksInv

LEMMA BlocksStep == HubInv /\ BlocksInv /\ [Next]_vars => BlocksInv'
<1> SUFFICES ASSUME HubInv, BlocksInv, [Next]_vars PROVE BlocksInv'
  OBVIOUS
<1>1. CASE UNCHANGED <<block_ait, heights>>
  BY <1>1 DEF BlocksInv
<1>2. CASE /\ block_ait' = RecordBlock(block_ait, bn, Head(recording).ait)
           /\ heights' = Append(heights, [block |-> bn, amount |-> Head(recording).ait])
           /\ Head(recording).ait \in 0..MaxU256 /\ bn \in Nat
  <2> SUFFICES ASSUME NotBack(heights'), SumOf(heights') <= MaxU256
               PROVE  Latest(block_ait', heights')
    BY DEF BlocksInv
  <2>1. block_ait \in Seq(BlockEntry) /\ Len(block_ait) <= MaxBlocks
    BY DEF HubInv, BlocksTyped
  <2>2. heights \in Seq(HeightSamples)
    BY DEF HubInv, BlocksTyped, HeightSamples
  <2>3. NotBack(heights) /\ SumOf(heights) <= MaxU256 => Latest(block_ait, heights)
    BY DEF BlocksInv
  <2>4. Latest(RecordBlock(block_ait, bn, Head(recording).ait), heights')
    BY <1>2, <2>1, <2>2, <2>3, LatestGrows
  <2> QED
    BY <1>2, <2>4
<1> QED
  BY <1>1, <1>2, BlocksMove DEF HubInv

LEMMA VelocityIsMean ==
  ASSUME HubInv, BlocksInv, NotBack(heights), SumOf(heights) <= MaxU256
  PROVE  /\ {block_ait[i] : i \in 1..Len(block_ait)}
              = {[block |-> b, sum |-> SumAt(b)] : b \in LastHeights}
         /\ LastHeights # {} =>
              VelocityPerBlockAvg =
                SumIn(heights, At(LastHeights)) \div Cardinality(LastHeights)
<1>1. /\ block_ait \in Seq(BlockEntry) /\ Len(block_ait) <= MaxBlocks
      /\ heights \in Seq(HeightSamples) /\ Latest(block_ait, heights)
  BY DEF HubInv, BlocksTyped, HeightSamples, BlocksInv
<1>2. LastHeights = BlocksOf(block_ait)
  <2>1. LastHeights = Top(heights)
    BY DEF LastHeights, HeightsSeen, Top, Above, Seen
  <2> QED
    BY <1>1, <2>1, EntriesAreTop
<1>3. Len(block_ait) \in Nat /\ Cardinality(BlocksOf(block_ait)) = Len(block_ait)
  <2>1. Len(block_ait) \in Nat /\ \A i \in 1..Len(block_ait) : block_ait[i].block \in Nat
    BY <1>1, BlockFacts
  <2> QED
    BY <1>1, <2>1, BlocksCounted DEF Latest
<1>4. \A b : SumAt(b) = Flow(heights, b)
  <2> SUFFICES ASSUME NEW b PROVE SumAt(b) = Flow(heights, b)
    OBVIOUS
  <2>1. At({b}) = PlacesOf(heights, b)
    BY DEF At, PlacesOf
  <2> QED
    BY <2>1 DEF SumAt, Flow
<1>5. {block_ait[i] : i \in 1..Len(block_ait)}
        = {[block |-> b, sum |-> SumAt(b)] : b \in LastHeights}
  <2>1. {block_ait[i] : i \in 1..Len(block_ait)}
          = {[block |-> b, sum |-> Flow(heights, b)] : b \in BlocksOf(block_ait)}
    BY <1>1, EntriesAreFlows
  <2>2. {[block |-> b, sum |-> Flow(heights, b)] : b \in BlocksOf(block_ait)}
          = {[block |-> b, sum |-> SumAt(b)] : b \in LastHeights}
    BY <1>2, <1>4
  <2> QED
    BY <2>1, <2>2
<1>6. ASSUME LastHeights # {}
      PROVE  VelocityPerBlockAvg =
               SumIn(heights, At(LastHeights)) \div Cardinality(LastHeights)
  <2>1. Len(block_ait) # 0
    <3>1. PICK b : b \in BlocksOf(block_ait)
      BY <1>2, <1>6
    <3>2. PICK i \in 1..Len(block_ait) : b = block_ait[i].block
      BY <3>1 DEF BlocksOf
    <3> QED
      BY <1>3, <3>2
  <2>2. SaturatingSum(0, [i \in 1..Len(block_ait) |-> block_ait[i].sum], Len(block_ait))
          = SumIn(heights, PlacesIn(heights, BlocksOf(block_ait)))
    BY <1>1, EntriesAddUp
  <2>3. PlacesIn(heights, BlocksOf(block_ait)) = At(LastHeights)
    BY <1>2 DEF PlacesIn, At
  <2>4. VelocityPerBlockAvg
          = SaturatingSum(0, [i \in 1..Len(block_ait) |-> block_ait[i].sum], Len(block_ait))
              \div Len(block_ait)
    BY <2>1 DEF VelocityPerBlockAvg
  <2> QED
    BY <1>2, <1>3, <2>2, <2>3, <2>4
<1> QED
  BY <1>5, <1>6

\* As long as the heights that the settler finds do not go back, the block window has one
\* entry for each of the latest max_blocks heights, with all that was recorded at that
\* height, and the velocity is their mean (telemetry.rs:84).
THEOREM VelocityStaysExact == Spec => []VelocityExact
<1>1. HubInv /\ BlocksInv => VelocityExact
  <2>1. NeverBack <=> NotBack(heights)
    BY DEF NeverBack, NotBack
  <2> QED
    BY <2>1, VelocityIsMean DEF VelocityExact
<1>2. Spec => []BlocksInv
  <2>1. HubInv /\ HubInv' /\ BlocksInv /\ [Next]_vars => BlocksInv'
    BY BlocksStep
  <2> QED
    BY <2>1, BlocksStart, HubInductive, PTL DEF Spec
<1> QED
  BY <1>1, <1>2, HubInductive, PTL

-----------------------------------------------------------------------------
(***************************************************************************)
(* The entries alone, without their sums: their heights ascend and end at  *)
(* that of the last sample, for as long as heights do not go back.         *)
(***************************************************************************)
Merged(blocks, hs) == Ascending(blocks) /\ EndsAtLast(blocks, hs)
MergedInv == NotBack(heights) => Merged(block_ait, heights)

\* The last entry takes the sample, or the sample is a new entry at the end, for which
\* the oldest makes room.
SameEntry(blocks, more, b) ==
  /\ Len(blocks) > 0 /\ blocks[Len(blocks)].block = b
  /\ Len(more) = Len(blocks)
  /\ \A i \in 1..Len(blocks) : more[i].block = blocks[i].block
LastEntryIsNew(blocks, b) == ~(Len(blocks) > 0 /\ blocks[Len(blocks)].block = b)
OneEntryMore(blocks, more, b) ==
  /\ LastEntryIsNew(blocks, b)
  /\ Len(more) = Len(blocks) + 1 /\ more[Len(blocks) + 1].block = b
  /\ \A i \in 1..Len(blocks) : more[i].block = blocks[i].block
OldestLeft(blocks, more, b) ==
  /\ LastEntryIsNew(blocks, b)
  /\ Len(blocks) > 0
  /\ Len(more) = Len(blocks) /\ more[Len(blocks)].block = b
  /\ \A i \in 1..(Len(blocks) - 1) : more[i].block = blocks[i + 1].block

LEMMA RecordBlockEntries ==
  ASSUME NEW blocks \in Seq(BlockEntry), Len(blocks) <= MaxBlocks, NEW b \in Nat,
         NEW n \in 0..MaxU256
  PROVE  LET more == RecordBlock(blocks, b, n) IN
         \/ SameEntry(blocks, more, b)
         \/ OneEntryMore(blocks, more, b)
         \/ OldestLeft(blocks, more, b)
<1> DEFINE last == Len(blocks)
           more == RecordBlock(blocks, b, n)
           e == [block |-> b, sum |-> n]
           longer == Append(blocks, e)
<1>1. last \in Nat /\ MaxBlocks \in Nat \ {0} /\ (blocks # <<>> <=> last > 0)
  <2>1. last \in Nat
    BY SeqLength
  <2>2. blocks # <<>> <=> last > 0
    OBVIOUS
  <2> QED
    BY <2>1, <2>2, MaxBlocksPositive
<1>2. CASE last > 0 /\ blocks[last].block = b
  <2>1. more = [blocks EXCEPT ![last].sum = SaturatingAdd(@, n)]
    BY <1>1, <1>2 DEF RecordBlock
  <2>2. \A i \in 1..last : blocks[i] = [block |-> blocks[i].block, sum |-> blocks[i].sum]
    BY BlockFacts, Zenon
  <2>3. Len(more) = last /\ \A i \in 1..last : more[i].block = blocks[i].block
    BY <1>1, <2>1, <2>2
  <2> QED
    BY <1>2, <2>3 DEF SameEntry
<1>3. ASSUME ~(last > 0 /\ blocks[last].block = b)
      PROVE  OneEntryMore(blocks, more, b) \/ OldestLeft(blocks, more, b)
  <2>1. more = IF Len(longer) > MaxBlocks THEN Tail(longer) ELSE longer
    BY <1>1, <1>3 DEF RecordBlock
  <2>2. e \in BlockEntry /\ e.block = b
    BY DEF BlockEntry
  <2> HIDE DEF e
  <2>3. /\ longer \in Seq(BlockEntry) /\ Len(longer) = last + 1 /\ longer[last + 1] = e
        /\ \A i \in 1..last : longer[i] = blocks[i]
    BY <2>2
  <2>4. longer # <<>>
    BY <1>1, <2>3
  <2> HIDE DEF longer, more
  <2>5. CASE more = longer
    <3>1. LastEntryIsNew(blocks, b)
      BY <1>3 DEF LastEntryIsNew
    <3>2. Len(more) = Len(blocks) + 1
      BY <2>3, <2>5
    <3>3. more[Len(blocks) + 1].block = b
      BY <2>2, <2>3, <2>5
    <3>4. ASSUME NEW i \in 1..Len(blocks) PROVE more[i].block = blocks[i].block
      BY <2>3, <2>5
    <3> QED
      BY <3>1, <3>2, <3>3, <3>4 DEF OneEntryMore
  <2>6. CASE more = Tail(longer) /\ Len(longer) > MaxBlocks
    <3>1. /\ Len(more) = last /\ last > 0
          /\ \A i \in 1..last : more[i] = longer[i + 1]
      <4>1. /\ Len(Tail(longer)) = Len(longer) - 1
            /\ \A i \in 1..Len(Tail(longer)) : Tail(longer)[i] = longer[i + 1]
        BY <2>3, <2>4, TailEntries
      <4>2. last > 0
        BY <1>1, <2>3, <2>6
      <4> QED
        BY <1>1, <2>3, <2>6, <4>1, <4>2
    <3> HIDE DEF last
    <3>2. more[last].block = b
      BY <1>1, <2>2, <2>3, <3>1
    <3>3. ASSUME NEW i \in 1..(last - 1) PROVE more[i].block = blocks[i + 1].block
      <4>1. i \in 1..last /\ i + 1 \in 1..last
        BY <1>1
      <4> QED
        BY <2>3, <3>1, <4>1
    <3>4. LastEntryIsNew(blocks, b)
      BY <1>3 DEF LastEntryIsNew, last
    <3> USE DEF last
    <3> HIDE DEF e
    <3>5. Len(blocks) > 0 /\ Len(more) = Len(blocks) /\ more[Len(blocks)].block = b
      BY <3>1, <3>2
    <3> QED
      BY <3>3, <3>4, <3>5 DEF OldestLeft
  <2> QED
    BY <2>1, <2>5, <2>6
<1> QED
  BY <1>2, <1>3

LEMMA MergedFrom ==
  ASSUME NEW more, NEW hs, NEW b, Ascending(more), Len(more) > 0, more[Len(more)].block = b,
         Len(hs) > 0, hs[Len(hs)].block = b
  PROVE  Merged(more, hs)
BY DEF Merged, EndsAtLast

\* A sample whose height is not below the last one's leaves the entries ascending.
LEMMA RecordBlockMerges ==
  ASSUME NEW blocks \in Seq(BlockEntry), Len(blocks) <= MaxBlocks,
         NEW hs \in Seq(HeightSamples), Merged(blocks, hs), NEW b \in Nat, NEW n \in 0..MaxU256,
         NEW hs2, Grown(hs, hs2, b, n), NotBack(hs2)
  PROVE  Merged(RecordBlock(blocks, b, n), hs2)
<1> DEFINE last == Len(blocks)
           more == RecordBlock(blocks, b, n)
<1>1. last \in Nat /\ \A i \in 1..last : blocks[i].block \in Nat
  BY BlockFacts, Zenon
<1>2. Len(hs) \in Nat /\ Len(hs2) = Len(hs) + 1 /\ hs2[Len(hs2)].block = b
  <2>1. Len(hs) \in Nat
    BY SeqLength
  <2> QED
    BY <2>1 DEF Grown
<1>3. \A i, j \in 1..last : i < j => blocks[i].block < blocks[j].block
  BY DEF Merged, Ascending
<1>4. ASSUME last > 0 PROVE blocks[last].block <= b
  <2>1. Len(hs) > 0 /\ blocks[last].block = hs[Len(hs)].block
    BY <1>1, <1>2, <1>4 DEF Merged, EndsAtLast
  <2>2. Len(hs2) \in Nat \ {0, 1} /\ Len(hs2) - 1 = Len(hs)
    BY <1>2, <2>1
  <2>3. hs2[Len(hs2) - 1].block <= hs2[Len(hs2)].block
    BY <2>2, LastNotBack
  <2>4. hs2[Len(hs)] = hs[Len(hs)]
    BY <1>2, <2>1 DEF Grown
  <2> QED
    BY <1>2, <2>1, <2>2, <2>3, <2>4
<1>5. ASSUME LastEntryIsNew(blocks, b), NEW i \in 1..last PROVE blocks[i].block < b
  <2>1. last > 0 /\ last \in 1..last /\ blocks[last].block # b
    BY <1>1, <1>5 DEF LastEntryIsNew
  <2>2. i = last \/ i < last
    BY <1>1
  <2>3. i < last => blocks[i].block < blocks[last].block
    BY <1>3, <2>1
  <2>4. blocks[i].block \in Nat /\ blocks[last].block \in Nat
    BY <1>1, <2>1
  <2> QED
    BY <1>4, <2>1, <2>2, <2>3, <2>4
<1>6. \/ SameEntry(blocks, more, b)
      \/ OneEntryMore(blocks, more, b)
      \/ OldestLeft(blocks, more, b)
  BY RecordBlockEntries
<1> HIDE DEF more
<1>7. ASSUME SameEntry(blocks, more, b) PROVE Merged(more, hs2)
  <2>1. Ascending(more)
    BY <1>3, <1>7 DEF SameEntry, Ascending
  <2>2. Len(more) > 0 /\ more[Len(more)].block = b /\ Len(hs2) > 0
    BY <1>1, <1>2, <1>7 DEF SameEntry
  <2> QED
    BY <1>2, <2>1, <2>2, MergedFrom
<1>8. ASSUME OneEntryMore(blocks, more, b) PROVE Merged(more, hs2)
  <2>1. ASSUME NEW i \in 1..Len(more), NEW j \in 1..Len(more), i < j
        PROVE  more[i].block < more[j].block
    <3>1. i \in 1..last /\ (j = last + 1 \/ j \in 1..last)
      <4>1. Len(more) = last + 1
        BY <1>8 DEF OneEntryMore
      <4> HIDE DEF last
      <4> QED
        BY <1>1, <2>1, <4>1
    <3>2. more[i].block = blocks[i].block
      BY <1>8, <3>1 DEF OneEntryMore
    <3>3. CASE j = last + 1
      <4>1. blocks[i].block < b
        BY <1>5, <1>8, <3>1 DEF OneEntryMore
      <4> QED
        BY <1>8, <3>2, <3>3, <4>1 DEF OneEntryMore
    <3>4. CASE j \in 1..last
      <4>1. more[j].block = blocks[j].block
        BY <1>8, <3>4 DEF OneEntryMore
      <4> QED
        BY <1>3, <2>1, <3>1, <3>2, <3>4, <4>1
    <3> QED
      BY <3>1, <3>3, <3>4
  <2>2. Len(more) > 0 /\ more[Len(more)].block = b /\ Len(hs2) > 0
    BY <1>1, <1>2, <1>8 DEF OneEntryMore
  <2>3. Ascending(more)
    BY <2>1 DEF Ascending
  <2> QED
    BY <1>2, <2>2, <2>3, MergedFrom
<1>9. ASSUME OldestLeft(blocks, more, b) PROVE Merged(more, hs2)
  <2>1. ASSUME NEW i \in 1..Len(more), NEW j \in 1..Len(more), i < j
        PROVE  more[i].block < more[j].block
    <3>1. /\ Len(more) = last /\ i \in 1..(last - 1) /\ i + 1 \in 1..last
          /\ j = last \/ (j \in 1..(last - 1) /\ j + 1 \in 1..last)
      BY <1>1, <1>9, <2>1 DEF OldestLeft
    <3>2. more[i].block = blocks[i + 1].block
      BY <1>9, <3>1 DEF OldestLeft
    <3>3. CASE j = last
      <4>1. blocks[i + 1].block < b
        BY <1>5, <1>9, <3>1 DEF OldestLeft
      <4> QED
        BY <1>9, <3>2, <3>3, <4>1 DEF OldestLeft
    <3>4. CASE j \in 1..(last - 1) /\ j + 1 \in 1..last
      <4>1. more[j].block = blocks[j + 1].block
        BY <1>9, <3>4 DEF OldestLeft
      <4>2. i + 1 < j + 1
        BY <2>1
      <4> QED
        BY <1>3, <3>1, <3>2, <3>4, <4>1, <4>2
    <3> QED
      BY <3>1, <3>3, <3>4
  <2>2. Len(more) > 0 /\ more[Len(more)].block = b /\ Len(hs2) > 0
    BY <1>1, <1>2, <1>9 DEF OldestLeft
  <2>3. Ascending(more)
    BY <2>1 DEF Ascending
  <2> QED
    BY <1>2, <2>2, <2>3, MergedFrom
<1> QED
  BY <1>6, <1>7, <1>8, <1>9 DEF more

LEMMA MergedStep == HubInv /\ MergedInv /\ [Next]_vars => MergedInv'
<1> SUFFICES ASSUME HubInv, MergedInv, [Next]_vars, NotBack(heights')
             PROVE  Merged(block_ait', heights')
  BY DEF MergedInv
<1>1. CASE UNCHANGED <<block_ait, heights>>
  BY <1>1 DEF MergedInv
<1>2. CASE /\ block_ait' = RecordBlock(block_ait, bn, Head(recording).ait)
           /\ heights' = Append(heights, [block |-> bn, amount |-> Head(recording).ait])
           /\ Head(recording).ait \in 0..MaxU256 /\ bn \in Nat
  <2>1. block_ait \in Seq(BlockEntry) /\ Len(block_ait) <= MaxBlocks
    BY DEF HubInv, BlocksTyped
  <2>2. heights \in Seq(HeightSamples)
    BY DEF HubInv, BlocksTyped, HeightSamples
  <2>3. Grown(heights, heights', bn, Head(recording).ait)
    BY <1>2, <2>2, SeenGrows
  <2>4. Len(heights) \in Nat
    BY <2>2, SeqLength
  <2>5. NotBack(heights)
    BY <2>3, <2>4, NotBackBefore
  <2>6. Merged(block_ait, heights)
    BY <2>5 DEF MergedInv
  <2>7. Merged(RecordBlock(block_ait, bn, Head(recording).ait), heights')
    BY <1>2, <2>1, <2>2, <2>3, <2>6, RecordBlockMerges
  <2> QED
    BY <1>2, <2>7
<1> QED
  BY <1>1, <1>2, BlocksMove DEF HubInv

LEMMA MergedStarts == Init => MergedInv
<1> SUFFICES ASSUME Init PROVE Merged(block_ait, heights)
  BY DEF MergedInv
<1>1. block_ait = <<>> /\ heights = <<>>
  BY DEF Init
<1> QED
  BY <1>1 DEF Merged, Ascending, EndsAtLast

\* Blocks are "merged by block height" as telemetry.rs:66 has it unless the stored height
\* goes back: what run telemetry_blocks refutes fails in no other way, for any window and
\* amounts, saturated sums included (telemetry.rs:84).
THEOREM OnlyBackSplits == Spec => []MergedUnlessBack
<1>1. HubInv /\ MergedInv => MergedUnlessBack
  <2> SUFFICES ASSUME HubInv, MergedInv, NeverBack,
                      NEW i \in 1..Len(block_ait), NEW j \in 1..Len(block_ait), i # j
               PROVE  block_ait[i].block # block_ait[j].block
    BY DEF MergedUnlessBack, BlocksMerged
  <2>1. Ascending(block_ait)
    BY DEF NeverBack, NotBack, MergedInv, Merged
  <2>2. block_ait \in Seq(BlockEntry)
    BY DEF HubInv, BlocksTyped
  <2>3. Len(block_ait) \in Nat /\ block_ait[i].block \in Nat /\ block_ait[j].block \in Nat
    BY <2>2, BlockFacts
  <2>4. i < j \/ j < i
    BY <2>3
  <2> QED
    BY <2>1, <2>3, <2>4 DEF Ascending
<1>2. Spec => []MergedInv
  <2>1. HubInv /\ HubInv' /\ MergedInv /\ [Next]_vars => MergedInv'
    BY MergedStep
  <2> QED
    BY <2>1, MergedStarts, HubInductive, PTL DEF Spec
<1> QED
  BY <1>1, <1>2, HubInductive, PTL
=============================================================================
