---------------------------- MODULE SlidingWindow ----------------------------
(***************************************************************************)
(* The sums over the last 24 hours: VelocityWindow of                       *)
(* engine/src/forecaster.rs and its twin VolumeWindow24h of                 *)
(* engine/src/telemetry.rs.  A window keeps its samples, oldest first, and  *)
(* their sum, which saturates in both directions.                           *)
(***************************************************************************)
EXTENDS Sums, Sequences

CONSTANTS
  Window,   \* its length
  MaxU256   \* the largest amount

ASSUME WindowAssumption == Window \in Nat /\ MaxU256 \in Nat \ {0}

Samples == [at : Nat, amount : 0..MaxU256]
Windows == [samples : Seq(Samples), sum : 0..MaxU256]
NewWindow == [samples |-> <<>>, sum |-> 0]

\* x, or the bound that it exceeds.
Saturating(x) == IF x > MaxU256 THEN MaxU256 ELSE IF x < 0 THEN 0 ELSE x
SaturatingAdd(a, b) == Saturating(a + b)

\* start, and g[1] to g[n] added to it one by one; what is below zero is subtracted.
SaturatingSum(start, g, n) ==
  LET sum[i \in Nat] == IF i = 0 THEN start ELSE SaturatingAdd(sum[i - 1], g[i]) IN sum[n]

\* A sample exactly as old as the window still counts.
Mutant_NotBefore(t, now) == now - t >= Window
Expired(t, now) == now - t > Window

\* How many samples leave from the front, until one has not expired.
Leaving(samples, now) ==
  CHOOSE n \in 0..Len(samples) :
    /\ \A i \in 1..n : Expired(samples[i].at, now)
    /\ n < Len(samples) => ~Expired(samples[n + 1].at, now)

EvictOld(w, now) ==
  LET n == Leaving(w.samples, now)
  IN [samples |-> SubSeq(w.samples, n + 1, Len(w.samples)),
      sum |-> SaturatingSum(w.sum, [i \in 1..n |-> -w.samples[i].amount], n)]

Record(w, now, amount) ==
  EvictOld([samples |-> Append(w.samples, [at |-> now, amount |-> amount]),
            sum |-> SaturatingAdd(w.sum, amount)], now)

WindowVolume(w, now) == EvictOld(w, now).sum

-----------------------------------------------------------------------------
(* For the properties: what the window should hold, from all samples ever.  *)
SumIn(log, places) ==
  SumTo([i \in 1..Len(log) |-> IF i \in places THEN log[i].amount ELSE 0], Len(log))
SumOf(log) == SumIn(log, 1..Len(log))
Recent(log, now) == {i \in 1..Len(log) : now - log[i].at <= Window}
=============================================================================
