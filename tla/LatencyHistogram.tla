--------------------------- MODULE LatencyHistogram ---------------------------
(***************************************************************************)
(* LatencyHistogram (common/latency_histogram.hpp) as operators on a       *)
(* histogram value: one power-of-two bucket per bit of a word, the sum,    *)
(* the extremes and the count.                                             *)
(***************************************************************************)
EXTENDS Integers, Sequences, FiniteSets, FiniteSetsExt, Functions

CONSTANTS
  Bits,           \* 64: the width of every counter, and the number of buckets
  NanosPerSecond  \* 10^9

ASSUME BitsAssumption  == Bits \in Nat \ {0}
ASSUME NanosAssumption == NanosPerSecond \in Nat

Word == 0 .. 2 ^ Bits - 1

BucketNumbers == 0 .. Bits - 1

Histogram == [buckets : [BucketNumbers -> Nat], total : Nat, sum : Word, min : Word, max : Word]

-----------------------------------------------------------------------------
\* The position of the highest bit set.
BucketIndex(ns) ==
  IF ns = 0 THEN 0 ELSE CHOOSE b \in BucketNumbers : 2 ^ b <= ns /\ ns < 2 ^ (b + 1)

\* reset, and the constructor
EmptyHistogram ==
  [buckets |-> [b \in BucketNumbers |-> 0], total |-> 0, sum |-> 0, min |-> 2 ^ Bits - 1, max |-> 0]

RecordKeepsMin(h, ns) ==
  [buckets |-> [h.buckets EXCEPT ![BucketIndex(ns)] = @ + 1],
   total   |-> h.total + 1,
   sum     |-> (h.sum + ns) % 2 ^ Bits,
   min     |-> IF h.total = 0 THEN ns ELSE h.min,
   max     |-> Max({h.max, ns})]

RecordNs(h, ns) ==
  [buckets |-> [h.buckets EXCEPT ![BucketIndex(ns)] = @ + 1],
   total   |-> h.total + 1,
   sum     |-> (h.sum + ns) % 2 ^ Bits,
   min     |-> Min({h.min, ns}),
   max     |-> Max({h.max, ns})]

\* The product has 128 bits, only the quotient is cut to a word.
Nanoseconds(cycles, hz) == ((cycles * NanosPerSecond) \div hz) % 2 ^ Bits

RecordCycles(h, cycles, hz) ==
  IF hz = 0 THEN h ELSE RecordNs(h, Nanoseconds(cycles, hz))

-----------------------------------------------------------------------------
UpTo(h, b) == FoldFunctionOnSet(+, 0, h.buckets, 0 .. b)

\* The truncated product (pct / 100.0) * total_, for a percentage in units of
\* a hundredth.  In doubles a product that should be whole may fall short of
\* it, unless pct / 100 is a dyadic fraction.
Targets(h, pct) ==
  LET product == pct * h.total
      exact   == product \div 10000
  IN  {exact} \cup {t \in {exact - 1} : product > 0 /\ product % 10000 = 0 /\ pct % 625 # 0}

PercentileOffByOne(h, target) ==
  LET over == {b \in BucketNumbers : UpTo(h, b) >= target}
  IN  IF h.total = 0 THEN 0 ELSE IF over = {} THEN h.max ELSE 2 ^ Min(over)

\* percentile, once it has its target: the first bucket by which more samples
\* are counted; of it, the lower bound, or 1 for the bucket of zero.
Percentile(h, target) ==
  LET over == {b \in BucketNumbers : UpTo(h, b) > target}
  IN  IF h.total = 0 THEN 0 ELSE IF over = {} THEN h.max ELSE 2 ^ Min(over)

MinNs(h)  == IF h.total > 0 THEN h.min ELSE 0
MeanNs(h) == IF h.total > 0 THEN h.sum \div h.total ELSE 0

-----------------------------------------------------------------------------
(***************************************************************************)
(* What a histogram says of the sequence of samples recorded since its     *)
(* last reset.                                                             *)
(***************************************************************************)
SumOf(samples) == FoldFunctionOnSet(+, 0, samples, DOMAIN samples)

Describes(h, samples) ==
  /\ h.total = Len(samples)
  /\ \A b \in BucketNumbers :
       h.buckets[b] = Cardinality({i \in DOMAIN samples : BucketIndex(samples[i]) = b})
  /\ IF samples = <<>>
     THEN MinNs(h) = 0 /\ h.max = 0 /\ MeanNs(h) = 0
     ELSE /\ MinNs(h) = Min(Range(samples))
          /\ h.max = Max(Range(samples))
          /\ MeanNs(h) = (SumOf(samples) % 2 ^ Bits) \div Len(samples)

\* The sample that follows n others when they are sorted.
Ranked(samples, n) ==
  CHOOSE x \in Range(samples) :
    /\ Cardinality({i \in DOMAIN samples : samples[i] < x}) <= n
    /\ Cardinality({i \in DOMAIN samples : samples[i] <= x}) > n

=============================================================================
