---------------------------- MODULE LatencyRecorder ----------------------------
(***************************************************************************)
(* A LatencyHistogram in use (common/latency_histogram.hpp): latencies are *)
(* recorded in any order, and a report resets it now and then.             *)
(***************************************************************************)
EXTENDS LatencyHistogram

CONSTANTS
  Latencies,   \* the latencies that occur
  MaxSamples   \* bound on the samples between two resets

ASSUME LatenciesAssumption == Latencies \subseteq Word

VARIABLES
  histogram,   \* the members of the class
  recorded     \* the samples since the last reset

recorderVars == <<histogram, recorded>>

RecorderInit == histogram = EmptyHistogram /\ recorded = <<>>

RecordLatency(ns) ==
  /\ Len(recorded) < MaxSamples
  /\ histogram' = RecordNs(histogram, ns)
  /\ recorded' = Append(recorded, ns)

ResetHistogram == histogram' = EmptyHistogram /\ recorded' = <<>>

RecorderNext == (\E ns \in Latencies : RecordLatency(ns)) \/ ResetHistogram

RecorderSpec == RecorderInit /\ [][RecorderNext]_recorderVars

-----------------------------------------------------------------------------
(***************************************************************************)
(* Properties.                                                             *)
(***************************************************************************)

(* The histogram is that of the samples, every bucket of it, the last one  *)
(* and a sum that wraps around included.                                   *)
HistogramDescribesRecorded == Describes(histogram, recorded)

\* The percentages the reports of market_data_pipeline_demo.cpp print: 50, 75,
\* 90, 95, 99, 99.9 and 99.99.
Reported == {5000, 7500, 9000, 9500, 9900, 9990, 9999}

(* A reported percentile names the bucket of the very sample it stands     *)
(* for, whichever way the floating-point product was rounded.  What it     *)
(* returns is the least latency of that bucket, or the 1 in the bucket of  *)
(* zero: not the upper bound that the comment at latency_histogram.hpp:86  *)
(* announces, so the sample may lie above the percentile reported.         *)
PercentilesNameBuckets ==
  recorded # <<>> =>
    \A pct \in Reported : \A target \in Targets(histogram, pct) :
      Percentile(histogram, target) = 2 ^ BucketIndex(Ranked(recorded, target))

=============================================================================
