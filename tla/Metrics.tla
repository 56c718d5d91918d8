------------------------------ MODULE Metrics ------------------------------
(***************************************************************************)
(* app/core/metrics.py: a counter with one label and a histogram.  Values  *)
(* are in units of which the bucket bounds are multiples.                  *)
(***************************************************************************)
EXTENDS Naturals, Sequences, Functions, FiniteSetsExt

CONSTANT Buckets  \* the upper bounds of the buckets, increasing

ASSUME BucketsAssumption ==
    /\ Buckets \in Seq(Nat)
    /\ \A b, c \in DOMAIN Buckets : b < c => Buckets[b] < Buckets[c]

Zero(labels) == [l \in labels |-> 0]
Inc(counter, label) == [counter EXCEPT ![label] = @ + 1]

EmptyHistogram == [sum |-> 0, count |-> 0, bucket |-> Zero(DOMAIN Buckets)]

\* A bug: the loop without its break.
ObserveAll(h, v) ==
    [sum |-> h.sum + v, count |-> h.count + 1,
     bucket |-> [b \in DOMAIN Buckets |-> h.bucket[b] + IF v <= Buckets[b] THEN 1 ELSE 0]]

\* Only the first bucket that the value fits is incremented.
Observe(h, v) ==
    LET fits == {b \in DOMAIN Buckets : v <= Buckets[b]}
    IN  [sum |-> h.sum + v, count |-> h.count + 1,
         bucket |-> IF fits = {} THEN h.bucket ELSE Inc(h.bucket, Min(fits))]

\* What a scrape shows: the buckets added up from below, and +Inf.
Collect(h) ==
    [le |-> [b \in DOMAIN Buckets |-> SumFunctionOnSet(h.bucket, 1 .. b)],
     inf |-> h.count, sum |-> h.sum]

\* What it should show of the values v[i], i \in I: how many are within each
\* bound, how many there are, and their sum.
Summary(v, I) ==
    [le |-> [b \in DOMAIN Buckets |-> Cardinality({i \in I : v[i] <= Buckets[b]})],
     inf |-> Cardinality(I), sum |-> SumFunctionOnSet(v, I)]
=============================================================================
