---------------------------- MODULE ServiceProofs ----------------------------
(***************************************************************************)
(* Theorems about the start-up of the processes, for any number of them    *)
(* and any number of faults, while requests come and go; and about what    *)
(* their metrics show, for any buckets and durations.                      *)
(***************************************************************************)
EXTENDS Service, Counting, TLAPS

StartupInv == StartInv /\ RaceInv

\* Requests leave the start-up alone.
LEMMA ServiceIsStartup == [Next]_vars => [StartupNext]_startupVars
<1> SUFFICES ASSUME Next PROVE StartupNext \/ UNCHANGED startupVars
  BY DEF vars
<1>1. CASE \E p \in Procs : \/ Starting(p) /\ UNCHANGED requestVars
                            \/ Dies(p) /\ Cut(p)
                            \/ Stop(p) /\ Drained(p) /\ Cut(p)
  BY <1>1 DEF StartupNext
<1>2. CASE \E r \in Requests : \/ \E p \in Apis : Arrive(r, p)
                               \/ \E s \in Returned : Handle(r, s)
                               \/ Scrape(r)
                               \/ \E d \in Durations : Answer(r, d) \/ Raise(r, d)
  BY <1>2 DEF Arrive, Handle, Scrape, Answer, Raise, Send, startupVars
<1> QED BY <1>1, <1>2 DEF Next

LEMMA StartupBegins == StartupInit => StartupInv
<1> SUFFICES ASSUME StartupInit PROVE StartupInv OBVIOUS
<1>1. StartInv
  <2>1. at \in [Procs -> {"down", "check", "create", "commit", "up"}] BY DEF StartupInit
  <2>2. lost \in [Procs -> Nat] /\ budget \in 0 .. MaxFaults
    BY StartupAssumption DEF StartupInit
  <2>3. tables \in BOOLEAN /\ creator = Nobody BY DEF StartupInit
  <2>4. \A p \in Procs : at[p] = "down" BY DEF StartupInit
  <2> QED BY <2>1, <2>2, <2>3, <2>4 DEF StartInv
<1>2. RaceInv BY DEF StartupInit, RaceInv
<1> QED BY <1>1, <1>2 DEF StartupInv

LEMMA StartKept ==
  ASSUME StartInv, NEW p \in Procs, Starting(p) \/ Dies(p) \/ Stop(p)
  PROVE  StartInv'
<1> USE StartupAssumption DEF StartInv
<1>1. CASE Boot(p) BY <1>1 DEF Boot, Goto
<1>2. CASE CheckTables(p) BY <1>2 DEF CheckTables, Goto
<1>3. CASE CreateTables(p) BY <1>3 DEF CreateTables, Goto
<1>4. CASE TablesExist(p) BY <1>4 DEF TablesExist, Goto
<1>5. CASE CommitTables(p)
  <2>1. creator = p => creator' = Nobody /\ tables' BY <1>5 DEF CommitTables
  <2>2. creator # p => creator' = creator /\ tables' = tables BY <1>5 DEF CommitTables
  <2>3. at' = [at EXCEPT ![p] = "up"] /\ at[p] = "commit" BY <1>5 DEF CommitTables, Goto
  <2>4. UNCHANGED <<lost, budget>> BY <1>5 DEF CommitTables
  <2> QED BY <2>1, <2>2, <2>3, <2>4
<1>6. CASE Dies(p)
  <2>1. creator = p => creator' = Nobody BY <1>6 DEF Dies, Ends
  <2>2. creator # p => creator' = creator /\ tables' = tables BY <1>6 DEF Dies, Ends
  <2>3. at' = [at EXCEPT ![p] = "down"] /\ lost' = lost BY <1>6 DEF Dies, Ends
  <2>4. budget' \in 0 .. MaxFaults BY <1>6 DEF Dies, Ends
  <2>5. tables' \in BOOLEAN /\ (tables => tables')
    <3>1. tables' = tables \/ tables' = TRUE BY <1>6 DEF Dies
    <3> QED BY <3>1
  <2>6. creator' # Nobody => at'[creator'] = "commit" /\ ~tables'
    BY <2>1, <2>2, <2>3
  <2>7. ASSUME NEW q \in Procs, at'[q] \in {"commit", "up"}
        PROVE  tables' \/ creator' = q
    BY <2>2, <2>3, <2>5, <2>7, <2>1
  <2> QED BY <2>1, <2>2, <2>3, <2>4, <2>5, <2>6, <2>7
<1>7. CASE Stop(p) BY <1>7 DEF Stop, Ends
<1> QED BY <1>1, <1>2, <1>3, <1>4, <1>5, <1>6, <1>7 DEF Starting

\* Who creates the tables has not lost, and with the tables there no one
\* comes to the step in which it could lose.
LEMMA RaceKept ==
  ASSUME StartInv, RaceInv, NEW p \in Procs, Starting(p) \/ Dies(p) \/ Stop(p)
  PROVE  RaceInv'
<1> USE StartupAssumption DEF StartInv, RaceInv
<1>1. CASE Boot(p) BY <1>1 DEF Boot, Goto
<1>2. CASE CheckTables(p) BY <1>2 DEF CheckTables, Goto
<1>3. CASE CreateTables(p) BY <1>3 DEF CreateTables, Goto
<1>4. CASE TablesExist(p) BY <1>4 DEF TablesExist, Goto
<1>5. CASE CommitTables(p) BY <1>5 DEF CommitTables, Goto
<1>6. CASE Dies(p) BY <1>6 DEF Dies, Ends
<1>7. CASE Stop(p) BY <1>7 DEF Stop, Ends
<1> QED BY <1>1, <1>2, <1>3, <1>4, <1>5, <1>6, <1>7 DEF Starting

LEMMA StartupInvariant == Spec => []StartupInv
<1>1. Init => StartupInv BY StartupBegins DEF Init
<1>2. StartupInv /\ [StartupNext]_startupVars => StartupInv'
  <2> SUFFICES ASSUME StartupInv, [StartupNext]_startupVars PROVE StartupInv' OBVIOUS
  <2>1. CASE StartupNext BY <2>1, StartKept, RaceKept DEF StartupNext, StartupInv
  <2>2. CASE UNCHANGED startupVars
    BY <2>2 DEF startupVars, StartupInv, StartInv, RaceInv
  <2> QED BY <2>1, <2>2
<1> QED BY <1>1, <1>2, ServiceIsStartup, PTL DEF Spec

(***************************************************************************)
(* No process serves before the tables are committed (database.py:64-67).  *)
(***************************************************************************)
THEOREM ServesWithTables == Spec => []StartInv
BY StartupInvariant, PTL DEF StartupInv

(***************************************************************************)
(* The race of create_all costs each process at most one start, and one of *)
(* them none (database.py:67).                                             *)
(***************************************************************************)
THEOREM RaceIsWon == Spec => []RaceIsLostOnce
<1>1. StartupInv => RaceIsLostOnce
  BY DEF StartupInv, StartInv, RaceInv, RaceIsLostOnce
<1> QED BY <1>1, StartupInvariant, PTL
----------------------------------------------------------------------------
Histograms == [sum : Nat, count : Nat, bucket : [DOMAIN Buckets -> Nat]]

LEMMA BucketsRise ==
  /\ DOMAIN Buckets = 1 .. Len(Buckets) /\ Len(Buckets) \in Nat
  /\ \A b \in DOMAIN Buckets : Buckets[b] \in Nat
  /\ \A b, c \in DOMAIN Buckets : b <= c => Buckets[b] <= Buckets[c]
<1>1. DOMAIN Buckets = 1 .. Len(Buckets) /\ Len(Buckets) \in Nat
  BY BucketsAssumption
<1>2. \A b \in DOMAIN Buckets : Buckets[b] \in Nat
  BY BucketsAssumption
<1>3. ASSUME NEW b \in DOMAIN Buckets, NEW c \in DOMAIN Buckets, b <= c
      PROVE  Buckets[b] <= Buckets[c]
  <2>1. b = c \/ b < c BY <1>1, <1>3
  <2>2. b < c => Buckets[b] < Buckets[c] BY BucketsAssumption
  <2> QED BY <1>2, <2>1, <2>2
<1> QED BY <1>1, <1>2, <1>3

\* The bucket that is incremented is within a bound just when the value is.
LEMMA FirstFit ==
  ASSUME NEW v \in Nat, NEW b \in DOMAIN Buckets,
         v <= Buckets[b] \/ \E c \in DOMAIN Buckets : v <= Buckets[c]
  PROVE  LET m == Min({c \in DOMAIN Buckets : v <= Buckets[c]})
         IN  m \in DOMAIN Buckets /\ (m \in 1 .. b <=> v <= Buckets[b])
<1> DEFINE fits == {c \in DOMAIN Buckets : v <= Buckets[c]}
           m == Min(fits)
<1>1. DOMAIN Buckets \subseteq Nat BY BucketsRise
<1>2. m \in fits /\ \A c \in fits : m <= c
  <2> DEFINE A == {n \in Nat : n \in fits => \E k \in fits : \A c \in fits : k <= c}
  <2>1. \A n \in Nat : (\A k \in Nat : k < n => k \in A) => n \in A
    <3> SUFFICES ASSUME NEW n \in Nat, \A k \in Nat : k < n => k \in A, n \in fits
                 PROVE  \E k \in fits : \A c \in fits : k <= c
      OBVIOUS
    <3>1. CASE \E k \in fits : k < n
      <4>1. PICK k \in fits : k < n BY <3>1
      <4>2. k \in A BY <1>1, <4>1
      <4> QED BY <4>2
    <3>2. CASE \A k \in fits : ~(k < n)
      <4>1. \A c \in fits : n <= c BY <1>1, <3>2
      <4> QED BY <4>1
    <3> QED BY <3>1, <3>2
  <2>2. \A n \in Nat : n \in A
    <3> HIDE DEF A
    <3> QED BY <2>1, StrongNatInduct
  <2>3. PICK n \in DOMAIN Buckets : n \in fits OBVIOUS
  <2>4. \E k \in fits : \A c \in fits : k <= c BY <1>1, <2>2, <2>3
  <2> HIDE DEF fits
  <2> QED BY <2>4 DEF Min
<1>3. m \in DOMAIN Buckets /\ v <= Buckets[m] BY <1>2
<1> HIDE DEF m
<1>4. m \in 1 .. b <=> v <= Buckets[b]
  <2>1. v <= Buckets[b] => m <= b BY <1>2
  <2>2. m <= b => v <= Buckets[b] BY <1>3, BucketsRise
  <2> QED BY <1>3, <2>1, <2>2, BucketsRise
<1> QED BY <1>3, <1>4 DEF m

\* Observing one more value adds it to the summary (metrics.py:66-83).
LEMMA ObserveAdds ==
  ASSUME NEW h \in Histograms, NEW I, IsFiniteSet(I), NEW i, i \notin I,
         NEW v, \A j \in I : v[j] \in Nat, Collect(h) = Summary(v, I),
         NEW w, \A j \in I : w[j] = v[j], w[i] \in Nat
  PROVE  /\ Observe(h, w[i]) \in Histograms
         /\ Collect(Observe(h, w[i])) = Summary(w, I \cup {i})
<1> DEFINE d == w[i]
           J == I \cup {i}
           fits == {c \in DOMAIN Buckets : d <= Buckets[c]}
           k == IF fits = {} THEN h.bucket ELSE Inc(h.bucket, Min(fits))
           g == Observe(h, d)
<1>0. g = [sum |-> h.sum + d, count |-> h.count + 1, bucket |-> k]
  BY DEF Observe
<1>1. h.sum \in Nat /\ h.count \in Nat /\ h.bucket \in [DOMAIN Buckets -> Nat]
  BY DEF Histograms
<1>2. k \in [DOMAIN Buckets -> Nat]
  <2>1. ASSUME NEW D, NEW f \in [D -> Nat], NEW m PROVE Inc(f, m) \in [D -> Nat]
    <3>1. ASSUME NEW x \in D PROVE Inc(f, m)[x] \in Nat
      <4>1. CASE x = m BY <4>1 DEF Inc
      <4>2. CASE x # m BY <4>2 DEF Inc
      <4> QED BY <4>1, <4>2
    <3>2. Inc(f, m) = [x \in D |-> Inc(f, m)[x]] BY DEF Inc
    <3> QED BY <3>1, <3>2
  <2> QED BY <1>1, <2>1
<1>3. g \in Histograms
  <2> HIDE DEF k, g
  <2> QED BY <1>0, <1>1, <1>2 DEF Histograms
<1>4. IsFiniteSet(J) /\ Cardinality(J) = Cardinality(I) + 1 /\ Cardinality(I) \in Nat
  BY FS_AddElement, FS_CardinalityType
<1>5. SumFunctionOnSet(w, J) = SumFunctionOnSet(v, I) + d
  <2>1. SumFunctionOnSet(w, I) = SumFunctionOnSet(v, I) BY SumSame
  <2>2. \A j \in I \cup {i} : w[j] \in Nat OBVIOUS
  <2> QED BY <2>1, <2>2, SumInsert
<1>6. ASSUME NEW b \in DOMAIN Buckets
      PROVE  SumFunctionOnSet(k, 1 .. b) = Cardinality({j \in J : w[j] <= Buckets[b]})
  <2> DEFINE within(x, R) == {j \in R : x[j] <= Buckets[b]}
  <2>1. b \in Nat /\ IsFiniteSet(1 .. b) /\ 1 .. b \subseteq DOMAIN Buckets
    <3>1. b \in Nat /\ 0 <= b /\ b <= Len(Buckets) /\ DOMAIN Buckets = 1 .. Len(Buckets)
      BY BucketsRise
    <3>2. IsFiniteSet(1 .. b) BY <3>1, FS_Interval
    <3>3. 1 .. b \subseteq DOMAIN Buckets BY <3>1, BucketsRise
    <3> QED BY <3>1, <3>2, <3>3
  <2>2. SumFunctionOnSet(h.bucket, 1 .. b) = Cardinality(within(v, I))
    BY DEF Collect, Summary
  <2>3. /\ within(w, I) = within(v, I) /\ IsFiniteSet(within(v, I))
        /\ Cardinality(within(v, I)) \in Nat
    <3>1. within(w, I) = within(v, I) OBVIOUS
    <3>2. within(v, I) \subseteq I OBVIOUS
    <3> QED BY <3>1, <3>2, FS_Subset, FS_CardinalityType
  <2>4. Cardinality(within(w, J)) =
          Cardinality(within(v, I)) + (IF d <= Buckets[b] THEN 1 ELSE 0)
    <3>1. CASE d <= Buckets[b]
      <4>1. within(w, J) = within(v, I) \cup {i} /\ i \notin within(v, I)
        BY <3>1
      <4> QED BY <2>3, <3>1, <4>1, FS_AddElement
    <3>2. CASE ~(d <= Buckets[b])
      <4>1. within(w, J) = within(v, I) BY <3>2
      <4>2. Cardinality(within(w, J)) = Cardinality(within(v, I)) BY <4>1, Zenon
      <4> HIDE DEF within
      <4> QED BY <2>3, <3>2, <4>2
    <3> QED BY <3>1, <3>2
  <2>5. SumFunctionOnSet(k, 1 .. b) =
          SumFunctionOnSet(h.bucket, 1 .. b) + (IF d <= Buckets[b] THEN 1 ELSE 0)
    <3>1. CASE fits = {}
      <4>1. k = h.bucket /\ ~(d <= Buckets[b]) BY <3>1
      <4> QED BY <2>2, <2>3, <4>1
    <3>2. CASE fits # {}
      <4> DEFINE m == Min(fits)
      <4>1. m \in DOMAIN Buckets /\ (m \in 1 .. b <=> d <= Buckets[b])
        BY <3>2, FirstFit
      <4>2. k = [h.bucket EXCEPT ![m] = @ + 1] BY <3>2 DEF Inc
      <4> HIDE DEF m, k
      <4>3. /\ \A c \in 1 .. b : h.bucket[c] \in Nat /\ k[c] \in Nat
            /\ \A c \in (1 .. b) \ {m} : k[c] = h.bucket[c]
            /\ m \in 1 .. b => k[m] - h.bucket[m] = 1
        BY <1>1, <1>2, <2>1, <4>1, <4>2
      <4>4. SumFunctionOnSet(k, 1 .. b) = SumFunctionOnSet(h.bucket, 1 .. b)
              + (IF m \in 1 .. b THEN k[m] - h.bucket[m] ELSE 0)
        BY <2>1, <4>3, SumChanged
      <4> QED BY <4>1, <4>3, <4>4
    <3> QED BY <3>1, <3>2
  <2> QED BY <2>2, <2>4, <2>5
<1>7. h.count = Cardinality(I) /\ h.sum = SumFunctionOnSet(v, I)
  BY DEF Collect, Summary
<1>8. Collect(g) = Summary(w, J)
  <2> HIDE DEF k, g, J, d
  <2>1. Collect(g) = [le |-> [b \in DOMAIN Buckets |-> SumFunctionOnSet(k, 1 .. b)],
                      inf |-> h.count + 1, sum |-> h.sum + d]
    BY <1>0 DEF Collect
  <2> QED BY <1>4, <1>5, <1>6, <1>7, <2>1 DEF Summary
<1> QED BY <1>3, <1>8
----------------------------------------------------------------------------
\* A request that has been answered is over and is never answered again.
RequestInv ==
    /\ phase \in [Requests -> {"new", "running", "over"} \cup Returned]
    /\ host \in [Requests -> Apis \cup {Nobody}]
    /\ \A r \in Requests : phase[r] \notin {"new", "over"} => host[r] \in Apis
    /\ answer \in [Requests -> [status : Statuses, took : Nat]]
    /\ sent \in [Apis -> SUBSET Requests]
    /\ \A p \in Apis : IsFiniteSet(sent[p]) /\ \A r \in sent[p] : phase[r] = "over"

Counted(p) == {r \in sent[p] : answer[r].status # "5xx"}

CountersInv ==
    /\ total \in [Apis -> [Statuses -> Nat]]
    /\ histogram \in [Apis -> Histograms]
    /\ \A p \in Apis : TellsOf(p, Counted(p))

MetricsInv == RequestInv /\ CountersInv

\* An empty memory tells of no request.
LEMMA EmptyMetrics ==
  ASSUME NEW v
  PROVE  /\ Zero(Statuses) \in [Statuses -> Nat] /\ EmptyHistogram \in Histograms
         /\ Collect(EmptyHistogram) = Summary(v, {})
<1>1. Zero(Statuses) \in [Statuses -> Nat] BY DEF Zero
<1>2. EmptyHistogram \in Histograms BY DEF EmptyHistogram, Zero, Histograms
<1>3. ASSUME NEW b \in DOMAIN Buckets
      PROVE  SumFunctionOnSet(EmptyHistogram.bucket, 1 .. b)
               = Cardinality({i \in {} : v[i] <= Buckets[b]})
  <2>1. IsFiniteSet(1 .. b) /\ 1 .. b \subseteq DOMAIN Buckets
    BY BucketsRise, FS_Interval
  <2>2. \A c \in 1 .. b : EmptyHistogram.bucket[c] = 0
    BY <2>1 DEF EmptyHistogram, Zero
  <2>3. Cardinality({i \in {} : v[i] <= Buckets[b]}) = 0
    <3>1. {i \in {} : v[i] <= Buckets[b]} = {} OBVIOUS
    <3> QED BY <3>1, FS_EmptySet, Zenon
  <2> QED BY <2>1, <2>2, <2>3, SumOfZeros
<1>4. SumFunctionOnSet(v, {}) = 0 BY FS_EmptySet, SumOfZeros
<1>5. Cardinality({}) = 0 BY FS_EmptySet
<1>6. Collect(EmptyHistogram) = [le |-> [b \in DOMAIN Buckets |->
                                   SumFunctionOnSet(EmptyHistogram.bucket, 1 .. b)],
                                 inf |-> 0, sum |-> 0]
  BY DEF Collect, EmptyHistogram
<1> QED BY <1>1, <1>2, <1>3, <1>4, <1>5, <1>6 DEF Summary

LEMMA MetricsBegin == Init => MetricsInv
<1> SUFFICES ASSUME Init PROVE MetricsInv OBVIOUS
<1>1. RequestInv BY FS_EmptySet DEF Init, RequestInv, Returned, Statuses
<1>2. ASSUME NEW p \in Apis
      PROVE  /\ total[p] \in [Statuses -> Nat] /\ histogram[p] \in Histograms
             /\ TellsOf(p, Counted(p))
  <2>1. Counted(p) = {} BY DEF Init, Counted
  <2>2. total[p] = Zero(Statuses) /\ histogram[p] = EmptyHistogram BY DEF Init
  <2>3. TellsOf(p, {})
    <3>1. \A s \in Statuses : Cardinality({r \in {} : answer[r].status = s}) = 0
      BY FS_EmptySet
    <3> QED BY <2>2, <3>1, EmptyMetrics DEF TellsOf, Zero
  <2> QED BY <2>1, <2>2, <2>3, EmptyMetrics
<1>3. CountersInv BY <1>2 DEF CountersInv, Init
<1> QED BY <1>1, <1>3 DEF MetricsInv

\* A process whose answers and metrics a step leaves alone.
LEMMA TellsStill ==
  ASSUME RequestInv, NEW p \in Apis, TellsOf(p, Counted(p)),
         total'[p] = total[p], histogram'[p] = histogram[p],
         Counted(p)' = Counted(p),
         \A r \in Counted(p) : answer'[r] = answer[r]
  PROVE  TellsOf(p, Counted(p))'
<1>1. Counted(p)' = Counted(p) OBVIOUS
<1>2. \A r \in Counted(p) : r \in Requests /\ answer'[r] = answer[r]
  BY DEF Counted, RequestInv
<1>3. IsFiniteSet(Counted(p))
  BY FS_Subset DEF Counted, RequestInv
<1> DEFINE v == [r \in Requests |-> answer[r].took]
           w == [r \in Requests |-> answer'[r].took]
           C == Counted(p)
<1>4. \A s : {r \in C : answer'[r].status = s} = {r \in C : answer[r].status = s}
  BY <1>2
<1>5. Summary(w, C) = Summary(v, C)
  <2>1. \A r \in C : v[r] \in Nat /\ w[r] = v[r] BY <1>2 DEF RequestInv
  <2> HIDE DEF v, w, C
  <2>2. SumFunctionOnSet(w, C) = SumFunctionOnSet(v, C) BY <1>3, <2>1, SumSame DEF C
  <2>3. \A b : {i \in C : w[i] <= Buckets[b]} = {i \in C : v[i] <= Buckets[b]} BY <2>1
  <2> QED BY <2>2, <2>3 DEF Summary
<1>6. QED
  <2>1. TellsOf(p, Counted(p))' <=>
          /\ \A s \in Statuses : total[p][s] = Cardinality({r \in C : answer'[r].status = s})
          /\ Collect(histogram[p]) = Summary(w, C)
    BY <1>1 DEF TellsOf
  <2> QED BY <1>4, <1>5, <2>1 DEF TellsOf

\* A request that is still answered is in none of the sets of those that were.
LEMMA NotCounted ==
  ASSUME RequestInv, NEW r \in Requests, phase[r] # "over", NEW p \in Apis
  PROVE  r \notin sent[p] /\ r \notin Counted(p) /\ sent[p] \subseteq Requests
BY DEF RequestInv, Counted

LEMMA AnswerKept ==
  ASSUME MetricsInv, NEW r \in Requests, NEW d \in Durations, Answer(r, d)
  PROVE  MetricsInv'
<1>a. PICK p \in Apis, l \in Returned : p = host[r] /\ l = phase[r]
  BY DEF Answer, MetricsInv, RequestInv, Returned
<1>0. d \in Nat /\ l \in Statuses /\ l # "5xx"
  BY ServiceAssumption DEF Returned, Statuses
<1>1. RequestInv'
  <2>1. IsFiniteSet(sent[p] \cup {r}) BY <1>0, FS_AddElement DEF MetricsInv, RequestInv
  <2>2. sent' = [sent EXCEPT ![p] = @ \cup {r}] /\ phase' = [phase EXCEPT ![r] = "over"]
    BY <1>a DEF Answer, Send, Becomes
  <2>3. answer' = [answer EXCEPT ![r] = [status |-> l, took |-> d]] /\ host' = host
    BY <1>a DEF Answer, Send
  <2> QED BY <1>a, <1>0, <2>1, <2>2, <2>3 DEF MetricsInv, RequestInv
<1>2. /\ answer'[r] = [status |-> l, took |-> d]
      /\ \A x \in Requests \ {r} : answer'[x] = answer[x]
      /\ total' = [total EXCEPT ![p] = Inc(@, l)]
      /\ histogram' = [histogram EXCEPT ![p] = Observe(@, d)]
      /\ sent'[p] = sent[p] \cup {r}
      /\ \A q \in Apis \ {p} : sent'[q] = sent[q]
      /\ phase[r] # "over"
  BY <1>a, <1>0 DEF Answer, Send, MetricsInv, RequestInv, Returned
<1>3. ASSUME NEW q \in Apis \ {p}
      PROVE  /\ total'[q] = total[q] /\ histogram'[q] = histogram[q]
             /\ TellsOf(q, Counted(q))'
  <2>1. total'[q] = total[q] /\ histogram'[q] = histogram[q]
    BY <1>2, <1>3 DEF MetricsInv, CountersInv
  <2>2. \A x \in sent[q] : x \in Requests \ {r} BY <1>2, NotCounted DEF MetricsInv
  <2>3. Counted(q)' = Counted(q) /\ \A x \in Counted(q) : answer'[x] = answer[x]
    BY <1>2, <1>3, <2>2 DEF Counted
  <2> QED BY <2>1, <2>3, TellsStill DEF MetricsInv, CountersInv
<1> DEFINE C == Counted(p)
           v == [x \in Requests |-> answer[x].took]
           w == [x \in Requests |-> answer'[x].took]
<1>4. r \notin C /\ C \subseteq Requests /\ IsFiniteSet(C) /\ Counted(p)' = C \cup {r}
  <2>1. r \notin C /\ r \notin sent[p] /\ sent[p] \subseteq Requests
    BY <1>0, <1>2, NotCounted DEF MetricsInv
  <2>2. IsFiniteSet(C) /\ C \subseteq Requests
    BY <1>0, <2>1, FS_Subset DEF MetricsInv, RequestInv, Counted
  <2>3. Counted(p)' = {x \in sent[p] \cup {r} : answer'[x].status # "5xx"}
    BY <1>2 DEF Counted
  <2>4. \A x \in sent[p] : answer'[x] = answer[x] BY <1>2, <2>1
  <2> QED BY <1>0, <1>2, <2>1, <2>2, <2>3, <2>4 DEF Counted
<1> HIDE DEF C
<1>5. /\ total[p] \in [Statuses -> Nat] /\ histogram[p] \in Histograms
      /\ \A s \in Statuses : total[p][s] = Cardinality({x \in C : answer[x].status = s})
      /\ Collect(histogram[p]) = Summary(v, C)
  BY <1>0 DEF MetricsInv, CountersInv, TellsOf, C
<1>6. /\ total'[p] = Inc(total[p], l) /\ histogram'[p] = Observe(histogram[p], d)
  BY <1>0, <1>2 DEF MetricsInv, CountersInv
<1>7. \A x \in C : answer'[x] = answer[x] /\ v[x] \in Nat /\ w[x] = v[x]
  <2>1. \A x \in C : x \in Requests /\ answer'[x] = answer[x] BY <1>2, <1>4
  <2> QED BY <2>1 DEF MetricsInv, RequestInv
<1>8. ASSUME NEW s \in Statuses
      PROVE  total'[p][s] = Cardinality({x \in C \cup {r} : answer'[x].status = s})
  <2> DEFINE old == {x \in C : answer[x].status = s}
             new == {x \in C \cup {r} : answer'[x].status = s}
  <2>1. IsFiniteSet(old) /\ r \notin old BY <1>4, FS_Subset
  <2>2. new = IF s = l THEN old \cup {r} ELSE old
    <3>1. answer'[r].status = l BY <1>2
    <3>2. \A x \in C : answer'[x].status = answer[x].status BY <1>7
    <3>3. CASE s = l BY <3>1, <3>2, <3>3
    <3>4. CASE s # l BY <3>1, <3>2, <3>4
    <3> QED BY <3>3, <3>4
  <2>3. Cardinality(new) = Cardinality(old) + (IF s = l THEN 1 ELSE 0)
    <3>1. Cardinality(old) \in Nat BY <2>1, FS_CardinalityType
    <3> HIDE DEF new, old
    <3>2. CASE s = l BY <2>1, <2>2, <3>1, <3>2, FS_AddElement
    <3>3. CASE s # l BY <2>2, <3>1, <3>3
    <3> QED BY <3>2, <3>3
  <2>4. total'[p][s] = total[p][s] + (IF s = l THEN 1 ELSE 0)
    BY <1>5, <1>6 DEF Inc
  <2> QED BY <1>5, <2>3, <2>4
<1>9. /\ Observe(histogram[p], d) \in Histograms
      /\ Collect(Observe(histogram[p], d)) = Summary(w, C \cup {r})
  <2>1. w[r] = d BY <1>2
  <2> HIDE DEF v, w
  <2>2. /\ Observe(histogram[p], w[r]) \in Histograms
        /\ Collect(Observe(histogram[p], w[r])) = Summary(w, C \cup {r})
    <3>1. w[r] \in Nat BY <1>0, <2>1
    <3> QED BY <1>4, <1>5, <1>7, <3>1, ObserveAdds
  <2> QED BY <2>1, <2>2
<1>10. TellsOf(p, Counted(p))'
  BY <1>4, <1>6, <1>8, <1>9 DEF TellsOf
<1>11. /\ total' \in [Apis -> [Statuses -> Nat]] /\ histogram' \in [Apis -> Histograms]
  <2>1. total'[p] \in [Statuses -> Nat] BY <1>0, <1>5, <1>6 DEF Inc
  <2> QED BY <1>0, <1>2, <1>6, <1>9, <2>1 DEF MetricsInv, CountersInv
<1>12. QED BY <1>1, <1>3, <1>10, <1>11 DEF MetricsInv, CountersInv

\* An exception is answered outside of the middleware.
LEMMA RaiseKept ==
  ASSUME MetricsInv, NEW r \in Requests, NEW d \in Durations, Raise(r, d)
  PROVE  MetricsInv'
<1> DEFINE p == host[r]
<1>0. p \in Apis /\ d \in Nat /\ phase[r] = "running" /\ "5xx" \in Statuses
  BY ServiceAssumption DEF Raise, Becomes, MetricsInv, RequestInv, Statuses
<1>1. /\ sent' = [sent EXCEPT ![p] = @ \cup {r}] /\ phase' = [phase EXCEPT ![r] = "over"]
      /\ answer' = [answer EXCEPT ![r] = [status |-> "5xx", took |-> d]]
      /\ UNCHANGED <<host, total, histogram>>
  BY DEF Raise, Send, Becomes
<1> HIDE DEF p
<1>2. RequestInv'
  <2>1. IsFiniteSet(sent[p] \cup {r}) BY <1>0, FS_AddElement DEF MetricsInv, RequestInv
  <2> QED BY <1>0, <1>1, <2>1 DEF MetricsInv, RequestInv
<1>3. ASSUME NEW q \in Apis PROVE TellsOf(q, Counted(q))'
  <2>1. r \notin sent[q] /\ sent[q] \subseteq Requests
    BY <1>0, NotCounted DEF MetricsInv
  <2>2. \A x \in sent[q] : answer'[x] = answer[x]
    BY <1>1, <2>1 DEF MetricsInv, RequestInv
  <2>3. sent'[q] = sent[q] \/ (sent'[q] = sent[q] \cup {r} /\ answer'[r].status = "5xx")
    BY <1>1 DEF MetricsInv, RequestInv
  <2>4. Counted(q)' = Counted(q) BY <2>2, <2>3 DEF Counted
  <2>5. \A x \in Counted(q) : answer'[x] = answer[x] BY <2>2 DEF Counted
  <2> QED BY <1>1, <2>4, <2>5, TellsStill DEF MetricsInv, CountersInv
<1> QED BY <1>1, <1>2, <1>3 DEF MetricsInv, CountersInv

\* A process that ends takes its metrics with it, and what they told of.
LEMMA CutKept ==
  ASSUME MetricsInv, NEW p \in Procs, Cut(p)
  PROVE  MetricsInv'
<1>1. RequestInv'
  <2>1. /\ sent' = [q \in Apis |-> IF q = p THEN {} ELSE sent[q]]
        /\ phase' = [r \in Requests |-> IF r \in HeldBy(p) THEN "over" ELSE phase[r]]
        /\ UNCHANGED <<host, answer>>
    BY DEF Cut
  <2> HIDE DEF HeldBy
  <2> QED BY <2>1, FS_EmptySet DEF MetricsInv, RequestInv
<1>2. ASSUME NEW q \in Apis
      PROVE  /\ total'[q] \in [Statuses -> Nat] /\ histogram'[q] \in Histograms
             /\ TellsOf(q, Counted(q))'
  <2>1. CASE q = p
    <3>1. /\ total'[q] = Zero(Statuses) /\ histogram'[q] = EmptyHistogram
          /\ Counted(q)' = {}
      BY <2>1 DEF Cut, Counted
    <3>2. \A s \in Statuses : Cardinality({r \in {} : answer'[r].status = s}) = 0
      BY FS_EmptySet
    <3> QED BY <3>1, <3>2, EmptyMetrics DEF TellsOf, Zero
  <2>2. CASE q # p
    <3>1. /\ total'[q] = total[q] /\ histogram'[q] = histogram[q]
          /\ Counted(q)' = Counted(q) /\ answer' = answer
      BY <2>2 DEF Cut, Counted
    <3> QED BY <3>1, TellsStill DEF MetricsInv, CountersInv
  <2> QED BY <2>1, <2>2
<1>3. DOMAIN total' = Apis /\ DOMAIN histogram' = Apis
      /\ total' = [q \in Apis |-> total'[q]] /\ histogram' = [q \in Apis |-> histogram'[q]]
  BY DEF Cut
<1> QED BY <1>1, <1>2, <1>3 DEF MetricsInv, CountersInv

\* No other step answers a request or touches the metrics.
LEMMA ServeKept ==
  ASSUME MetricsInv,
         \/ UNCHANGED requestVars
         \/ \E r \in Requests : \/ \E p \in Apis : Arrive(r, p)
                                \/ \E s \in Returned : Handle(r, s)
                                \/ Scrape(r)
  PROVE  MetricsInv'
<1>1. UNCHANGED <<answer, total, histogram, sent>>
  BY DEF requestVars, Arrive, Handle, Scrape
<1>2. RequestInv'
  <2>1. CASE UNCHANGED requestVars BY <2>1 DEF requestVars, MetricsInv, RequestInv
  <2>2. ASSUME NEW r \in Requests, NEW p \in Apis, Arrive(r, p) PROVE RequestInv'
    BY <2>2, <1>1 DEF Arrive, Becomes, MetricsInv, RequestInv
  <2>3. ASSUME NEW r \in Requests, NEW s \in Returned, Handle(r, s) \/ Scrape(r)
        PROVE  RequestInv'
    BY <2>3, <1>1 DEF Handle, Scrape, Becomes, MetricsInv, RequestInv, Returned
  <2> QED BY <2>1, <2>2, <2>3 DEF Returned
<1>3. ASSUME NEW p \in Apis PROVE TellsOf(p, Counted(p))'
  BY <1>1, TellsStill DEF MetricsInv, CountersInv, Counted
<1> QED BY <1>1, <1>2, <1>3 DEF MetricsInv, CountersInv

(***************************************************************************)
(* What a process shows is what it has answered since it started, answers  *)
(* of handlers that raised left out, for any buckets, durations and number *)
(* of requests (metrics.py:66-83, 153-167).                                *)
(***************************************************************************)
THEOREM MetricsMatch == Spec => []MetricsMatchAnswers
<1>1. MetricsInv /\ [Next]_vars => MetricsInv'
  <2> SUFFICES ASSUME MetricsInv, [Next]_vars PROVE MetricsInv' OBVIOUS
  <2>1. ASSUME NEW p \in Procs, (Dies(p) /\ Cut(p)) \/ (Stop(p) /\ Drained(p) /\ Cut(p))
        PROVE  MetricsInv'
    BY <2>1, CutKept
  <2>2. ASSUME NEW r \in Requests, NEW d \in Durations, Answer(r, d) \/ Raise(r, d)
        PROVE  MetricsInv'
    BY <2>2, AnswerKept, RaiseKept
  <2>3. UNCHANGED vars => UNCHANGED requestVars BY DEF vars
  <2> QED BY <2>1, <2>2, <2>3, ServeKept DEF Next
<1>2. MetricsInv => MetricsMatchAnswers
  BY DEF MetricsInv, CountersInv, MetricsMatchAnswers, Counted
<1> QED BY <1>1, <1>2, MetricsBegin, PTL DEF Spec
=============================================================================
