----------------------------- MODULE ListingProofs -----------------------------
(***************************************************************************)
(* An answer of the listing that says "completed" has the records, and a   *)
(* walk misses, repeats and counts wrongly no more than the changes under  *)
(* way explain, for any number of documents and any page size.             *)
(***************************************************************************)
EXTENDS Listing, Counting, TLAPS

\* Sets of documents have numbers of elements, N at most.
LEMMA DocsFinite ==
  ASSUME ListingAssumption, NEW S \in SUBSET Docs
  PROVE  Cardinality(S) \in 0..N
<1>1. IsFiniteSet(Docs) /\ Cardinality(Docs) = N
  BY FS_Interval DEF Docs, ListingAssumption
<1>2. IsFiniteSet(S) /\ Cardinality(S) <= Cardinality(Docs)
  BY <1>1, FS_Subset
<1> QED
  BY <1>1, <1>2, FS_CardinalityType DEF ListingAssumption

\* A row that gets another status leaves the request and its types alone.
LEMMA BecomesStep ==
  ASSUME TypeOK, NEW d \in Docs, NEW s \in Status, Becomes(d, s)
  PROVE  /\ status' = [status EXCEPT ![d] = s]
         /\ walk' \in Walks
         /\ UNCHANGED <<at, filter, skip, total, shown, counted>>
<1>1. walk \in Walks
  BY DEF TypeOK
<1>2. walk' \in Walks
  <2>1. CASE walk' = walk
    BY <1>1, <2>1
  <2>2. CASE walk' # walk
    <3> DEFINE in == ~Matches(status[d]) /\ Matches(s)
               out == Matches(status[d]) /\ ~Matches(s)
               there == IF out THEN walk.there \ {d} ELSE walk.there
               joined == IF in THEN walk.joined + 1 ELSE walk.joined
               left == IF out THEN walk.left + 1 ELSE walk.left
               since == walk.since + 1
    <3>1. walk' = [walk EXCEPT !.there = there, !.joined = joined,
                               !.left = left, !.since = since]
      BY <2>2, Zenon DEF Becomes
    <3>2. there \in SUBSET Docs /\ joined \in Nat /\ left \in Nat
          /\ since \in Nat
      BY <1>1 DEF Walks
    <3> HIDE DEF there, joined, left, since
    <3> QED
      BY <1>1, <3>1, <3>2 DEF Walks
  <2> QED
    BY <2>1, <2>2
<1> QED
  BY <1>2 DEF Becomes

\* A commit of the system writes a status and, when it completes a document,
\* records; one shown as completed already is then known to be completed again.
LEMMA RowsChange ==
  ASSUME TypeOK, NEW d \in Docs, Upload(d) \/ Mark(d) \/ Complete(d) \/ Fail(d)
  PROVE  /\ \E s \in Status : Becomes(d, s)
         /\ toCome' \in [Docs -> Nat] /\ marked' \in [Docs -> Nat]
         /\ \/ UNCHANGED <<records, redone>>
            \/ /\ records' \subseteq records \cup {d} /\ records \subseteq records'
               /\ redone' = redone \cup ({d} \cap ShownCompleted)
<1>1. CASE Upload(d)
  BY <1>1 DEF Upload, Status, TypeOK
<1>2. CASE Mark(d)
  <2>1. status[d] \in Status
    BY <1>2 DEF Mark, TypeOK
  <2>2. \E s \in Status : Becomes(d, s)
    BY <1>2, <2>1 DEF Mark, Status
  <2>3. /\ toCome[d] \in Nat /\ toCome[d] > 0 /\ marked[d] \in Nat
        /\ toCome' = [toCome EXCEPT ![d] = toCome[d] - 1]
        /\ marked' = [marked EXCEPT ![d] = marked[d] + 1]
        /\ UNCHANGED <<records, redone>>
    BY <1>2 DEF Mark, TypeOK
  <2>4. toCome[d] - 1 \in Nat /\ marked[d] + 1 \in Nat
    BY <2>3
  <2> QED
    BY <2>2, <2>3, <2>4 DEF TypeOK
<1>3. CASE Complete(d) \/ Fail(d)
  <2>1. JobEnds(d) /\ \E s \in Status : Becomes(d, s)
    BY <1>3 DEF Complete, Fail, Status
  <2>2. marked[d] \in Nat /\ marked[d] > 0 /\ UNCHANGED toCome
        /\ marked' = [marked EXCEPT ![d] = marked[d] - 1]
    BY <2>1 DEF JobEnds, TypeOK
  <2>3. marked[d] - 1 \in Nat
    BY <2>2
  <2> QED
    BY <1>3, <2>1, <2>2, <2>3 DEF Complete, Fail, TypeOK
<1> QED
  BY <1>1, <1>2, <1>3

\* So an answer that has been read stays right.
LEMMA RowsStep ==
  ASSUME ReadInv, NEW d \in Docs, Upload(d) \/ Mark(d) \/ Complete(d) \/ Fail(d)
  PROVE  ReadInv'
<1>1. TypeOK /\ CompletedWithRecords
  BY DEF ReadInv
<1>2. /\ toCome' \in [Docs -> Nat] /\ marked' \in [Docs -> Nat]
      /\ \/ UNCHANGED <<records, redone>>
         \/ /\ records' \subseteq records \cup {d} /\ records \subseteq records'
            /\ redone' = redone \cup ({d} \cap ShownCompleted)
  BY <1>1, RowsChange
<1>3. PICK s \in Status : Becomes(d, s)
  BY <1>1, RowsChange
<1>4. /\ status' = [status EXCEPT ![d] = s] /\ walk' \in Walks
      /\ UNCHANGED <<at, filter, skip, total, shown, counted>>
  BY <1>1, <1>3, BecomesStep
<1>5. /\ records' \subseteq Docs /\ redone' \subseteq Docs
      /\ status' \in [Docs -> {"none"} \cup Status]
  BY <1>1, <1>2, <1>4 DEF TypeOK
<1>6. TypeOK'
  BY <1>1, <1>2, <1>4, <1>5 DEF TypeOK
<1>7. ShownCompleted' = ShownCompleted
  BY <1>4 DEF ShownCompleted
<1>8. CompletedWithRecords'
  BY <1>1, <1>2, <1>4, <1>7 DEF CompletedWithRecords
<1> QED
  BY <1>6, <1>8 DEF ReadInv

\* The page is read from the rows, the records after it.
LEMMA ListStep ==
  ASSUME ListingAssumption, ReadInv,
         \/ \E f \in {"all"} \cup Status : ListFirst(f)
         \/ ListCount \/ ListRows \/ ListRecords \/ ListNext \/ ListEnd
  PROVE  ReadInv'
<1>1. TypeOK /\ CompletedWithRecords
  BY DEF ReadInv
<1>2. ASSUME NEW f \in {"all"} \cup Status, ListFirst(f) PROVE ReadInv'
  <2>1. {d \in Docs : status[d] # "none" /\ (f = "all" \/ status[d] = f)} \subseteq Docs
    OBVIOUS
  <2>2. walk' \in Walks
    BY <1>2, <2>1 DEF ListFirst, NewWalk, Walks
  <2> QED
    BY <1>1, <1>2, <2>2
       DEF ListFirst, rows, ReadInv, TypeOK, CompletedWithRecords, ShownCompleted
<1>3. CASE ListCount
  <2>1. total' \in 0..N
    BY <1>3, DocsFinite DEF ListCount, CountMatching, Matching
  <2>2. walk' \in Walks
    BY <1>1, <1>3 DEF ListCount, TypeOK, Walks
  <2> QED
    BY <1>1, <1>3, <2>1, <2>2
       DEF ListCount, Then, rows, ReadInv, TypeOK, CompletedWithRecords, ShownCompleted
<1>4. CASE ListRows
  <2>1. PageOf \subseteq Docs /\ \A d \in PageOf : status[d] \in Status
    BY <1>1 DEF PageOf, Matching, Matches, TypeOK
  <2>2. Cardinality(PageOf) \in Nat
    BY <2>1, DocsFinite
  <2> HIDE DEF PageOf
  <2>3. walk' \in Walks
    <3>1. walk \in Walks /\ walk.seen \cup PageOf \in SUBSET Docs
          /\ walk.answered + Cardinality(PageOf) \in Nat
      BY <1>1, <2>1, <2>2 DEF TypeOK, Walks
    <3>2. walk' = [walk EXCEPT !.seen = walk.seen \cup PageOf,
                               !.answered = walk.answered + Cardinality(PageOf)]
      BY <1>4, Zenon DEF ListRows
    <3> QED
      BY <3>1, <3>2 DEF Walks
  <2>4. shown' = [d \in PageOf |-> status[d]] /\ at' = "records"
    BY <1>4 DEF ListRows, Then
  <2> QED
    BY <1>1, <1>4, <2>1, <2>3, <2>4
       DEF ListRows, rows, ReadInv, TypeOK, CompletedWithRecords, ShownCompleted
<1>5. CASE ListRecords
  BY <1>1, <1>5
     DEF ListRecords, Then, rows, ReadInv, TypeOK, CompletedWithRecords, ShownCompleted
<1>6. CASE ListNext
  <2>1. skip' \in Nat
    BY <1>1, <1>6 DEF ListNext, TypeOK, ListingAssumption
  <2> QED
    BY <1>1, <1>6, <2>1 DEF ListNext, Nobody, rows, ReadInv, TypeOK, CompletedWithRecords,
                            ShownCompleted, ListingAssumption
<1>7. CASE ListEnd
  <2>1. walk' \in Walks
    BY <1>7 DEF ListEnd, NewWalk, Walks
  <2>2. DOMAIN shown' = {} /\ counted' = {} /\ total' = 0 /\ skip' = 0
        /\ at' = "idle" /\ filter' = "all" /\ redone' = {} /\ UNCHANGED <<status, records, toCome, marked>>
    BY <1>7 DEF ListEnd, Nobody, rows
  <2> QED
    BY <1>1, <2>1, <2>2 DEF ReadInv, TypeOK, CompletedWithRecords, ShownCompleted,
                            ListingAssumption
<1> QED
  BY <1>2, <1>3, <1>4, <1>5, <1>6, <1>7

\* What an answer says of the records, with the types.
LEMMA ReadInvariant == Spec => []ReadInv
<1> USE ListingAssumption
<1>1. Init => ReadInv
  <2> SUFFICES ASSUME Init PROVE ReadInv
    OBVIOUS
  <2>1. walk \in Walks
    BY DEF Init, NewWalk, Walks
  <2>2. toCome \in [Docs -> Nat] /\ marked \in [Docs -> Nat]
    BY DEF Init, Deliveries
  <2> QED
    BY <2>1, <2>2 DEF Init, Nobody, ReadInv, TypeOK, CompletedWithRecords, ShownCompleted,
                ListingAssumption
<1>2. ReadInv /\ [Next]_vars => ReadInv'
  <2>1. CASE UNCHANGED vars
    BY <2>1 DEF vars, ReadInv, TypeOK, CompletedWithRecords, ShownCompleted
  <2> QED
    BY <2>1, RowsStep, ListStep DEF Next
<1> QED
  BY <1>1, <1>2, PTL DEF Spec

-----------------------------------------------------------------------------
\* The place of d in a listing of the documents M, the newest first; the part
\* of D before place b, and the part of S that the listing has from there on.
Place(M, d) == Cardinality({e \in M : e > d})
Before(M, D, b) == {d \in D : Place(M, d) < b}
Beyond(M, S, b) == {d \in S \cap M : Place(M, d) >= b}
Between(M, i, j) == {d \in M : i <= Place(M, d) /\ Place(M, d) < j}

LEMMA DocSets ==
  ASSUME ListingAssumption, NEW S \in SUBSET Docs
  PROVE  IsFiniteSet(S) /\ Cardinality(S) \in Nat
<1>1. IsFiniteSet(Docs)
  BY FS_Interval DEF Docs, ListingAssumption
<1> QED
  BY <1>1, FS_Subset, FS_CardinalityType

LEMMA PlaceType ==
  ASSUME ListingAssumption, NEW M \in SUBSET Docs, NEW d \in Docs
  PROVE  Place(M, d) \in Nat /\ (d \in M => Place(M, d) < Cardinality(M))
<1> DEFINE A == {e \in M : e > d}
<1>1. A \in SUBSET Docs /\ A \subseteq M
  OBVIOUS
<1>2. Place(M, d) = Cardinality(A) /\ Cardinality(A) \in Nat
  BY <1>1, DocSets DEF Place
<1>3. ASSUME d \in M PROVE Cardinality(A) < Cardinality(M)
  <2>1. A \subseteq M \ {d}
    BY DEF Docs
  <2>2. /\ IsFiniteSet(M) /\ Cardinality(M) \in Nat
        /\ IsFiniteSet(M \ {d}) /\ Cardinality(M \ {d}) = Cardinality(M) - 1
    BY <1>3, DocSets, FS_RemoveElement
  <2>3. Cardinality(A) <= Cardinality(M \ {d})
    BY <2>1, <2>2, FS_Subset
  <2> QED
    BY <1>2, <2>2, <2>3
<1> QED
  BY <1>2, <1>3

\* Newer documents come first, so no two share a place.
LEMMA PlaceFalls ==
  ASSUME ListingAssumption, NEW M \in SUBSET Docs, NEW d \in Docs, NEW e \in M, d < e
  PROVE  Place(M, e) < Place(M, d)
<1> DEFINE A == {x \in M : x > e}
           B == {x \in M : x > d}
<1>1. A \in SUBSET Docs /\ B \in SUBSET Docs /\ e \notin A /\ A \cup {e} \subseteq B
  <2>1. \A x \in M : x \in Int
    BY DEF Docs
  <2>2. d \in Int /\ e \in Int
    BY DEF Docs
  <2>3. ASSUME NEW x \in A PROVE x \in B
    BY <2>1, <2>2, <2>3
  <2>4. e \in B /\ e \notin A
    BY <2>2
  <2>5. A \subseteq Docs /\ B \subseteq Docs
    OBVIOUS
  <2> HIDE DEF A, B
  <2> QED
    BY <2>3, <2>4, <2>5
<1>2. /\ IsFiniteSet(A) /\ Cardinality(A) \in Nat
      /\ IsFiniteSet(B) /\ Cardinality(B) \in Nat
  BY <1>1, DocSets
<1>3. Cardinality(A \cup {e}) = Cardinality(A) + 1 /\ Cardinality(A \cup {e}) <= Cardinality(B)
  BY <1>1, <1>2, FS_AddElement, FS_Subset
<1> QED
  BY <1>2, <1>3 DEF Place

LEMMA PlaceIsOwn ==
  ASSUME ListingAssumption, NEW M \in SUBSET Docs, NEW d \in M, NEW e \in M,
         Place(M, d) = Place(M, e)
  PROVE  d = e
<1>1. d \in Nat /\ e \in Nat /\ d \in Docs /\ e \in Docs
  BY DEF Docs
<1>2. Place(M, d) \in Nat /\ Place(M, e) \in Nat
  BY <1>1, PlaceType
<1>3. ~(d < e) /\ ~(e < d)
  BY <1>1, <1>2, PlaceFalls
<1> QED
  BY <1>1, <1>3

\* A document that comes in moves the older ones on by one.
LEMMA PlaceMoves ==
  ASSUME ListingAssumption, NEW M \in SUBSET Docs, NEW x \in Docs, x \notin M,
         NEW d \in Docs
  PROVE  Place(M \cup {x}, d) = Place(M, d) + (IF x > d THEN 1 ELSE 0)
<1> DEFINE A == {e \in M : e > d}
           B == {e \in M \cup {x} : e > d}
<1>1. IsFiniteSet(A) /\ Cardinality(A) \in Nat
  BY DocSets
<1>2. CASE x > d
  <2>1. B = A \cup {x} /\ x \notin A
    BY <1>2
  <2> HIDE DEF A, B
  <2>2. Cardinality(B) = Cardinality(A) + 1
    BY <1>1, <2>1, FS_AddElement
  <2> QED
    BY <1>2, <2>2 DEF Place, A, B
<1>3. CASE ~(x > d)
  <2>1. B = A
    BY <1>3
  <2>2. Cardinality(B) = Cardinality(A)
    BY <2>1, Zenon
  <2> HIDE DEF A, B
  <2>3. Place(M \cup {x}, d) = Cardinality(B) /\ Place(M, d) = Cardinality(A)
    BY DEF Place, A, B
  <2> QED
    BY <1>1, <1>3, <2>2, <2>3
<1> QED
  BY <1>2, <1>3

\* Each place is taken, so a part of the listing is as long as its bounds say.
LEMMA PartLength ==
  ASSUME ListingAssumption, NEW M \in SUBSET Docs, NEW i \in Nat, NEW j \in Nat,
         i <= j, j <= Cardinality(M)
  PROVE  Cardinality(Between(M, i, j)) = j - i
<1> DEFINE n == Cardinality(M)
           f == [d \in M |-> Place(M, d)]
           P == Between(M, i, j)
           g == [d \in P |-> Place(M, d)]
<1>1. IsFiniteSet(M) /\ n \in Nat
  BY DocSets
<1>2. f \in Injection(M, 0 .. n - 1)
  <2>1. f \in [M -> 0 .. n - 1]
    BY <1>1, PlaceType
  <2>2. \A d, e \in M : f[d] = f[e] => d = e
    BY PlaceIsOwn
  <2> HIDE DEF f
  <2> QED
    BY <2>1, <2>2 DEF Injection, IsInjective
<1>3. IsFiniteSet(0 .. n - 1) /\ Cardinality(0 .. n - 1) = n
  <2> HIDE DEF n
  <2>1. 0 \in Int /\ n - 1 \in Int
    BY <1>1
  <2>2. /\ IsFiniteSet(0 .. n - 1)
        /\ Cardinality(0 .. n - 1) = IF 0 > n - 1 THEN 0 ELSE (n - 1) - 0 + 1
    BY <2>1, FS_Interval
  <2> QED
    BY <1>1, <2>2
<1>4. f \in Surjection(M, 0 .. n - 1)
  <2> HIDE DEF f
  <2> QED
    BY <1>1, <1>2, <1>3, FS_Injection
<1>5. g \in Bijection(P, i .. j - 1)
  <2>1. g \in [P -> i .. j - 1]
    BY PlaceType DEF Between
  <2>2. \A d, e \in P : g[d] = g[e] => d = e
    BY PlaceIsOwn DEF Between
  <2>3. ASSUME NEW k \in i .. j - 1 PROVE \E d \in P : g[d] = k
    <3>1. k \in 0 .. n - 1
      BY <1>1
    <3>2. PICK d \in M : f[d] = k
      BY <1>4, <3>1 DEF Surjection
    <3>3. d \in P
      BY <3>2 DEF Between
    <3> QED
      BY <3>2, <3>3
  <2> HIDE DEF g, P
  <2> QED
    BY <2>1, <2>2, <2>3 DEF Bijection, Injection, Surjection, IsInjective
<1>6. IsFiniteSet(P)
  BY DocSets DEF Between
<1>7. Cardinality(i .. j - 1) = Cardinality(P)
  <2> HIDE DEF g, P
  <2> QED
    BY <1>5, <1>6, FS_Bijection DEF ExistsBijection
<1>8. Cardinality(i .. j - 1) = j - i
  <2>1. i \in Int /\ j - 1 \in Int
    OBVIOUS
  <2>2. Cardinality(i .. j - 1) = IF i > j - 1 THEN 0 ELSE (j - 1) - i + 1
    BY <2>1, FS_Interval
  <2> QED
    BY <2>2
<1> QED
  BY <1>7, <1>8

\* A page that is not full ends the listing.
LEMMA PageLength ==
  ASSUME ListingAssumption, NEW M \in SUBSET Docs, NEW i \in Nat
  PROVE  LET P == Between(M, i, i + Size)
         IN  /\ Cardinality(P) <= Size
             /\ Cardinality(P) < Size =>
                  /\ Cardinality(M) < i + Size
                  /\ i <= Cardinality(M) => Cardinality(P) = Cardinality(M) - i
<1> DEFINE n == Cardinality(M)
           P == Between(M, i, i + Size)
<1>1. n \in Nat /\ Size \in Nat /\ i + Size \in Nat
  BY DocSets DEF ListingAssumption
<1>2. CASE i + Size <= n
  <2>1. Cardinality(P) = Size
    BY <1>1, <1>2, PartLength
  <2> QED
    BY <1>1, <1>2, <2>1
<1>3. CASE n < i + Size /\ i <= n
  <2>1. P = Between(M, i, n)
    <3>1. \A d \in M : Place(M, d) \in Nat /\ Place(M, d) < n
      BY PlaceType
    <3> QED
      BY <1>1, <1>3, <3>1 DEF Between
  <2>2. Cardinality(P) = n - i
    BY <1>1, <1>3, <2>1, PartLength
  <2> QED
    BY <1>1, <1>3, <2>2
<1>4. CASE n < i
  <2>1. P = {}
    <3>1. \A d \in M : Place(M, d) \in Nat /\ Place(M, d) < n
      BY PlaceType
    <3> QED
      BY <1>1, <1>4, <3>1 DEF Between
  <2>2. Cardinality(P) = 0
    BY <2>1, FS_EmptySet, Zenon
  <2> QED
    BY <1>1, <1>4, <2>2
<1> QED
  BY <1>1, <1>2, <1>3, <1>4

-----------------------------------------------------------------------------
\* A document that goes out moves the older ones back: one more at most is then
\* among those passed.
LEMMA BeforeOut ==
  ASSUME ListingAssumption, NEW M \in SUBSET Docs, NEW x \in M,
         NEW D \in SUBSET M, NEW b \in Nat
  PROVE  Cardinality(Before(M \ {x}, D \ {x}, b)) <= Cardinality(Before(M, D, b)) + 1
<1> DEFINE L == M \ {x}
           A == Before(M, D, b)
           B == Before(L, D \ {x}, b)
<1>1. /\ M = L \cup {x} /\ L \in SUBSET Docs /\ x \notin L /\ x \in Docs
      /\ A \in SUBSET Docs /\ B \in SUBSET Docs
  BY DEF Before
<1>2. \A d \in Docs : /\ Place(L, d) \in Nat
                      /\ Place(M, d) = Place(L, d) + (IF x > d THEN 1 ELSE 0)
  <2> HIDE DEF L
  <2> QED
    BY <1>1, PlaceMoves, PlaceType
<1>3. ASSUME NEW d \in B, d \notin A PROVE d \in M /\ Place(M, d) = b
  BY <1>1, <1>2, <1>3 DEF Before
<1>4. \E y : B \subseteq A \cup {y}
  <2>1. CASE B \subseteq A
    BY <2>1
  <2>2. CASE ~(B \subseteq A)
    <3>1. PICK y \in B : y \notin A
      BY <2>2
    <3>2. \A d \in B : d \notin A => d = y
      BY <1>3, <3>1, PlaceIsOwn
    <3> QED
      BY <3>2
  <2> QED
    BY <2>1, <2>2
<1>5. PICK y : B \subseteq A \cup {y}
  BY <1>4
<1> HIDE DEF A, B
<1>6. /\ IsFiniteSet(A) /\ Cardinality(A) \in Nat
      /\ IsFiniteSet(B) /\ Cardinality(B) \in Nat
  BY <1>1, DocSets
<1>7. /\ IsFiniteSet(A \cup {y}) /\ Cardinality(A \cup {y}) \in Nat
      /\ Cardinality(A \cup {y}) <= Cardinality(A) + 1
  BY <1>6, AtMostOneMore
<1>8. Cardinality(B) <= Cardinality(A \cup {y})
  BY <1>5, <1>7, FS_Subset
<1>9. Cardinality(B) <= Cardinality(A) + 1
  BY <1>6, <1>7, <1>8
<1> QED
  BY <1>9 DEF A, B

\* One that comes in moves none of the others back.
LEMMA BeforeIn ==
  ASSUME ListingAssumption, NEW M \in SUBSET Docs, NEW x \in Docs, x \notin M,
         NEW D \in SUBSET M, NEW b \in Nat
  PROVE  Cardinality(Before(M \cup {x}, D, b)) <= Cardinality(Before(M, D, b))
<1>1. ASSUME NEW d \in D
      PROVE  /\ Place(M, d) \in Nat /\ Place(M \cup {x}, d) \in Nat
             /\ Place(M \cup {x}, d) >= Place(M, d)
  <2>1. d \in Docs /\ M \cup {x} \in SUBSET Docs
    OBVIOUS
  <2>2. Place(M, d) \in Nat
    BY <2>1, PlaceType
  <2>3. Place(M \cup {x}, d) = Place(M, d) + (IF x > d THEN 1 ELSE 0)
    BY <2>1, PlaceMoves
  <2> QED
    BY <2>2, <2>3
<1>2. Before(M \cup {x}, D, b) \subseteq Before(M, D, b)
  BY <1>1 DEF Before
<1>3. IsFiniteSet(Before(M, D, b))
  BY DocSets DEF Before
<1> QED
  BY <1>2, <1>3, FS_Subset

\* It moves the older ones on, past the place b one of them at most, and none
\* when it has a place beyond b itself.
LEMMA BeyondIn ==
  ASSUME ListingAssumption, NEW M \in SUBSET Docs, NEW x \in Docs, x \notin M,
         NEW S \in SUBSET Docs, NEW b \in Nat
  PROVE  Cardinality(Beyond(M \cup {x}, S, b)) <= Cardinality(Beyond(M, S, b)) + 1
<1> DEFINE K == M \cup {x}
           A == Beyond(M, S, b)
           B == Beyond(K, S, b)
<1>1. K \in SUBSET Docs /\ A \in SUBSET Docs /\ B \in SUBSET Docs
  BY DEF Beyond
<1>2. \A d \in Docs : /\ Place(M, d) \in Nat
                      /\ Place(K, d) = Place(M, d) + (IF x > d THEN 1 ELSE 0)
  BY PlaceMoves, PlaceType
<1> HIDE DEF K
<1>3. \E y : B \subseteq A \cup {y}
  <2>1. CASE Place(K, x) >= b
    <3>1. ASSUME NEW d \in B, d # x PROVE d \in A
      <4>1. d \in S /\ d \in M /\ d \in Docs /\ Place(K, d) >= b
        BY <1>1, <3>1 DEF Beyond, K
      <4>2. CASE d < x
        <5>1. Place(K, x) < Place(K, d)
          BY <1>1, <4>1, <4>2, PlaceFalls DEF K
        <5> QED
          BY <1>2, <2>1, <4>1, <5>1 DEF Beyond
      <4>3. CASE ~(d < x)
        <5>1. Place(K, d) = Place(M, d)
          BY <1>2, <4>1, <4>3 DEF Docs
        <5> QED
          BY <4>1, <5>1 DEF Beyond
      <4> QED
        BY <4>2, <4>3
    <3> QED
      BY <3>1
  <2>2. CASE ~(Place(K, x) >= b)
    <3>1. ASSUME NEW d \in B, d \notin A PROVE d \in K /\ Place(K, d) = b
      <4>1. d \in S /\ d \in K /\ d \in Docs /\ Place(K, d) >= b
        BY <1>1, <3>1 DEF Beyond
      <4>2. d \in M
        BY <2>2, <4>1 DEF K
      <4>3. ~(Place(M, d) >= b)
        BY <3>1, <4>1, <4>2 DEF Beyond
      <4> QED
        BY <1>2, <4>1, <4>3
    <3>2. CASE B \subseteq A
      BY <3>2
    <3>3. CASE ~(B \subseteq A)
      <4>1. PICK y \in B : y \notin A
        BY <3>3
      <4>2. \A d \in B : d \notin A => d = y
        BY <1>1, <3>1, <4>1, PlaceIsOwn
      <4> QED
        BY <4>2
    <3> QED
      BY <3>2, <3>3
  <2> QED
    BY <2>1, <2>2
<1>4. PICK y : B \subseteq A \cup {y}
  BY <1>3
<1> HIDE DEF A, B
<1>5. /\ IsFiniteSet(A) /\ Cardinality(A) \in Nat
      /\ IsFiniteSet(B) /\ Cardinality(B) \in Nat
  BY <1>1, DocSets
<1>6. /\ IsFiniteSet(A \cup {y}) /\ Cardinality(A \cup {y}) \in Nat
      /\ Cardinality(A \cup {y}) <= Cardinality(A) + 1
  BY <1>5, AtMostOneMore
<1>7. Cardinality(B) <= Cardinality(A \cup {y})
  BY <1>4, <1>6, FS_Subset
<1>8. Cardinality(B) <= Cardinality(A) + 1
  BY <1>5, <1>6, <1>7
<1> QED
  BY <1>8 DEF A, B, K

LEMMA BeyondOut ==
  ASSUME ListingAssumption, NEW M \in SUBSET Docs, NEW x \in M,
         NEW S \in SUBSET Docs, NEW b \in Nat
  PROVE  Cardinality(Beyond(M \ {x}, S, b)) <= Cardinality(Beyond(M, S, b))
<1> DEFINE L == M \ {x}
<1>1. M = L \cup {x} /\ L \in SUBSET Docs /\ x \notin L /\ x \in Docs
  OBVIOUS
<1> HIDE DEF L
<1>2. ASSUME NEW d \in Docs
      PROVE  /\ Place(L, d) \in Nat /\ Place(M, d) \in Nat
             /\ Place(M, d) >= Place(L, d)
  <2>1. Place(L, d) \in Nat
    BY <1>1, PlaceType
  <2>2. Place(L \cup {x}, d) = Place(L, d) + (IF x > d THEN 1 ELSE 0)
    BY <1>1, PlaceMoves
  <2> QED
    BY <1>1, <2>1, <2>2
<1>3. Beyond(L, S, b) \subseteq Beyond(M, S, b)
  <2> SUFFICES ASSUME NEW d \in Beyond(L, S, b)
               PROVE  d \in Beyond(M, S, b)
    OBVIOUS
  <2>1. d \in Docs /\ d \in S /\ d \in M /\ Place(L, d) >= b
    BY <1>1 DEF Beyond
  <2> QED
    BY <1>2, <2>1 DEF Beyond
<1>4. IsFiniteSet(Beyond(M, S, b))
  BY DocSets DEF Beyond
<1> QED
  BY <1>3, <1>4, FS_Subset DEF L

-----------------------------------------------------------------------------
\* The parts of WalkInv that depend on the listing, its documents being M and
\* the first b of them passed.
Explained(M, w, b) ==
  /\ w.there \subseteq M
  /\ Cardinality(Before(M, w.there \ w.seen, b)) <= w.left
  /\ Cardinality(Beyond(M, w.seen, b)) + w.answered <= w.joined + Cardinality(w.seen)

Unseen(w) == Cardinality(w.there \ w.seen)

LEMMA WalkInvParts ==
  WalkInv <=>
    /\ at = "idle" => skip = 0 /\ walk = NewWalk({})
    /\ Explained(Matching, walk, Passed)
    /\ Cardinality(DOMAIN shown) <= Size
    /\ LastPage => Unseen(walk) <= walk.left
    /\ at = "rows" => /\ total <= Cardinality(Matching) + walk.since
                      /\ Cardinality(Matching) <= total + walk.since
    /\ LastPage /\ (shown # Nobody \/ skip = 0) => TotalFits
BY DEF WalkInv, Explained, Missed, Ahead, Before, Beyond, Rank, Place, CountMatching, Unseen

LEMMA WalkInvAfter ==
  ASSUME NEW M, M = Matching'
  PROVE  WalkInv' <=>
    /\ at' = "idle" => skip' = 0 /\ walk' = NewWalk({})
    /\ Explained(M, walk', Passed')
    /\ Cardinality(DOMAIN shown') <= Size
    /\ LastPage' => Unseen(walk') <= walk'.left
    /\ at' = "rows" => /\ total' <= Cardinality(M) + walk'.since
                       /\ Cardinality(M) <= total' + walk'.since
    /\ LastPage' /\ (shown' # Nobody \/ skip' = 0) => TotalFits'
BY DEF WalkInv, Explained, Missed, Ahead, Before, Beyond, Rank, Place, CountMatching, Unseen

\* Before the first page nothing is to be explained.
LEMMA FreshWalk ==
  ASSUME NEW M, NEW D \in SUBSET M
  PROVE  /\ (\A d \in D : Place(M, d) \in Nat) => Explained(M, NewWalk(D), 0)
         /\ D = {} => \A b : Explained(M, NewWalk(D), b)
<1> DEFINE w == NewWalk(D)
<1>1. /\ w.there = D /\ w.seen = {} /\ w.answered = 0 /\ w.joined = 0 /\ w.left = 0
  BY DEF NewWalk
<1> HIDE DEF w
<1>2. \A b : Cardinality(Beyond(M, w.seen, b)) = 0
  <2>1. \A b : Beyond(M, w.seen, b) = {}
    BY <1>1 DEF Beyond
  <2> QED
    BY <2>1, FS_EmptySet
<1>3. Cardinality(w.seen) = 0
  BY <1>1, FS_EmptySet
<1>4. ASSUME \A d \in D : Place(M, d) \in Nat
      PROVE  Explained(M, w, 0)
  <2>1. Before(M, w.there \ w.seen, 0) = {}
    BY <1>1, <1>4 DEF Before
  <2>2. Cardinality(Before(M, w.there \ w.seen, 0)) = 0
    BY <2>1, FS_EmptySet
  <2> QED
    BY <1>1, <1>2, <1>3, <2>2 DEF Explained
<1>5. ASSUME D = {}, NEW b PROVE Explained(M, w, b)
  <2>1. Before(M, w.there \ w.seen, b) = {}
    BY <1>1, <1>5 DEF Before
  <2>2. Cardinality(Before(M, w.there \ w.seen, b)) = 0
    BY <2>1, FS_EmptySet
  <2> QED
    BY <1>1, <1>2, <1>3, <2>2 DEF Explained
<1> QED
  BY <1>4, <1>5 DEF w

LEMMA ExplainedIn ==
  ASSUME ListingAssumption, NEW M \in SUBSET Docs, NEW x \in Docs, x \notin M,
         NEW b \in Nat, NEW w \in Walks, Explained(M, w, b),
         NEW v \in Walks, v.there = w.there, v.seen = w.seen, v.answered = w.answered,
         v.joined = w.joined + 1, v.left = w.left
  PROVE  Explained(M \cup {x}, v, b)
<1> DEFINE D == w.there \ w.seen
<1>1. D \in SUBSET M /\ w.seen \in SUBSET Docs /\ D \in SUBSET Docs
  BY DEF Explained, Walks
<1>2. /\ Cardinality(Before(M \cup {x}, D, b)) <= Cardinality(Before(M, D, b))
      /\ Cardinality(Beyond(M \cup {x}, w.seen, b)) <= Cardinality(Beyond(M, w.seen, b)) + 1
  BY <1>1, BeforeIn, BeyondIn
<1>3. /\ Cardinality(Before(M \cup {x}, D, b)) \in Nat
      /\ Cardinality(Before(M, D, b)) \in Nat
      /\ Cardinality(Beyond(M \cup {x}, w.seen, b)) \in Nat
      /\ Cardinality(Beyond(M, w.seen, b)) \in Nat
      /\ Cardinality(w.seen) \in Nat
  BY <1>1, DocSets DEF Before, Beyond
<1>4. w.left \in Nat /\ w.answered \in Nat /\ w.joined \in Nat
  BY DEF Walks
<1> QED
  BY <1>2, <1>3, <1>4 DEF Explained

LEMMA ExplainedOut ==
  ASSUME ListingAssumption, NEW M \in SUBSET Docs, NEW x \in M,
         NEW b \in Nat, NEW w \in Walks, Explained(M, w, b),
         NEW v \in Walks, v.there = w.there \ {x}, v.seen = w.seen,
         v.answered = w.answered, v.joined = w.joined, v.left = w.left + 1
  PROVE  /\ Explained(M \ {x}, v, b)
         /\ Unseen(w) <= w.left => Unseen(v) <= v.left
<1> DEFINE D == w.there \ w.seen
<1>1. /\ D \in SUBSET M /\ w.seen \in SUBSET Docs /\ D \in SUBSET Docs
      /\ v.there \ v.seen = D \ {x}
  BY DEF Explained, Walks
<1>2. /\ Cardinality(Before(M \ {x}, D \ {x}, b)) <= Cardinality(Before(M, D, b)) + 1
      /\ Cardinality(Beyond(M \ {x}, w.seen, b)) <= Cardinality(Beyond(M, w.seen, b))
  BY <1>1, BeforeOut, BeyondOut
<1>3. /\ Cardinality(Before(M \ {x}, D \ {x}, b)) \in Nat
      /\ Cardinality(Before(M, D, b)) \in Nat
      /\ Cardinality(Beyond(M \ {x}, w.seen, b)) \in Nat
      /\ Cardinality(Beyond(M, w.seen, b)) \in Nat
      /\ Cardinality(w.seen) \in Nat
  BY <1>1, DocSets DEF Before, Beyond
<1>4. w.left \in Nat /\ w.answered \in Nat /\ w.joined \in Nat
  BY DEF Walks
<1>5. v.there \subseteq M \ {x}
  BY DEF Explained
<1>6. Explained(M \ {x}, v, b)
  <2>1. Cardinality(Before(M \ {x}, v.there \ v.seen, b)) <= v.left
    <3>1. Cardinality(Before(M, D, b)) <= w.left
      BY DEF Explained
    <3>2. Before(M \ {x}, v.there \ v.seen, b) = Before(M \ {x}, D \ {x}, b)
      BY <1>1
    <3> HIDE DEF D
    <3> QED
      BY <1>2, <1>3, <1>4, <3>1, <3>2
  <2>2. Cardinality(Beyond(M \ {x}, v.seen, b)) + v.answered <= v.joined + Cardinality(v.seen)
    BY <1>2, <1>3, <1>4 DEF Explained
  <2> QED
    BY <1>5, <2>1, <2>2 DEF Explained
<1>7. Cardinality(D \ {x}) <= Cardinality(D) /\ Cardinality(D) \in Nat
      /\ Cardinality(D \ {x}) \in Nat
  BY <1>1, DocSets, FS_Subset
<1>8. Unseen(w) = Cardinality(D) /\ Unseen(v) = Cardinality(D \ {x})
  BY <1>1 DEF Unseen
<1> HIDE DEF D
<1> QED
  BY <1>4, <1>6, <1>7, <1>8

\* How the rows that match change when one row does.
LEMMA MatchingAfter ==
  ASSUME TypeOK, NEW d \in Docs, NEW s \in Status, Becomes(d, s)
  PROVE  /\ Matching \in SUBSET Docs
         /\ \/ d \notin Matching /\ Matches(s) /\ Matching' = Matching \cup {d}
            \/ d \in Matching /\ ~Matches(s) /\ Matching' = Matching \ {d}
            \/ (d \in Matching <=> Matches(s)) /\ Matching' = Matching
<1>1. status' = [status EXCEPT ![d] = s] /\ filter' = filter
  BY DEF Becomes
<1>2. \A e \in Docs : e \in Matching' <=> IF e = d THEN Matches(s) ELSE e \in Matching
  BY <1>1 DEF Matching, Matches, TypeOK
<1>3. Matching \subseteq Docs /\ Matching' \subseteq Docs
  BY DEF Matching
<1> QED
  BY <1>2, <1>3

\* What a row that changes does to the walk.
LEMMA WalkAfter ==
  ASSUME TypeOK, NEW d \in Docs, NEW s \in Status, Becomes(d, s), at # "idle"
  PROVE  \/ /\ d \notin Matching /\ Matching' = Matching \cup {d}
            /\ walk'.there = walk.there /\ walk'.seen = walk.seen
            /\ walk'.answered = walk.answered /\ walk'.joined = walk.joined + 1
            /\ walk'.left = walk.left /\ walk'.since = walk.since + 1
         \/ /\ d \in Matching /\ Matching' = Matching \ {d}
            /\ walk'.there = walk.there \ {d} /\ walk'.seen = walk.seen
            /\ walk'.answered = walk.answered /\ walk'.joined = walk.joined
            /\ walk'.left = walk.left + 1 /\ walk'.since = walk.since + 1
         \/ Matching' = Matching /\ walk' = walk
<1>0. walk \in Walks /\ (d \in Matching <=> Matches(status[d]))
  BY DEF TypeOK, Matching
<1>1. CASE d \notin Matching /\ Matches(s) /\ Matching' = Matching \cup {d}
  <2>1. walk' = [walk EXCEPT !.there = @, !.joined = @ + 1, !.left = @, !.since = @ + 1]
    BY <1>0, <1>1, Zenon DEF Becomes
  <2> QED
    BY <1>0, <1>1, <2>1 DEF Walks
<1>2. CASE d \in Matching /\ ~Matches(s) /\ Matching' = Matching \ {d}
  <2>1. walk' = [walk EXCEPT !.there = @ \ {d}, !.joined = @, !.left = @ + 1, !.since = @ + 1]
    BY <1>0, <1>2, Zenon DEF Becomes
  <2> QED
    BY <1>0, <1>2, <2>1 DEF Walks
<1>3. CASE (d \in Matching <=> Matches(s)) /\ Matching' = Matching
  BY <1>0, <1>3 DEF Becomes
<1> QED
  BY <1>1, <1>2, <1>3, MatchingAfter

\* A change of the rows is counted as what it may bring about.
LEMMA WalkRows ==
  ASSUME ListingAssumption, TypeOK, TypeOK', WalkInv,
         NEW d \in Docs, NEW s \in Status, Becomes(d, s)
  PROVE  WalkInv'
<1>0. /\ walk \in Walks /\ walk' \in Walks /\ skip \in Nat /\ total \in Nat
      /\ UNCHANGED <<at, filter, skip, total, shown, counted>>
      /\ Matching \in SUBSET Docs
  BY DEF TypeOK, Becomes, Matching
<1>1. Passed \in Nat /\ Passed' = Passed /\ LastPage' = LastPage
  BY <1>0 DEF Passed, LastPage, FullPage, ListingAssumption
<1>2. PICK M : M = Matching'
  OBVIOUS
<1>3. CASE at = "idle"
  <2>1. walk' = NewWalk({}) /\ skip' = 0 /\ ~LastPage' /\ at' = "idle"
    BY <1>0, <1>3 DEF Becomes, WalkInv, LastPage
  <2>2. Explained(M, walk', Passed')
    BY <2>1, FreshWalk
  <2>3. Cardinality(DOMAIN shown') <= Size
    BY <1>0 DEF WalkInv
  <2> QED
    BY <1>2, <2>1, <2>2, <2>3, WalkInvAfter
<1>4. CASE at # "idle"
  <2>0. /\ Explained(Matching, walk, Passed)
        /\ Cardinality(DOMAIN shown) <= Size
        /\ LastPage => Unseen(walk) <= walk.left
        /\ at = "rows" => /\ total <= Cardinality(Matching) + walk.since
                          /\ Cardinality(Matching) <= total + walk.since
        /\ LastPage /\ (shown # Nobody \/ skip = 0) => TotalFits
    BY WalkInvParts
  <2>1. /\ Explained(M, walk', Passed)
        /\ Unseen(walk) <= walk.left => Unseen(walk') <= walk'.left
    <3>1. CASE d \notin Matching /\ Matching' = Matching \cup {d}
               /\ walk'.there = walk.there /\ walk'.seen = walk.seen
               /\ walk'.answered = walk.answered /\ walk'.joined = walk.joined + 1
               /\ walk'.left = walk.left
      <4>1. Explained(Matching \cup {d}, walk', Passed)
        BY <1>0, <1>1, <2>0, <3>1, ExplainedIn
      <4> QED
        BY <1>2, <3>1, <4>1 DEF Unseen
    <3>2. CASE d \in Matching /\ Matching' = Matching \ {d}
               /\ walk'.there = walk.there \ {d} /\ walk'.seen = walk.seen
               /\ walk'.answered = walk.answered /\ walk'.joined = walk.joined
               /\ walk'.left = walk.left + 1
      <4>1. /\ Explained(Matching \ {d}, walk', Passed)
            /\ Unseen(walk) <= walk.left => Unseen(walk') <= walk'.left
        BY <1>0, <1>1, <2>0, <3>2, ExplainedOut
      <4> QED
        BY <1>2, <3>2, <4>1
    <3>3. CASE Matching' = Matching /\ walk' = walk
      BY <1>2, <2>0, <3>3
    <3> QED
      BY <1>4, <3>1, <3>2, <3>3, WalkAfter
  <2>2. /\ IsFiniteSet(Matching) /\ Cardinality(Matching) \in Nat
        /\ walk.since \in Nat
    BY <1>0, DocSets DEF Walks
  <2>3. \/ /\ walk'.since = walk.since + 1
           /\ \/ Cardinality(M) = Cardinality(Matching) + 1
              \/ Cardinality(M) = Cardinality(Matching) - 1
        \/ walk'.since = walk.since /\ M = Matching
    <3>1. CASE d \notin Matching /\ M = Matching \cup {d} /\ walk'.since = walk.since + 1
      BY <2>2, <3>1, FS_AddElement
    <3>2. CASE d \in Matching /\ M = Matching \ {d} /\ walk'.since = walk.since + 1
      BY <2>2, <3>2, FS_RemoveElement
    <3> QED
      BY <1>2, <1>4, <3>1, <3>2, WalkAfter
  <2>4. at = "rows" => /\ total <= Cardinality(M) + walk'.since
                       /\ Cardinality(M) <= total + walk'.since
    BY <1>0, <2>0, <2>2, <2>3
  <2>5. TotalFits => TotalFits'
    <3>1. DOMAIN shown \in SUBSET Docs
      BY DEF TypeOK
    <3>2. Cardinality(DOMAIN shown) \in Nat
      BY <3>1, DocSets
    <3>3. walk'.since >= walk.since /\ walk'.since \in Nat
      BY <2>2, <2>3
    <3> QED
      BY <1>0, <2>2, <3>2, <3>3 DEF TotalFits
  <2> QED
    BY <1>0, <1>1, <1>2, <1>4, <2>0, <2>1, <2>4, <2>5, WalkInvAfter
<1> QED
  BY <1>3, <1>4

\* A page read: those repeated on it are no longer ahead.
LEMMA ExplainedPage ==
  ASSUME ListingAssumption, NEW M \in SUBSET Docs, NEW i \in Nat,
         NEW w \in Walks, Explained(M, w, i), NEW P, P = Between(M, i, i + Size),
         NEW v \in Walks, v.there = w.there, v.seen = w.seen \cup P,
         v.answered = w.answered + Cardinality(P), v.joined = w.joined, v.left = w.left
  PROVE  Explained(M, v, i + Size)
<1> DEFINE A == Beyond(M, w.seen, i)
           B == Beyond(M, v.seen, i + Size)
           R == w.seen \cap P
           D == Before(M, w.there \ w.seen, i)
           E == Before(M, v.there \ v.seen, i + Size)
<1>0. /\ i + Size \in Nat /\ i < i + Size
      /\ \A d \in M : Place(M, d) \in Nat
      /\ w.there \subseteq M
      /\ w.left \in Nat /\ w.answered \in Nat /\ w.joined \in Nat
  BY PlaceType DEF ListingAssumption, Explained, Walks
<1>1. /\ P \in SUBSET Docs /\ w.seen \in SUBSET Docs /\ v.seen \in SUBSET Docs
      /\ A \in SUBSET Docs /\ B \in SUBSET Docs /\ R \in SUBSET Docs
      /\ D \in SUBSET Docs /\ E \in SUBSET Docs
  BY DEF Between, Beyond, Before, Walks
<1>2. E \subseteq D
  <2> SUFFICES ASSUME NEW d \in E
               PROVE  d \in D
    OBVIOUS
  <2>1. d \in M /\ d \in w.there /\ d \notin w.seen /\ d \notin P /\ Place(M, d) < i + Size
    BY <1>0 DEF Before
  <2>2. Place(M, d) < i
    BY <1>0, <2>1 DEF Between
  <2> QED
    BY <2>1, <2>2 DEF Before
<1>3. B \cup R \subseteq A /\ B \cap R = {}
  <2>1. ASSUME NEW d \in B PROVE d \in A /\ d \notin R
    <3>1. d \in M /\ Place(M, d) >= i + Size /\ d \in v.seen
      BY DEF Beyond
    <3>2. d \notin P /\ Place(M, d) >= i
      BY <1>0, <3>1 DEF Between
    <3> QED
      BY <3>1, <3>2 DEF Beyond
  <2>2. ASSUME NEW d \in R PROVE d \in A
    BY <1>0 DEF Beyond, Between
  <2> HIDE DEF A, B, R
  <2> QED
    BY <2>1, <2>2
<1> HIDE DEF A, B, D, E
<1>4. /\ IsFiniteSet(A) /\ Cardinality(A) \in Nat /\ IsFiniteSet(B) /\ Cardinality(B) \in Nat
      /\ IsFiniteSet(D) /\ Cardinality(D) \in Nat /\ IsFiniteSet(E) /\ Cardinality(E) \in Nat
      /\ IsFiniteSet(P) /\ Cardinality(P) \in Nat /\ IsFiniteSet(R) /\ Cardinality(R) \in Nat
      /\ IsFiniteSet(w.seen) /\ Cardinality(w.seen) \in Nat
      /\ IsFiniteSet(B \cup R) /\ Cardinality(v.seen) \in Nat
  BY <1>1, DocSets
<1>5. Cardinality(B) + Cardinality(R) <= Cardinality(A)
  <2>1. Cardinality(B \cup R) <= Cardinality(A)
    BY <1>3, <1>4, FS_Subset
  <2>2. Cardinality(B \cup R) = Cardinality(B) + Cardinality(R) - Cardinality(B \cap R)
    BY <1>4, FS_Union
  <2>3. Cardinality(B \cap R) = 0
    BY <1>3, FS_EmptySet
  <2> HIDE DEF R
  <2> QED
    BY <1>4, <2>1, <2>2, <2>3
<1>6. Cardinality(v.seen) = Cardinality(w.seen) + Cardinality(P) - Cardinality(R)
  BY <1>4, FS_Union
<1>7. Cardinality(E) <= Cardinality(D)
  BY <1>2, <1>4, FS_Subset
<1>8. Cardinality(D) <= w.left /\ Cardinality(A) + w.answered <= w.joined + Cardinality(w.seen)
  BY DEF Explained, A, D
<1> HIDE DEF R
<1>9. /\ Cardinality(E) <= v.left
      /\ Cardinality(B) + v.answered <= v.joined + Cardinality(v.seen)
  BY <1>0, <1>4, <1>5, <1>6, <1>7, <1>8
<1> QED
  BY <1>0, <1>9 DEF Explained, B, E

LEMMA WalkPage ==
  ASSUME ListingAssumption, TypeOK, TypeOK', WalkInv, ListRows
  PROVE  WalkInv'
<1> DEFINE P == Between(Matching, skip, skip + Size)
           n == Cardinality(Matching)
<1>0. /\ walk \in Walks /\ walk' \in Walks /\ skip \in Nat /\ total \in Nat
      /\ Matching \in SUBSET Docs /\ Size \in Nat \ {0}
  BY DEF TypeOK, Matching, ListingAssumption
<1>1. PageOf = P
  BY DEF PageOf, Rank, Place, InPage, Between
<1>2. /\ at = "rows" /\ at' = "records" /\ DOMAIN shown' = P /\ skip' = skip /\ total' = total
      /\ Matching' = Matching
      /\ walk' = [walk EXCEPT !.seen = @ \cup P, !.answered = @ + Cardinality(P)]
  BY <1>1, Zenon DEF ListRows, Then, rows, Matching, Matches
<1>3. /\ Explained(Matching, walk, skip)
      /\ total <= n + walk.since /\ n <= total + walk.since
  BY <1>2, WalkInvParts DEF Passed
<1>4. /\ walk'.there = walk.there /\ walk'.seen = walk.seen \cup P
      /\ walk'.answered = walk.answered + Cardinality(P) /\ walk'.joined = walk.joined
      /\ walk'.left = walk.left /\ walk'.since = walk.since
  BY <1>0, <1>2 DEF Walks
<1>5. PICK Q : Q = P
  OBVIOUS
<1>6. Explained(Matching, walk', skip + Size)
  BY <1>0, <1>3, <1>4, <1>5, ExplainedPage
<1>7. /\ Cardinality(Q) <= Size
      /\ Cardinality(Q) < Size => /\ n < skip + Size
                                  /\ skip <= n => Cardinality(Q) = n - skip
  BY <1>0, <1>5, PageLength
<1>8. IsFiniteSet(Q) /\ Cardinality(Q) \in Nat /\ n \in Nat /\ walk.since \in Nat
  <2>1. Q \in SUBSET Docs
    BY <1>0, <1>5 DEF Between
  <2> QED
    BY <1>0, <2>1, DocSets DEF Walks
<1>9. LastPage' => Cardinality(Q) < Size
  BY <1>0, <1>2, <1>5, <1>7, <1>8 DEF LastPage, FullPage
<1>10. ASSUME LastPage' PROVE Unseen(walk') <= walk'.left
  <2>1. \A d \in Matching : Place(Matching, d) \in Nat /\ Place(Matching, d) < skip + Size
    BY <1>0, <1>7, <1>8, <1>9, <1>10, PlaceType
  <2>2. walk'.there \subseteq Matching
    BY <1>6 DEF Explained
  <2>3. Before(Matching, walk'.there \ walk'.seen, skip + Size) = walk'.there \ walk'.seen
    BY <2>1, <2>2 DEF Before
  <2> QED
    BY <1>6, <2>3 DEF Explained, Unseen
<1>11. ASSUME LastPage', shown' # Nobody \/ skip' = 0
       PROVE  TotalFits'
  <2>1. skip <= n
    <3>1. CASE skip = 0
      BY <1>8, <3>1
    <3>2. CASE shown' # Nobody
      <4>1. P # {}
        <5>1. shown' = [d \in PageOf |-> status[d]]
          BY DEF ListRows
        <5> QED
          BY <1>1, <3>2, <5>1 DEF Nobody
      <4>2. PICK d \in Matching : skip <= Place(Matching, d)
        BY <4>1 DEF Between
      <4>3. Place(Matching, d) \in Nat /\ Place(Matching, d) < n
        BY <1>0, PlaceType
      <4> QED
        BY <1>0, <1>8, <4>2, <4>3
    <3> QED
      BY <1>2, <1>11, <3>1, <3>2
  <2>2. Cardinality(Q) = n - skip
    BY <1>7, <1>9, <1>11, <2>1
  <2>3. skip' + Cardinality(DOMAIN shown') = n
    BY <1>0, <1>2, <1>5, <1>8, <2>2
  <2> HIDE DEF n
  <2> QED
    BY <1>0, <1>2, <1>3, <1>4, <1>8, <2>3 DEF TotalFits
<1>12. Passed' = skip + Size
  BY <1>2 DEF Passed
<1> QED
  <2>1. PICK M : M = Matching'
    OBVIOUS
  <2> QED
    BY <1>2, <1>5, <1>6, <1>7, <1>10, <1>11, <1>12, <2>1, WalkInvAfter

\* The other steps of the client read nothing that the walk explains.
LEMMA WalkStep ==
  ASSUME ListingAssumption, TypeOK, WalkInv,
         \/ \E f \in {"all"} \cup Status : ListFirst(f)
         \/ ListCount \/ ListRecords \/ ListNext \/ ListEnd
  PROVE  WalkInv'
<1>0. /\ walk \in Walks /\ skip \in Nat /\ total \in Nat /\ Size \in Nat \ {0}
      /\ Matching \in SUBSET Docs
      /\ Cardinality(DOMAIN Nobody) = 0
  <2>1. DOMAIN Nobody = {}
    BY DEF Nobody
  <2>2. Cardinality(DOMAIN Nobody) = 0
    BY <2>1, FS_EmptySet, Zenon
  <2> QED
    BY <2>2 DEF TypeOK, Matching, ListingAssumption
<1>1. PICK M : M = Matching'
  OBVIOUS
<1>2. /\ at = "idle" => skip = 0 /\ walk = NewWalk({})
      /\ Explained(Matching, walk, Passed)
      /\ Cardinality(DOMAIN shown) <= Size
      /\ LastPage => Unseen(walk) <= walk.left
      /\ LastPage /\ (shown # Nobody \/ skip = 0) => TotalFits
  BY WalkInvParts
<1>3. ASSUME NEW f \in {"all"} \cup Status, ListFirst(f) PROVE WalkInv'
  <2>1. walk' = NewWalk(M) /\ M \in SUBSET Docs
    BY <1>1, <1>3 DEF ListFirst, Matching, Matches, rows
  <2>2. at' = "count" /\ Passed' = 0 /\ ~LastPage' /\ shown' = shown
    BY <1>2, <1>3 DEF ListFirst, Passed, LastPage
  <2>3. Explained(M, walk', Passed')
    BY <2>1, <2>2, FreshWalk, PlaceType
  <2> QED
    BY <1>1, <1>2, <2>2, <2>3, WalkInvAfter
<1>4. CASE ListCount
  <2>1. /\ M = Matching /\ at = "count" /\ at' = "rows" /\ skip' = skip /\ shown' = shown
        /\ Passed' = Passed /\ ~LastPage' /\ total' = Cardinality(M)
    BY <1>1, <1>4 DEF ListCount, Then, CountMatching, Matching, Matches, Passed,
                      LastPage, rows
  <2>2. /\ walk'.there = walk.there /\ walk'.seen = walk.seen
        /\ walk'.answered = walk.answered /\ walk'.joined = walk.joined
        /\ walk'.left = walk.left /\ walk'.since = 0
    BY <1>0, <1>4 DEF ListCount, Walks
  <2>3. Explained(M, walk', Passed')
    BY <1>2, <2>1, <2>2 DEF Explained
  <2>4. Cardinality(M) \in Nat
    BY <1>0, <2>1, DocSets
  <2> QED
    BY <1>1, <1>2, <2>1, <2>2, <2>3, <2>4, WalkInvAfter
<1>5. CASE ListRecords
  <2>1. /\ M = Matching /\ at = "records" /\ at' = "answered"
        /\ UNCHANGED <<skip, shown, total, walk, Passed, LastPage, TotalFits>>
    BY <1>1, <1>5 DEF ListRecords, Then, Matching, Matches, Passed, LastPage, FullPage,
                      TotalFits, rows
  <2> QED
    BY <1>1, <1>2, <2>1, WalkInvAfter
<1>6. CASE ListNext
  <2>1. /\ M = Matching /\ at' = "count" /\ walk' = walk
        /\ Passed' = Passed /\ ~LastPage' /\ shown' = Nobody
    BY <1>1, <1>6 DEF ListNext, Matching, Matches, Passed, LastPage, rows
  <2> QED
    BY <1>0, <1>1, <1>2, <2>1, WalkInvAfter
<1>7. CASE ListEnd
  <2>1. /\ at' = "idle" /\ skip' = 0 /\ walk' = NewWalk({}) /\ ~LastPage' /\ shown' = Nobody
    BY <1>7 DEF ListEnd, LastPage
  <2>2. Explained(M, walk', Passed')
    BY <2>1, FreshWalk
  <2> QED
    BY <1>0, <1>1, <2>1, <2>2, WalkInvAfter
<1> QED
  BY <1>3, <1>4, <1>5, <1>6, <1>7

(***************************************************************************)
(* What is kept all along a walk through the listing, whatever comes in,   *)
(* goes out or changes under way (routes.py:378-385).                      *)
(***************************************************************************)
THEOREM ListInvariant == Spec => []ListInv
<1> USE ListingAssumption
<1>1. Init => WalkInv
  <2> SUFFICES ASSUME Init PROVE WalkInv
    OBVIOUS
  <2>1. /\ Explained(Matching, walk, Passed) /\ DOMAIN shown = {}
        /\ at = "idle" /\ skip = 0 /\ walk = NewWalk({})
    BY FreshWalk DEF Init, Nobody
  <2>2. Cardinality(DOMAIN shown) = 0
    BY <2>1, FS_EmptySet, Zenon
  <2> QED
    BY <2>1, <2>2, WalkInvParts DEF LastPage, ListingAssumption
<1>2. ReadInv /\ WalkInv /\ [Next]_vars /\ ReadInv' => WalkInv'
  <2> SUFFICES ASSUME TypeOK, TypeOK', WalkInv, [Next]_vars PROVE WalkInv'
    BY DEF ReadInv
  <2>1. ASSUME NEW d \in Docs, Upload(d) \/ Mark(d) \/ Complete(d) \/ Fail(d)
        PROVE  WalkInv'
    <3>1. PICK s \in Status : Becomes(d, s)
      BY <2>1, RowsChange
    <3> QED
      BY <3>1, WalkRows
  <2>2. CASE UNCHANGED vars
    BY <2>2 DEF vars, WalkInv, Missed, Ahead, Passed, Rank, Matching, Matches, LastPage,
                FullPage, CountMatching, TotalFits
  <2> QED
    BY <2>1, <2>2, WalkPage, WalkStep DEF Next
<1> QED
  BY <1>1, <1>2, ReadInvariant, PTL DEF Spec, ListInv

(***************************************************************************)
(* A walk to the end misses at most one document for each that left the    *)
(* listing meanwhile (routes.py:383-385: offset and limit).                *)
(***************************************************************************)
THEOREM FewAreSkipped == Spec => []SkipsHaveCause
<1>1. ListInv => SkipsHaveCause
  <2> SUFFICES ASSUME ListInv, WalkEnds
               PROVE  Cardinality(walk.there \ walk.seen) <= walk.left
    BY DEF SkipsHaveCause
  <2> QED
    BY DEF ListInv, WalkInv, WalkEnds, LastPage
<1> QED
  BY <1>1, ListInvariant, PTL

(***************************************************************************)
(* It shows a document again at most once for each that came in meanwhile  *)
(* (routes.py:383-385).                                                    *)
(***************************************************************************)
THEOREM FewAreRepeated == Spec => []RepeatsHaveCause
<1>1. ListInv => RepeatsHaveCause
  <2> SUFFICES ASSUME ListInv
               PROVE  walk.answered - Cardinality(walk.seen) <= walk.joined
    BY DEF RepeatsHaveCause
  <2>1. walk \in Walks /\ Ahead \in SUBSET Docs /\ walk.seen \in SUBSET Docs
    BY DEF ListInv, ReadInv, TypeOK, Walks, Ahead
  <2>2. Cardinality(Ahead) \in Nat /\ Cardinality(walk.seen) \in Nat
    BY <2>1, DocSets, ListingAssumption
  <2>3. Cardinality(Ahead) + walk.answered <= walk.joined + Cardinality(walk.seen)
    BY DEF ListInv, WalkInv
  <2> QED
    BY <2>1, <2>2, <2>3 DEF Walks
<1> QED
  BY <1>1, ListInvariant, PTL

(***************************************************************************)
(* The total is the length of the listing the last page ends, up to the    *)
(* changes between the two queries (routes.py:378-385).                    *)
(***************************************************************************)
THEOREM TotalIsNear == Spec => []TotalFitsPage
<1>1. ListInv => TotalFitsPage
  BY DEF ListInv, WalkInv, WalkEnds, LastPage, TotalFitsPage
<1> QED
  BY <1>1, ListInvariant, PTL

(***************************************************************************)
(* list_documents reads the records after the rows (lazy="selectin",       *)
(* models/document.py:90-95), so an answer that says "completed" leaves no *)
(* records out, but those of a second completion since.                    *)
(***************************************************************************)
THEOREM RecordsComeWithStatus == Spec => []CompletedWithRecords
BY ReadInvariant, PTL DEF ReadInv
=============================================================================
