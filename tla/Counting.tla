------------------------------- MODULE Counting -------------------------------
(***************************************************************************)
(* Lemmas about counting, for the proofs of the other modules: induction   *)
(* over the naturals and over finite sets, and sums over finite sets.      *)
(* The property proved by an induction is a set, the set of those for      *)
(* which it holds.                                                         *)
(***************************************************************************)
EXTENDS FiniteSetsExt, FiniteSetTheorems, TLAPS

\* Induction over the naturals.
LEMMA NatInduct ==
  ASSUME NEW A, 0 \in A, \A n \in Nat : n \in A => n + 1 \in A
  PROVE  \A n \in Nat : n \in A
  <1> DEFINE T == Nat \ A
  <1>1. SUFFICES ASSUME T # {}
                 PROVE  FALSE
    OBVIOUS
  <1>2. PICK n \in T : \A m \in T : <<m, n>> \notin OpToRel(<, Nat)
    <2> HIDE DEF T
    <2>1. T \subseteq Nat
      BY DEF T
    <2>2. QED
      BY ONLY <1>1, <2>1, NatLessThanWellFounded, WFMin
  <1>3. n # 0 /\ n - 1 \in Nat /\ n - 1 < n
    OBVIOUS
  <1>4. n - 1 \in A
    BY <1>2, <1>3 DEF OpToRel
  <1>5. QED
    BY <1>3, <1>4

\* Strong induction over the naturals.
LEMMA StrongNatInduct ==
  ASSUME NEW A, \A n \in Nat : (\A m \in Nat : m < n => m \in A) => n \in A
  PROVE  \A n \in Nat : n \in A
  <1> DEFINE B == {n \in Nat : \A m \in Nat : m <= n => m \in A}
  <1>1. 0 \in B
    OBVIOUS
  <1>2. \A n \in Nat : n \in B => n + 1 \in B
    OBVIOUS
  <1>3. \A n \in Nat : n \in B
    <2> HIDE DEF B
    <2> QED
      BY <1>1, <1>2, NatInduct
  <1>4. QED
    BY <1>3

\* Induction over the subsets of a finite set, by their size.
LEMMA SubsetInduct ==
  ASSUME NEW S, IsFiniteSet(S), NEW A,
         \A s \in SUBSET S :
           (\A r \in SUBSET S : Cardinality(r) < Cardinality(s) => r \in A) => s \in A
  PROVE  \A s \in SUBSET S : s \in A
  <1> DEFINE B == {n \in Nat : \A s \in SUBSET S : Cardinality(s) = n => s \in A}
  <1>1. \A s \in SUBSET S : Cardinality(s) \in Nat
    BY FS_Subset, FS_CardinalityType
  <1>2. ASSUME NEW n \in Nat, \A m \in Nat : m < n => m \in B
        PROVE  n \in B
    <2>1. SUFFICES ASSUME NEW s \in SUBSET S, Cardinality(s) = n
                   PROVE  s \in A
      OBVIOUS
    <2>2. \A r \in SUBSET S : Cardinality(r) < Cardinality(s) => r \in A
      BY <1>1, <1>2, <2>1
    <2>3. QED
      BY <2>2
  <1>3. \A n \in Nat : n \in B
    <2> HIDE DEF B
    <2> QED
      BY <1>2, StrongNatInduct
  <1>4. QED
    BY <1>1, <1>3

\* A finite set with one element put in.
LEMMA AtMostOneMore ==
  ASSUME NEW S, IsFiniteSet(S), NEW x
  PROVE  /\ IsFiniteSet(S \cup {x})
         /\ Cardinality(S \cup {x}) \in Nat
         /\ Cardinality(S \cup {x}) <= Cardinality(S) + 1
  <1>1. Cardinality(S) \in Nat
    BY FS_CardinalityType
  <1>2. CASE x \in S
    <2>1. S \cup {x} = S
      BY <1>2
    <2>2. IsFiniteSet(S \cup {x}) /\ Cardinality(S \cup {x}) = Cardinality(S)
      BY <2>1, Zenon
    <2>3. QED
      BY <1>1, <2>2
  <1>3. CASE x \notin S
    BY <1>1, <1>3, FS_AddElement
  <1>4. QED
    BY <1>2, <1>3

\* The union of finite sets of at most n elements each.
LEMMA UnionBound ==
  ASSUME NEW S, IsFiniteSet(S), NEW n \in Nat,
         NEW P, \A x \in S : IsFiniteSet(P[x]) /\ Cardinality(P[x]) <= n
  PROVE  LET U == UNION {P[x] : x \in S}
         IN  /\ IsFiniteSet(U) /\ Cardinality(U) \in Nat
             /\ Cardinality(U) <= Cardinality(S) * n
  <1> DEFINE U(s) == UNION {P[x] : x \in s}
             A == {s \in SUBSET S : IsFiniteSet(U(s)) /\ Cardinality(U(s)) <= Cardinality(s) * n}
  <1>1. ASSUME NEW s \in SUBSET S,
               \A r \in SUBSET S : Cardinality(r) < Cardinality(s) => r \in A
        PROVE  s \in A
    <2>0. IsFiniteSet(s) /\ Cardinality(s) \in Nat
      BY FS_Subset, FS_CardinalityType
    <2>1. CASE s = {}
      <3>1. U(s) = {}
        BY <2>1
      <3>2. IsFiniteSet(U(s)) /\ Cardinality(U(s)) = 0 /\ Cardinality(s) = 0
        BY <2>1, <3>1, FS_EmptySet, Zenon
      <3> HIDE DEF U
      <3>3. Cardinality(U(s)) <= Cardinality(s) * n
        BY <3>2
      <3> QED
        BY <3>2, <3>3
    <2>2. CASE s # {}
      <3>1. PICK x \in s : TRUE
        BY <2>2
      <3> DEFINE r == s \ {x}
      <3>2. r \in SUBSET S /\ Cardinality(r) = Cardinality(s) - 1 /\ U(s) = U(r) \cup P[x]
        <4>1. r \in SUBSET S /\ s = r \cup {x}
          BY <3>1
        <4>2. Cardinality(r) = Cardinality(s) - 1
          BY <2>0, <3>1, FS_RemoveElement
        <4>3. U(r \cup {x}) = U(r) \cup P[x]
          <5> HIDE DEF r
          <5> QED
            OBVIOUS
        <4> QED
          BY <4>1, <4>2, <4>3
      <3> HIDE DEF r, U
      <3>3. IsFiniteSet(U(r)) /\ Cardinality(U(r)) <= Cardinality(r) * n
        BY <1>1, <2>0, <3>2
      <3>4. IsFiniteSet(P[x]) /\ Cardinality(P[x]) <= n
        OBVIOUS
      <3>5. /\ IsFiniteSet(U(s))
            /\ Cardinality(U(s)) =
                 Cardinality(U(r)) + Cardinality(P[x]) - Cardinality(U(r) \cap P[x])
        BY <3>2, <3>3, <3>4, FS_Union
      <3>6. /\ Cardinality(U(r)) \in Nat /\ Cardinality(P[x]) \in Nat
            /\ Cardinality(U(r) \cap P[x]) \in Nat
        BY <3>3, <3>4, FS_Intersection, FS_CardinalityType
      <3>7. \A k \in Int : (k - 1) * n + n = k * n
        OBVIOUS
      <3>8. Cardinality(U(s)) <= Cardinality(s) * n
        <4>1. Cardinality(U(s)) <= Cardinality(r) * n + n
          <5>1. PICK k \in Int : k = Cardinality(r) * n
            BY <2>0, <3>2
          <5> QED
            BY <3>3, <3>4, <3>5, <3>6, <5>1
        <4> QED
          BY <2>0, <3>2, <3>7, <4>1
      <3> QED
        BY <3>5, <3>8
    <2> QED
      BY <2>1, <2>2
  <1>2. \A s \in SUBSET S : s \in A
    <2> HIDE DEF A
    <2> QED
      BY <1>1, SubsetInduct
  <1>3. S \in A
    BY <1>2
  <1> QED
    BY <1>3, FS_CardinalityType

-----------------------------------------------------------------------------
\* How SumFunctionOnSet takes a set apart.
First(s) == CHOOSE x \in s : TRUE
AddsUp(g, f, s) == g[s] = IF s = {} THEN 0 ELSE f[First(s)] + g[s \ {First(s)}]
SumTable(f, S) ==
  CHOOSE g : g = [s \in SUBSET S |-> IF s = {} THEN 0 ELSE f[First(s)] + g[s \ {First(s)}]]

\* A function that gives each subset the sum over it.
LEMMA TableExists ==
  ASSUME NEW S, IsFiniteSet(S), NEW f, \A x \in S : f[x] \in Nat
  PROVE  \E g \in [SUBSET S -> Nat] : \A s \in SUBSET S : AddsUp(g, f, s)
  <1> DEFINE A == {n \in Nat : \E g \in [SUBSET S -> Nat] :
                     \A s \in SUBSET S : Cardinality(s) <= n => AddsUp(g, f, s)}
  <1>0. \A s \in SUBSET S : /\ IsFiniteSet(s) /\ Cardinality(s) \in Nat
                            /\ Cardinality(s) = 0 <=> s = {}
    BY FS_Subset, FS_CardinalityType, FS_EmptySet
  <1>1. \A s \in SUBSET S : s # {} =>
          /\ First(s) \in s /\ s \ {First(s)} \in SUBSET S
          /\ Cardinality(s \ {First(s)}) = Cardinality(s) - 1
    BY <1>0, FS_RemoveElement DEF First
  <1>2. 0 \in A
    <2>1. [s \in SUBSET S |-> 0] \in [SUBSET S -> Nat]
      OBVIOUS
    <2>2. \A s \in SUBSET S : Cardinality(s) <= 0 => AddsUp([r \in SUBSET S |-> 0], f, s)
      BY <1>0 DEF AddsUp
    <2>3. QED
      BY <2>1, <2>2
  <1>3. ASSUME NEW n \in Nat, n \in A
        PROVE  n + 1 \in A
    <2>1. PICK g \in [SUBSET S -> Nat] :
            \A s \in SUBSET S : Cardinality(s) <= n => AddsUp(g, f, s)
      BY <1>3
    <2> DEFINE h == [s \in SUBSET S |-> IF Cardinality(s) <= n THEN g[s]
                                        ELSE f[First(s)] + g[s \ {First(s)}]]
    <2>2. h \in [SUBSET S -> Nat]
      <3>1. ASSUME NEW s \in SUBSET S, ~(Cardinality(s) <= n)
            PROVE  f[First(s)] + g[s \ {First(s)}] \in Nat
        <4>1. s # {}
          BY <1>0, <3>1
        <4>2. f[First(s)] \in Nat /\ g[s \ {First(s)}] \in Nat
          BY <1>1, <4>1
        <4>3. QED
          BY <4>2
      <3>2. QED
        BY <3>1
    <2>3. ASSUME NEW s \in SUBSET S, Cardinality(s) <= n + 1
          PROVE  AddsUp(h, f, s)
      <3>1. CASE s = {}
        <4>1. h[s] = g[s] /\ AddsUp(g, f, s)
          BY <1>0, <2>1, <3>1
        <4>2. QED
          BY <3>1, <4>1 DEF AddsUp
      <3>2. CASE s # {}
        <4> DEFINE r == s \ {First(s)}
        <4>1. r \in SUBSET S /\ Cardinality(r) <= n
          BY <1>0, <1>1, <2>3, <3>2
        <4>2. h[r] = g[r]
          BY <4>1
        <4>3. h[s] = f[First(s)] + g[r]
          BY <2>1, <3>2 DEF AddsUp
        <4>4. QED
          BY <3>2, <4>2, <4>3 DEF AddsUp
      <3>3. QED
        BY <3>1, <3>2
    <2>4. QED
      <3> HIDE DEF h
      <3> QED
        BY <2>2, <2>3
  <1>4. Cardinality(S) \in A
    <2> HIDE DEF A
    <2>1. Cardinality(S) \in Nat
      BY FS_CardinalityType
    <2> QED
      BY <1>2, <1>3, <2>1, NatInduct
  <1>5. \A s \in SUBSET S : Cardinality(s) <= Cardinality(S)
    BY FS_Subset
  <1>6. QED
    BY <1>4, <1>5

\* The recursion equation of a sum, for every subset.
LEMMA SumRecursion ==
  ASSUME NEW S, IsFiniteSet(S), NEW f, \A x \in S : f[x] \in Nat
  PROVE  /\ SumTable(f, S) \in [SUBSET S -> Nat]
         /\ \A s \in SUBSET S : AddsUp(SumTable(f, S), f, s)
         /\ SumFunctionOnSet(f, S) = SumTable(f, S)[S]
  <1> DEFINE G(g) == [s \in SUBSET S |->
                        IF s = {} THEN 0 ELSE f[First(s)] + g[s \ {First(s)}]]
  <1>1. PICK g \in [SUBSET S -> Nat] : \A s \in SUBSET S : AddsUp(g, f, s)
    BY TableExists
  <1>2. g = G(g)
    BY <1>1 DEF AddsUp
  <1>3. SumTable(f, S) = G(SumTable(f, S))
    BY <1>2 DEF SumTable
  <1>4. SumFunctionOnSet(f, S) = SumTable(f, S)[S]
    BY DEF SumFunctionOnSet, FoldFunctionOnSet, MapThenFoldSet, SumTable, First
  <1>5. \A s \in SUBSET S : AddsUp(SumTable(f, S), f, s)
    <2>1. ASSUME NEW t, t = G(t), NEW s \in SUBSET S
          PROVE  AddsUp(t, f, s)
      BY <2>1 DEF AddsUp
    <2>2. QED
      BY <1>3, <2>1
  <1>6. \A s \in SUBSET S : SumTable(f, S)[s] \in Nat
    <2> DEFINE A == {s \in SUBSET S : SumTable(f, S)[s] \in Nat}
    <2>1. ASSUME NEW s \in SUBSET S,
                 \A r \in SUBSET S : Cardinality(r) < Cardinality(s) => r \in A
          PROVE  s \in A
      <3>1. CASE s = {}
        BY <1>5, <3>1 DEF AddsUp
      <3>2. CASE s # {}
        <4>1. First(s) \in s /\ s \ {First(s)} \in SUBSET S
          BY <3>2 DEF First
        <4>2. /\ Cardinality(s) \in Nat
              /\ Cardinality(s \ {First(s)}) = Cardinality(s) - 1
          BY <4>1, FS_Subset, FS_RemoveElement, FS_CardinalityType
        <4>3. s \ {First(s)} \in A
          BY <2>1, <4>1, <4>2
        <4>4. f[First(s)] \in Nat /\ SumTable(f, S)[s \ {First(s)}] \in Nat
          BY <4>1, <4>3
        <4>5. SumTable(f, S)[s] = f[First(s)] + SumTable(f, S)[s \ {First(s)}]
          BY <1>5, <3>2 DEF AddsUp
        <4>6. QED
          BY <4>4, <4>5
      <3>3. QED
        BY <3>1, <3>2
    <2>2. \A s \in SUBSET S : s \in A
      <3> HIDE DEF A
      <3> QED
        BY <2>1, SubsetInduct
    <2>3. QED
      BY <2>2
  <1>7. SumTable(f, S) \in [SUBSET S -> Nat]
    <2>1. ASSUME NEW t, t = G(t), \A s \in SUBSET S : t[s] \in Nat
          PROVE  t \in [SUBSET S -> Nat]
      BY <2>1
    <2>2. QED
      BY <1>3, <1>6, <2>1
  <1>8. QED
    BY <1>4, <1>5, <1>7

\* A sum over a finite set is a natural number; the empty one is 0.
LEMMA SumIsNatural ==
  ASSUME NEW S, IsFiniteSet(S), NEW f, \A x \in S : f[x] \in Nat
  PROVE  /\ SumFunctionOnSet(f, S) \in Nat
         /\ S = {} => SumFunctionOnSet(f, S) = 0
  <1>1. S \in SUBSET S
    OBVIOUS
  <1>2. SumTable(f, S)[S] \in Nat /\ AddsUp(SumTable(f, S), f, S)
    BY <1>1, SumRecursion
  <1>3. QED
    BY <1>2, SumRecursion DEF AddsUp

\* Changing one summand changes the sum by as much; summands that stay the
\* same add up to the same.
LEMMA SumChanged ==
  ASSUME NEW S, IsFiniteSet(S),
         NEW f, \A x \in S : f[x] \in Nat,
         NEW g, \A x \in S : g[x] \in Nat,
         NEW c, \A x \in S \ {c} : g[x] = f[x]
  PROVE  SumFunctionOnSet(g, S) =
           SumFunctionOnSet(f, S) + (IF c \in S THEN g[c] - f[c] ELSE 0)
  <1> DEFINE t == SumTable(f, S)
             u == SumTable(g, S)
             A == {s \in SUBSET S : u[s] = t[s] + (IF c \in s THEN g[c] - f[c] ELSE 0)}
  <1>1. /\ t \in [SUBSET S -> Nat] /\ \A s \in SUBSET S : AddsUp(t, f, s)
        /\ u \in [SUBSET S -> Nat] /\ \A s \in SUBSET S : AddsUp(u, g, s)
        /\ SumFunctionOnSet(f, S) = t[S] /\ SumFunctionOnSet(g, S) = u[S]
    BY SumRecursion
  <1> HIDE DEF t, u
  <1>2. ASSUME NEW s \in SUBSET S,
               \A r \in SUBSET S : Cardinality(r) < Cardinality(s) => r \in A
        PROVE  s \in A
    <2>1. CASE s = {}
      <3>1. u[s] = 0 /\ t[s] = 0
        BY <1>1, <2>1 DEF AddsUp
      <3>2. c \notin s
        BY <2>1
      <3>3. QED
        BY <3>1, <3>2
    <2>2. CASE s # {}
      <3> DEFINE x == First(s)
                 r == s \ {x}
      <3>1. x \in s /\ r \in SUBSET S
        BY <2>2 DEF First
      <3>2. Cardinality(s) \in Nat /\ Cardinality(r) = Cardinality(s) - 1
        BY <3>1, FS_Subset, FS_RemoveElement, FS_CardinalityType
      <3>3. u[r] = t[r] + (IF c \in r THEN g[c] - f[c] ELSE 0)
        BY <1>2, <3>1, <3>2
      <3>4. t[s] = f[x] + t[r] /\ u[s] = g[x] + u[r]
        BY <1>1, <2>2 DEF AddsUp
      <3>5. t[r] \in Nat /\ f[x] \in Nat /\ g[x] \in Nat
        BY <1>1, <3>1
      <3> HIDE DEF x
      <3>6. QED
        BY <3>1, <3>3, <3>4, <3>5
    <2>3. QED
      BY <2>1, <2>2
  <1>3. \A s \in SUBSET S : s \in A
    <2> HIDE DEF A
    <2> QED
      BY <1>2, SubsetInduct
  <1>4. S \in A
    BY <1>3
  <1>5. QED
    BY <1>1, <1>4

\* Summands that stay the same add up to the same.
LEMMA SumSame ==
  ASSUME NEW S, IsFiniteSet(S),
         NEW f, \A x \in S : f[x] \in Nat,
         NEW g, \A x \in S : g[x] = f[x]
  PROVE  SumFunctionOnSet(g, S) = SumFunctionOnSet(f, S)
  <1>1. SumFunctionOnSet(g, S) =
          SumFunctionOnSet(f, S) + (IF S \in S THEN g[S] - f[S] ELSE 0)
    BY SumChanged
  <1>2. SumFunctionOnSet(f, S) \in Nat
    BY SumIsNatural
  <1>3. QED
    BY <1>1, <1>2

\* Nothing but zeros add up to zero.
LEMMA SumOfZeros ==
  ASSUME NEW S, IsFiniteSet(S), NEW f, \A x \in S : f[x] = 0
  PROVE  SumFunctionOnSet(f, S) = 0
  <1> DEFINE t == SumTable(f, S)
             A == {s \in SUBSET S : t[s] = 0}
  <1>1. /\ \A s \in SUBSET S : AddsUp(t, f, s)
        /\ SumFunctionOnSet(f, S) = t[S]
    <2>1. \A x \in S : f[x] \in Nat
      OBVIOUS
    <2>2. QED
      BY <2>1, SumRecursion
  <1> HIDE DEF t
  <1>2. ASSUME NEW s \in SUBSET S,
               \A r \in SUBSET S : Cardinality(r) < Cardinality(s) => r \in A
        PROVE  s \in A
    <2>1. CASE s = {}
      BY <1>1, <2>1 DEF AddsUp
    <2>2. CASE s # {}
      <3>1. First(s) \in s /\ s \ {First(s)} \in SUBSET S
        BY <2>2 DEF First
      <3>2. /\ Cardinality(s) \in Nat
            /\ Cardinality(s \ {First(s)}) = Cardinality(s) - 1
        BY <3>1, FS_Subset, FS_RemoveElement, FS_CardinalityType
      <3>3. s \ {First(s)} \in A
        BY <1>2, <3>1, <3>2
      <3>4. t[s] = f[First(s)] + t[s \ {First(s)}]
        BY <1>1, <2>2 DEF AddsUp
      <3>5. QED
        BY <3>1, <3>3, <3>4
    <2>3. QED
      BY <2>1, <2>2
  <1>3. \A s \in SUBSET S : s \in A
    <2> HIDE DEF A
    <2> QED
      BY <1>2, SubsetInduct
  <1>4. QED
    BY <1>1, <1>3

\* The order of the summands does not matter: any of them may come first.
LEMMA SumAnyOrder ==
  ASSUME NEW S, IsFiniteSet(S), NEW f, \A x \in S : f[x] \in Nat
  PROVE  \A s \in SUBSET S : \A x \in s :
           SumTable(f, S)[s] = f[x] + SumTable(f, S)[s \ {x}]
  <1> DEFINE t == SumTable(f, S)
             A == {s \in SUBSET S : \A x \in s : t[s] = f[x] + t[s \ {x}]}
  <1>1. t \in [SUBSET S -> Nat] /\ \A s \in SUBSET S : AddsUp(t, f, s)
    BY SumRecursion
  <1> HIDE DEF t
  <1>2. ASSUME NEW s \in SUBSET S,
               \A r \in SUBSET S : Cardinality(r) < Cardinality(s) => r \in A
        PROVE  s \in A
    <2> SUFFICES ASSUME NEW x \in s
                 PROVE  t[s] = f[x] + t[s \ {x}]
      OBVIOUS
    <2> DEFINE y == First(s)
               r == (s \ {x}) \ {y}
    <2>1. y \in s /\ t[s] = f[y] + t[s \ {y}]
      BY <1>1 DEF AddsUp, First
    <2> HIDE DEF y
    <2>2. CASE x = y
      BY <2>1, <2>2
    <2>3. CASE x # y
      <3>1. /\ s \ {x} \in SUBSET S /\ Cardinality(s \ {x}) < Cardinality(s)
            /\ s \ {y} \in SUBSET S /\ Cardinality(s \ {y}) < Cardinality(s)
        BY <2>1, FS_Subset, FS_RemoveElement, FS_CardinalityType
      <3>2. x \in s \ {y} /\ y \in s \ {x} /\ (s \ {y}) \ {x} = r
        BY <2>1, <2>3
      <3>3. t[s \ {y}] = f[x] + t[r] /\ t[s \ {x}] = f[y] + t[r]
        BY <1>2, <3>1, <3>2
      <3>4. t[r] \in Nat /\ f[x] \in Nat /\ f[y] \in Nat
        BY <1>1, <2>1
      <3>5. QED
        BY <2>1, <3>3, <3>4
    <2>4. QED
      BY <2>2, <2>3
  <1>3. \A s \in SUBSET S : s \in A
    <2> HIDE DEF A
    <2> QED
      BY <1>2, SubsetInduct
  <1>4. QED
    BY <1>3 DEF t

\* The sum over a subset, as the table of the whole set has it.
LEMMA SumOfPart ==
  ASSUME NEW S, IsFiniteSet(S), NEW f, \A x \in S : f[x] \in Nat,
         NEW T \in SUBSET S
  PROVE  SumFunctionOnSet(f, T) = SumTable(f, S)[T]
  <1> DEFINE t == SumTable(f, S)
             u == SumTable(f, T)
             A == {s \in SUBSET T : t[s] = u[s]}
  <1>0. IsFiniteSet(T)
    BY FS_Subset
  <1>1. /\ \A s \in SUBSET S : AddsUp(t, f, s)
        /\ \A s \in SUBSET T : AddsUp(u, f, s)
        /\ SumFunctionOnSet(f, T) = u[T]
    BY <1>0, SumRecursion
  <1> HIDE DEF t, u
  <1>2. ASSUME NEW s \in SUBSET T,
               \A r \in SUBSET T : Cardinality(r) < Cardinality(s) => r \in A
        PROVE  s \in A
    <2>1. CASE s = {}
      BY <1>1, <2>1 DEF AddsUp
    <2>2. CASE s # {}
      <3>1. First(s) \in s /\ s \ {First(s)} \in SUBSET T
        BY <2>2 DEF First
      <3>2. /\ Cardinality(s) \in Nat
            /\ Cardinality(s \ {First(s)}) = Cardinality(s) - 1
        BY <1>0, <3>1, FS_Subset, FS_RemoveElement, FS_CardinalityType
      <3>3. s \ {First(s)} \in A
        BY <1>2, <3>1, <3>2
      <3>4. /\ t[s] = f[First(s)] + t[s \ {First(s)}]
            /\ u[s] = f[First(s)] + u[s \ {First(s)}]
        BY <1>1, <2>2 DEF AddsUp
      <3>5. QED
        BY <3>3, <3>4
    <2>3. QED
      BY <2>1, <2>2
  <1>3. \A s \in SUBSET T : s \in A
    <2> HIDE DEF A
    <2> QED
      BY <1>0, <1>2, SubsetInduct
  <1>4. QED
    BY <1>1, <1>3 DEF t

\* One more summand adds its value.
LEMMA SumInsert ==
  ASSUME NEW S, IsFiniteSet(S), NEW x, x \notin S,
         NEW f, \A y \in S \cup {x} : f[y] \in Nat
  PROVE  SumFunctionOnSet(f, S \cup {x}) = SumFunctionOnSet(f, S) + f[x]
  <1> DEFINE T == S \cup {x}
  <1>1. IsFiniteSet(T) /\ S \in SUBSET T /\ T \in SUBSET T /\ x \in T /\ T \ {x} = S
    BY FS_AddElement
  <1>2. \A y \in T : f[y] \in Nat
    OBVIOUS
  <1> HIDE DEF T
  <1>3. SumFunctionOnSet(f, T) = f[x] + SumTable(f, T)[S]
    <2>1. SumFunctionOnSet(f, T) = SumTable(f, T)[T]
      BY <1>1, <1>2, SumRecursion
    <2>2. SumTable(f, T)[T] = f[x] + SumTable(f, T)[T \ {x}]
      BY <1>1, <1>2, SumAnyOrder
    <2>3. QED
      BY <1>1, <2>1, <2>2
  <1>4. SumFunctionOnSet(f, S) = SumTable(f, T)[S]
    BY <1>1, <1>2, SumOfPart
  <1>5. SumFunctionOnSet(f, S) \in Nat /\ f[x] \in Nat
    BY <1>1, <1>2, SumIsNatural
  <1>6. QED
    BY <1>3, <1>4, <1>5 DEF T
=============================================================================
