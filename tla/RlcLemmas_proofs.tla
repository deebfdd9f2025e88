-------------------------- MODULE RlcLemmas_proofs --------------------------
(***************************************************************************)
(* Lemmas the proofs about the RLC AM entities share: the arithmetic of    *)
(* sequence numbers, for every window size; sums over finite sets; finite  *)
(* sets in order; sorted lists; loops.                                     *)
(*                                                                         *)
(* SumFunctionOnSet (Functions) takes the elements of a set one after the  *)
(* other, in an order nobody knows, by a recursion over the subsets of the *)
(* set.  Instead of an induction over the subsets, each lemma supposes     *)
(* that some subset is a counterexample and takes a smallest one.          *)
(***************************************************************************)
EXTENDS RlcSn, RlcLists, SequencesExt, FiniteSetTheorems, SequenceTheorems,
        WellFoundedInduction, TLAPS

-----------------------------------------------------------------------------
(* Sequence numbers *)

\* A distance is a number below the modulus, and it is 0 only for the base.
LEMMA ModulusType ==
    ASSUME NEW base \in SN, NEW a \in SN
    PROVE  /\ Modulus(base, a) \in 0 .. SnModulus - 1
           /\ Modulus(base, a) = 0 <=> a = base
BY SnAssumption DEF SN, Modulus

\* Two SNs at the same distance are the same SN.
LEMMA ModulusInjective ==
    ASSUME NEW base \in SN, NEW a \in SN, NEW b \in SN,
           Modulus(base, a) = Modulus(base, b)
    PROVE  a = b
BY SnAssumption DEF SN, Modulus

\* (x + 1) % sn_modulus is one further, unless it is the base again.
LEMMA ModulusNext ==
    ASSUME NEW base \in SN, NEW a \in SN
    PROVE  /\ SnNext(a) \in SN
           /\ Modulus(base, SnNext(a)) =
                 IF Modulus(base, a) = SnModulus - 1 THEN 0 ELSE Modulus(base, a) + 1
BY SnAssumption DEF SN, Modulus, SnNext, SnWrap

\* (base + window_size) % sn_modulus is at the distance of a window.
LEMMA ModulusWindow ==
    ASSUME NEW base \in SN
    PROVE  /\ SnWrap(base + WindowSize) \in SN
           /\ Modulus(base, SnWrap(base + WindowSize)) = WindowSize
BY SnAssumption DEF SN, Modulus, SnWrap

\* Changing the base: distances that are at least that of the new base are
\* reduced by it, the others wrap.
LEMMA ModulusRebase ==
    ASSUME NEW base \in SN, NEW new \in SN, NEW a \in SN
    PROVE  Modulus(new, a) =
              IF Modulus(base, a) >= Modulus(base, new)
              THEN Modulus(base, a) - Modulus(base, new)
              ELSE Modulus(base, a) - Modulus(base, new) + SnModulus
BY SnAssumption DEF SN, Modulus

\* In every non-empty set of SNs, one is the closest to the base.
LEMMA ModulusMinimum ==
    ASSUME NEW base \in SN, NEW S \in SUBSET SN, S # {}
    PROVE  \E n \in S : \A m \in S : Modulus(base, n) <= Modulus(base, m)
<1> DEFINE D == {Modulus(base, n) : n \in S}
<1>1. D \subseteq Nat /\ D # {}
  BY ModulusType, SnAssumption
<1> HIDE DEF D
<1>2. \E d \in D : \A e \in D : <<e, d>> \notin OpToRel(<, Nat)
  BY <1>1, WFMin, NatLessThanWellFounded, Zenon
<1>3. PICK d \in D : \A e \in D : <<e, d>> \notin OpToRel(<, Nat)
  BY <1>2, Zenon
<1>4. \A e \in D : ~(e < d)
  BY <1>1, <1>3, Zenon DEF OpToRel
<1>5. \A e \in D : d <= e
  BY <1>1, <1>4
<1>6. PICK n \in S : d = Modulus(base, n)
  BY DEF D
<1>7. \A m \in S : Modulus(base, m) \in D
  BY DEF D
<1> QED
  BY <1>5, <1>6, <1>7

\* Counting on twice
LEMMA SnWrapTwice ==
    ASSUME NEW a \in SN, NEW c \in Nat, NEW d \in Nat, c + d <= SnModulus
    PROVE  SnWrap(SnWrap(a + c) + d) = SnWrap(a + (c + d))
BY SnAssumption DEF SN, SnWrap

\* The SN that is d SNs further on
LEMMA FurtherSn ==
    ASSUME NEW base \in SN, NEW a \in SN, NEW d \in Nat, Modulus(base, a) + d < SnModulus
    PROVE  /\ SnWrap(a + d) \in SN
           /\ Modulus(base, SnWrap(a + d)) = Modulus(base, a) + d
BY SnAssumption DEF SN, Modulus, SnWrap

\* The distance between two SNs in the order of a window
LEMMA SnDistance ==
    ASSUME NEW base \in SN, NEW a \in SN, NEW b \in SN, Modulus(base, a) <= Modulus(base, b)
    PROVE  Modulus(a, b) = Modulus(base, b) - Modulus(base, a)
BY SnAssumption DEF SN, Modulus

\* The SN before one that is not the base
LEMMA PreviousSn ==
    ASSUME NEW base \in SN, NEW a \in SN, Modulus(base, a) > 0
    PROVE  /\ SnPrev(a) \in SN
           /\ Modulus(base, SnPrev(a)) = Modulus(base, a) - 1
           /\ SnNext(SnPrev(a)) = a
BY SnAssumption DEF SN, Modulus, SnPrev, SnNext, SnWrap

\* Counting on from a multiple of N
LEMMA ModStep ==
    ASSUME NEW N \in Nat, N > 0, NEW x \in Nat, x % N = 0
    PROVE  /\ \A d \in 1 .. N - 1 : (x + d) % N # 0
           /\ (x + N) % N = 0
<1>1. ASSUME NEW y \in Nat
      PROVE  y % N \in 0 .. N - 1 /\ \E k \in Nat : y % N = y - N * k
  <2>1. y % N \in 0 .. N - 1 /\ y \div N \in Nat
    BY SMT
  <2>2. y % N = y - N * (y \div N)
    BY SMT
  <2> QED
    BY <2>1, <2>2, Zenon
<1>2. PICK k \in Nat : x % N = x - N * k
  BY <1>1
<1> DEFINE m == N * k
<1>3. m \in Nat /\ x = m
  BY <1>2
<1>4. ASSUME NEW y \in Nat, y \in x + 1 .. x + N
      PROVE  y % N = IF y = x + N THEN 0 ELSE y - x
  <2>1. PICK h \in Nat : y % N = y - N * h
    BY <1>1
  <2> DEFINE c == N * h
  <2>2. c \in Nat /\ y % N = y - c
    BY <2>1
  <2>3. y % N \in 0 .. N - 1
    BY <1>1
  <2>4. CASE h <= k - 1
    <3>1. c <= m - N
      <4>1. N * h <= N * (k - 1)
        BY <2>4
      <4>2. N * (k - 1) = m - N
        OBVIOUS
      <4> QED
        BY <4>1, <4>2
    <3> HIDE DEF c, m
    <3> QED
      BY <1>3, <1>4, <2>2, <2>3, <3>1
  <2>5. CASE h >= k + 2
    <3>1. c >= m + N + N
      <4>1. N * h >= N * (k + 2)
        BY <2>5
      <4>2. N * (k + 2) = m + N + N
        OBVIOUS
      <4> QED
        BY <4>1, <4>2
    <3> HIDE DEF c, m
    <3> QED
      BY <1>3, <1>4, <2>2, <2>3, <3>1
  <2>6. CASE h = k
    <3> HIDE DEF m
    <3>1. c = m
      BY <2>6 DEF m
    <3> HIDE DEF c
    <3> QED
      BY <1>3, <1>4, <2>2, <2>3, <3>1
  <2>7. CASE h = k + 1
    <3>1. c = m + N
      BY <2>7
    <3> HIDE DEF c, m
    <3> QED
      BY <1>3, <1>4, <2>2, <2>3, <3>1
  <2> QED
    BY <2>4, <2>5, <2>6, <2>7
<1>5. ASSUME NEW d \in 1 .. N - 1
      PROVE  (x + d) % N # 0
  <2>1. x + d \in Nat /\ x + d \in x + 1 .. x + N /\ x + d # x + N /\ (x + d) - x # 0
    OBVIOUS
  <2> QED
    BY <1>4, <2>1
<1>6. (x + N) % N = 0
  <2>1. x + N \in Nat /\ x + N \in x + 1 .. x + N
    OBVIOUS
  <2> QED
    BY <1>4, <2>1
<1> QED
  BY <1>5, <1>6

-----------------------------------------------------------------------------
(* Sums *)

\* Every non-empty set of numbers has a least one.
LEMMA LeastNumber ==
    ASSUME NEW A \in SUBSET Nat, A # {}
    PROVE  \E n \in A : \A m \in A : n <= m
<1>1. \E n \in A : \A m \in A : <<m, n>> \notin OpToRel(<, Nat)
  BY WFMin, NatLessThanWellFounded, Zenon
<1>2. PICK n \in A : \A m \in A : <<m, n>> \notin OpToRel(<, Nat)
  BY <1>1, Zenon
<1>3. \A m \in A : ~(m < n)
  BY <1>2, Zenon DEF OpToRel
<1>4. \A m \in A : n <= m
  BY <1>3
<1> QED
  BY <1>4

\* Every non-empty set of finite sets has one without a smaller one in it.
LEMMA LeastSet ==
    ASSUME NEW S, IsFiniteSet(S), NEW C \in SUBSET (SUBSET S), C # {}
    PROVE  \E s \in C : \A x \in s : s \ {x} \notin C
<1> DEFINE A == {Cardinality(s) : s \in C}
<1>1. \A s \in C : IsFiniteSet(s) /\ Cardinality(s) \in Nat
  BY FS_Subset, FS_CardinalityType
<1>2. A \in SUBSET Nat /\ A # {}
  BY <1>1
<1> HIDE DEF A
<1>3. PICK n \in A : \A m \in A : n <= m
  BY <1>2, LeastNumber
<1>4. PICK s \in C : n = Cardinality(s)
  BY DEF A
<1>5. ASSUME NEW x \in s, s \ {x} \in C
      PROVE  FALSE
  <2>1. Cardinality(s \ {x}) = Cardinality(s) - 1
    BY <1>1, <1>5, FS_RemoveElement
  <2>2. Cardinality(s \ {x}) \in A
    BY <1>5 DEF A
  <2> QED
    BY <1>1, <1>3, <1>4, <2>1, <2>2
<1> QED
  BY <1>5

-----------------------------------------------------------------------------
\* The element that comes next.
Pick(s) == CHOOSE x \in s : TRUE

\* The partial sums of f over the sets in D.
Partial(f, D, g) == g = [s \in D |-> IF s = {} THEN 0 ELSE f[Pick(s)] + g[s \ {Pick(s)}]]

Partials(f, S) == CHOOSE g : Partial(f, SUBSET S, g)

LEMMA PickIn ==
    ASSUME NEW s, s # {}
    PROVE  Pick(s) \in s
BY DEF Pick

\* SumFunctionOnSet is the last partial sum.
LEMMA SumIsLastPartial ==
    ASSUME NEW f, NEW S
    PROVE  SumFunctionOnSet(f, S) = Partials(f, S)[S]
BY DEF SumFunctionOnSet, FoldFunctionOnSet, MapThenFoldSet, Partials, Partial, Pick

\* There are partial sums: those of the sets with at most n elements give those
\* with n + 1.
LEMMA PartialsExist ==
    ASSUME NEW f, NEW S, IsFiniteSet(S)
    PROVE  Partial(f, SUBSET S, Partials(f, S))
<1> DEFINE Layer(n) == {s \in SUBSET S : Cardinality(s) <= n}
           Bad == {n \in Nat : ~\E g : Partial(f, Layer(n), g)}
<1>1. \A s \in SUBSET S : IsFiniteSet(s) /\ Cardinality(s) \in Nat /\ Cardinality(s) <= Cardinality(S)
  BY FS_Subset, FS_CardinalityType
<1>2. Bad = {}
  <2> SUFFICES ASSUME Bad # {}
               PROVE  FALSE
    OBVIOUS
  <2>1. PICK n \in Bad : \A m \in Bad : n <= m
    BY LeastNumber
  <2>2. CASE n = 0
    <3>1. \A s \in Layer(n) : s = {}
      BY <1>1, <2>2, FS_EmptySet
    <3>2. Partial(f, Layer(n), [s \in Layer(n) |-> 0])
      BY <3>1 DEF Partial
    <3> QED
      BY <3>2
  <2>3. CASE n # 0
    <3>1. n - 1 \in Nat /\ n - 1 \notin Bad
      <4>1. n \in Nat
        OBVIOUS
      <4> HIDE DEF Bad
      <4>2. n - 1 \in Nat /\ ~(n <= n - 1)
        BY <2>3, <4>1
      <4> QED
        BY <2>1, <4>2
    <3>2. PICK g : Partial(f, Layer(n - 1), g)
      BY <3>1
    <3> DEFINE h == [s \in Layer(n) |-> IF s = {} THEN 0 ELSE f[Pick(s)] + g[s \ {Pick(s)}]]
    <3>3. ASSUME NEW s \in Layer(n), s # {}
          PROVE  s \ {Pick(s)} \in Layer(n - 1) /\ s \ {Pick(s)} \in Layer(n)
      <4>1. Pick(s) \in s /\ IsFiniteSet(s)
        BY <1>1, <3>3, PickIn
      <4>2. Cardinality(s \ {Pick(s)}) = Cardinality(s) - 1
        BY <4>1, FS_RemoveElement
      <4> QED
        BY <1>1, <4>2
    <3>4. ASSUME NEW s \in Layer(n - 1)
          PROVE  h[s] = g[s]
      <4>1. s \in Layer(n)
        BY <1>1
      <4>2. g[s] = IF s = {} THEN 0 ELSE f[Pick(s)] + g[s \ {Pick(s)}]
        BY <3>2, <3>4 DEF Partial
      <4> QED
        BY <4>1, <4>2
    <3>5. \A s \in Layer(n) : h[s] = IF s = {} THEN 0 ELSE f[Pick(s)] + h[s \ {Pick(s)}]
      <4> SUFFICES ASSUME NEW s \in Layer(n)
                   PROVE  h[s] = IF s = {} THEN 0 ELSE f[Pick(s)] + h[s \ {Pick(s)}]
        OBVIOUS
      <4>1. CASE s = {}
        BY <4>1
      <4>2. CASE s # {}
        BY <3>3, <3>4, <4>2
      <4> QED
        BY <4>1, <4>2
    <3>6. h = [s \in Layer(n) |-> h[s]]
      OBVIOUS
    <3> HIDE DEF h
    <3>7. Partial(f, Layer(n), h)
      BY <3>5, <3>6 DEF Partial
    <3> QED
      BY <3>7
  <2> QED
    BY <2>2, <2>3
<1>3. Cardinality(S) \in Nat /\ Layer(Cardinality(S)) = SUBSET S
  BY <1>1
<1>4. \E g : Partial(f, SUBSET S, g)
  BY <1>2, <1>3
<1> QED
  BY <1>4 DEF Partials

\* They are the same for every set they are computed for.
LEMMA PartialsCoincide ==
    ASSUME NEW f, NEW S, IsFiniteSet(S), NEW T \in SUBSET S
    PROVE  \A s \in SUBSET T : Partials(f, T)[s] = Partials(f, S)[s]
<1> DEFINE g == Partials(f, T)
           h == Partials(f, S)
           Bad == {s \in SUBSET T : g[s] # h[s]}
<1>1. IsFiniteSet(T) /\ SUBSET T \subseteq SUBSET S
  BY FS_Subset
<1>2. \A s \in SUBSET T : g[s] = IF s = {} THEN 0 ELSE f[Pick(s)] + g[s \ {Pick(s)}]
  <2>1. Partial(f, SUBSET T, g)
    BY <1>1, PartialsExist
  <2> QED
    BY <2>1 DEF Partial
<1>3. \A s \in SUBSET T : h[s] = IF s = {} THEN 0 ELSE f[Pick(s)] + h[s \ {Pick(s)}]
  <2>1. Partial(f, SUBSET S, h)
    BY PartialsExist
  <2> QED
    BY <1>1, <2>1 DEF Partial
<1> HIDE DEF g, h
<1>4. SUFFICES ASSUME Bad # {}
               PROVE  FALSE
  BY DEF g, h
<1>5. PICK s \in Bad : \A x \in s : s \ {x} \notin Bad
  BY <1>1, <1>4, LeastSet
<1>6. s # {}
  BY <1>2, <1>3
<1>7. Pick(s) \in s /\ s \ {Pick(s)} \in SUBSET T
  BY <1>6, PickIn
<1>8. g[s \ {Pick(s)}] = h[s \ {Pick(s)}]
  BY <1>5, <1>7
<1> QED
  BY <1>2, <1>3, <1>6, <1>8

\* So a sum is its first element and the sum of the rest.
LEMMA SumStep ==
    ASSUME NEW f, NEW S, IsFiniteSet(S)
    PROVE  SumFunctionOnSet(f, S) =
              IF S = {} THEN 0 ELSE f[Pick(S)] + SumFunctionOnSet(f, S \ {Pick(S)})
<1>1. Partials(f, S)[S] = IF S = {} THEN 0 ELSE f[Pick(S)] + Partials(f, S)[S \ {Pick(S)}]
  <2>1. Partial(f, SUBSET S, Partials(f, S)) /\ S \in SUBSET S
    BY PartialsExist
  <2> DEFINE g == Partials(f, S)
  <2> HIDE DEF g
  <2>2. g[S] = IF S = {} THEN 0 ELSE f[Pick(S)] + g[S \ {Pick(S)}]
    BY <2>1 DEF Partial, g
  <2> QED
    BY <2>2 DEF g
<1>2. Partials(f, S)[S \ {Pick(S)}] = Partials(f, S \ {Pick(S)})[S \ {Pick(S)}]
  BY PartialsCoincide
<1> QED
  BY <1>1, <1>2, SumIsLastPartial

LEMMA SumEmpty == \A f : SumFunctionOnSet(f, {}) = 0
BY SumStep, FS_EmptySet

\* A sum of numbers is a number.
LEMMA SumType ==
    ASSUME NEW f, NEW S, IsFiniteSet(S), \A x \in S : f[x] \in Nat
    PROVE  SumFunctionOnSet(f, S) \in Nat
<1> DEFINE Bad == {s \in SUBSET S : SumFunctionOnSet(f, s) \notin Nat}
<1>1. SUFFICES ASSUME Bad # {}
               PROVE  FALSE
  OBVIOUS
<1>2. PICK s \in Bad : \A x \in s : s \ {x} \notin Bad
  BY <1>1, LeastSet
<1>3. IsFiniteSet(s)
  BY FS_Subset
<1>4. s # {}
  BY SumEmpty
<1>5. Pick(s) \in s /\ s \ {Pick(s)} \in SUBSET S /\ f[Pick(s)] \in Nat
  BY <1>4, PickIn
<1>6. SumFunctionOnSet(f, s \ {Pick(s)}) \in Nat
  BY <1>2, <1>5
<1>7. SumFunctionOnSet(f, s) = f[Pick(s)] + SumFunctionOnSet(f, s \ {Pick(s)})
  BY <1>3, <1>4, SumStep
<1> QED
  BY <1>5, <1>6, <1>7

\* Any element may be the first.
LEMMA SumRemove ==
    ASSUME NEW f, NEW S, IsFiniteSet(S), \A x \in S : f[x] \in Nat, NEW y \in S
    PROVE  SumFunctionOnSet(f, S) = f[y] + SumFunctionOnSet(f, S \ {y})
<1> DEFINE Sum(s) == SumFunctionOnSet(f, s)
           Bad == {s \in SUBSET S : \E x \in s : Sum(s) # f[x] + Sum(s \ {x})}
<1>1. SUFFICES ASSUME Bad # {}
               PROVE  FALSE
  OBVIOUS
<1>2. PICK s \in Bad : \A x \in s : s \ {x} \notin Bad
  BY <1>1, LeastSet
<1>3. PICK x \in s : Sum(s) # f[x] + Sum(s \ {x})
  OBVIOUS
<1>4. \A t \in SUBSET s : IsFiniteSet(t) /\ Sum(t) \in Nat
  <2> SUFFICES ASSUME NEW t \in SUBSET s
               PROVE  IsFiniteSet(t) /\ Sum(t) \in Nat
    OBVIOUS
  <2>1. IsFiniteSet(t)
    BY FS_Subset
  <2> QED
    BY <2>1, SumType
<1> DEFINE p == Pick(s)
<1>5. p \in s /\ f[p] \in Nat /\ f[x] \in Nat
  BY PickIn
<1>6. IsFiniteSet(s) /\ s # {}
  BY <1>4
<1>7. Sum(s) = f[p] + Sum(s \ {p})
  BY <1>6, SumStep
<1>8. p # x
  BY <1>3, <1>7
<1>9. s \ {p} \notin Bad /\ s \ {x} \notin Bad
  BY <1>2, <1>5
<1> HIDE DEF p, Sum
<1>10. Sum(s \ {p}) = f[x] + Sum((s \ {p}) \ {x})
  BY <1>5, <1>8, <1>9
<1>11. Sum(s \ {x}) = f[p] + Sum((s \ {x}) \ {p})
  BY <1>5, <1>8, <1>9
<1>12. (s \ {p}) \ {x} = (s \ {x}) \ {p}
  OBVIOUS
<1>13. Sum((s \ {x}) \ {p}) \in Nat
  BY <1>4
<1>14. Sum(s) = f[p] + (f[x] + Sum((s \ {x}) \ {p}))
  BY <1>7, <1>10, <1>12
<1>15. Sum(s) = f[x] + Sum(s \ {x})
  BY <1>5, <1>11, <1>13, <1>14
<1> QED
  BY <1>3, <1>15

LEMMA SumAdd ==
    ASSUME NEW f, NEW S, IsFiniteSet(S), NEW y, y \notin S,
           \A x \in S \cup {y} : f[x] \in Nat
    PROVE  SumFunctionOnSet(f, S \cup {y}) = f[y] + SumFunctionOnSet(f, S)
<1>1. IsFiniteSet(S \cup {y}) /\ (S \cup {y}) \ {y} = S
  BY FS_AddElement
<1> QED
  BY <1>1, SumRemove

\* Sums depend on the values at the elements only.
LEMMA SumSame ==
    ASSUME NEW f, NEW g, NEW S, IsFiniteSet(S), \A x \in S : f[x] = g[x]
    PROVE  SumFunctionOnSet(f, S) = SumFunctionOnSet(g, S)
<1> DEFINE Bad == {s \in SUBSET S : SumFunctionOnSet(f, s) # SumFunctionOnSet(g, s)}
<1>1. SUFFICES ASSUME Bad # {}
               PROVE  FALSE
  OBVIOUS
<1>2. PICK s \in Bad : \A x \in s : s \ {x} \notin Bad
  BY <1>1, LeastSet
<1>3. IsFiniteSet(s)
  BY FS_Subset
<1>4. s # {}
  BY SumEmpty
<1>5. Pick(s) \in s /\ s \ {Pick(s)} \in SUBSET S /\ f[Pick(s)] = g[Pick(s)]
  BY <1>4, PickIn
<1>6. SumFunctionOnSet(f, s \ {Pick(s)}) = SumFunctionOnSet(g, s \ {Pick(s)})
  BY <1>2, <1>5
<1>7. /\ SumFunctionOnSet(f, s) = f[Pick(s)] + SumFunctionOnSet(f, s \ {Pick(s)})
      /\ SumFunctionOnSet(g, s) = g[Pick(s)] + SumFunctionOnSet(g, s \ {Pick(s)})
  BY <1>3, <1>4, SumStep
<1> QED
  BY <1>5, <1>6, <1>7

\* The sum over a set is that over a part and that over the rest.
LEMMA SumSplit ==
    ASSUME NEW f, NEW S, IsFiniteSet(S), \A x \in S : f[x] \in Nat, NEW T \in SUBSET S
    PROVE  /\ SumFunctionOnSet(f, T) \in Nat
           /\ SumFunctionOnSet(f, S \ T) \in Nat
           /\ SumFunctionOnSet(f, S) = SumFunctionOnSet(f, T) + SumFunctionOnSet(f, S \ T)
<1> DEFINE Sum(s) == SumFunctionOnSet(f, s)
           Bad == {t \in SUBSET T : Sum(S) # Sum(t) + Sum(S \ t)}
<1>1. \A t \in SUBSET S : IsFiniteSet(t) /\ Sum(t) \in Nat
  <2> SUFFICES ASSUME NEW t \in SUBSET S
               PROVE  IsFiniteSet(t) /\ Sum(t) \in Nat
    OBVIOUS
  <2>1. IsFiniteSet(t)
    BY FS_Subset
  <2> QED
    BY <2>1, SumType
<1>2. SUFFICES ASSUME Bad # {}
               PROVE  FALSE
  BY <1>1
<1>3. IsFiniteSet(T)
  BY <1>1
<1>4. PICK t \in Bad : \A x \in t : t \ {x} \notin Bad
  BY <1>2, <1>3, LeastSet
<1>5. t # {}
  <2>1. Sum({}) = 0 /\ S \ {} = S /\ Sum(S) \in Nat
    BY <1>1, SumEmpty
  <2> QED
    BY <2>1
<1>6. PICK x \in t : TRUE
  BY <1>5
<1>7. Sum(S) = Sum(t \ {x}) + Sum(S \ (t \ {x}))
  BY <1>4
<1>8. Sum(t) = f[x] + Sum(t \ {x})
  BY <1>1, SumRemove
<1>9. Sum(S \ (t \ {x})) = f[x] + Sum(S \ t)
  <2>1. S \ (t \ {x}) = (S \ t) \cup {x} /\ x \notin S \ t
    OBVIOUS
  <2> QED
    BY <1>1, <2>1, SumAdd
<1>10. f[x] \in Nat /\ Sum(t \ {x}) \in Nat /\ Sum(S \ t) \in Nat
  BY <1>1
<1> QED
  BY <1>7, <1>8, <1>9, <1>10

-----------------------------------------------------------------------------
(* Finite sets in order *)

\* In a finite set with a total order, given by what lies below each element,
\* an element with k others below it exists for each k, and the more an
\* element has below it the higher it is.
LEMMA Ranks ==
    ASSUME NEW S, IsFiniteSet(S), NEW below \in [S -> SUBSET S],
           \A x \in S : x \notin below[x],
           \A x, y \in S : y \in below[x] => below[y] \subseteq below[x],
           \A x, y \in S : x = y \/ x \in below[y] \/ y \in below[x]
    PROVE  /\ \A x \in S : Cardinality(below[x]) \in 0 .. Cardinality(S) - 1
           /\ \A x, y \in S : x \in below[y] <=> Cardinality(below[x]) < Cardinality(below[y])
           /\ \A k \in 1 .. Cardinality(S) : \E x \in S : Cardinality(below[x]) = k - 1
<1> DEFINE n == Cardinality(S)
           rank == [x \in S |-> Cardinality(below[x])]
<1>1. n \in Nat
  BY FS_CardinalityType
<1>2. \A x \in S : IsFiniteSet(below[x]) /\ rank[x] \in Nat
  BY FS_Subset, FS_CardinalityType
<1>3. ASSUME NEW x \in S
      PROVE  rank[x] <= n - 1
  <2>1. below[x] \subseteq S \ {x}
    OBVIOUS
  <2>2. IsFiniteSet(S \ {x}) /\ Cardinality(S \ {x}) = n - 1
    BY FS_RemoveElement
  <2> QED
    BY <2>1, <2>2, FS_Subset
<1>4. ASSUME NEW x \in S, NEW y \in S, x \in below[y]
      PROVE  rank[x] < rank[y]
  <2>1. below[x] \subseteq below[y] /\ below[x] # below[y]
    BY <1>4
  <2>2. Cardinality(below[x]) <= Cardinality(below[y])
    BY <1>2, <2>1, FS_Subset
  <2>3. Cardinality(below[x]) # Cardinality(below[y])
    BY <1>2, <2>1, FS_Subset
  <2> QED
    BY <1>2, <2>2, <2>3
<1>5. ASSUME NEW x \in S, NEW y \in S
      PROVE  x \in below[y] <=> rank[x] < rank[y]
  <2>1. x = y \/ x \in below[y] \/ y \in below[x]
    OBVIOUS
  <2> QED
    BY <1>2, <1>4, <2>1
<1>6. ASSUME NEW k \in 1 .. n
      PROVE  \E x \in S : rank[x] = k - 1
  <2> SUFFICES ASSUME \A x \in S : rank[x] # k - 1
               PROVE  FALSE
    OBVIOUS
  <2> DEFINE T == (0 .. n - 1) \ {k - 1}
  <2>1. IsFiniteSet(T) /\ Cardinality(T) = n - 1
    <3> HIDE DEF n
    <3>1. 0 \in Int /\ n - 1 \in Int
      BY <1>1
    <3>2. IsFiniteSet(0 .. n - 1) /\ Cardinality(0 .. n - 1) = IF 0 > n - 1 THEN 0 ELSE n - 1 - 0 + 1
      BY <3>1, FS_Interval
    <3>3. Cardinality(0 .. n - 1) = n
      BY <1>1, <3>2
    <3>4. k - 1 \in 0 .. n - 1
      BY <1>1
    <3> DEFINE I == 0 .. n - 1
    <3>5. IsFiniteSet(I) /\ Cardinality(I) = n /\ k - 1 \in I
      BY <3>2, <3>3, <3>4
    <3> HIDE DEF I
    <3>6. IsFiniteSet(I \ {k - 1}) /\ Cardinality(I \ {k - 1}) = n - 1
      BY <3>5, FS_RemoveElement
    <3> QED
      BY <3>6 DEF I
  <2>2. rank \in [S -> T]
    BY <1>1, <1>2, <1>3
  <2>3. \A x, y \in S : rank[x] = rank[y] => x = y
    BY <1>2, <1>4
  <2> HIDE DEF T, rank
  <2>4. \E x, y \in S : x # y /\ rank[x] = rank[y]
    <3>1. Cardinality(S) > Cardinality(T)
      BY <1>1, <2>1
    <3> QED
      BY <2>1, <2>2, <3>1, FS_PigeonHole
  <2> QED
    BY <2>3, <2>4
<1> QED
  BY <1>1, <1>2, <1>3, <1>5, <1>6


\* A list of S by rank has every element of S, in order.
IsRanking(S, below, n, q) ==
    /\ IsFiniteSet(S) /\ n = Cardinality(S)
    /\ below \in [S -> SUBSET S]
    /\ \A x \in S : x \notin below[x]
    /\ \A x, y \in S : y \in below[x] => below[y] \subseteq below[x]
    /\ \A x, y \in S : x = y \/ x \in below[y] \/ y \in below[x]
    /\ \A k \in 1 .. n : (\E x \in S : Cardinality(below[x]) = k - 1) =>
                              q[k] \in S /\ Cardinality(below[q[k]]) = k - 1

LEMMA RankedList ==
    ASSUME NEW S, NEW below, NEW n, NEW q, IsRanking(S, below, n, q)
    PROVE  /\ n \in Nat
           /\ \A k \in 1 .. n : q[k] \in S
           /\ \A x \in S : \E i \in 1 .. n : q[i] = x
           /\ \A i, j \in 1 .. n : i < j => q[i] \in below[q[j]]
<1>1. n \in Nat
  BY FS_CardinalityType DEF IsRanking
<1>2. /\ \A x \in S : Cardinality(below[x]) \in 0 .. n - 1
      /\ \A x, y \in S : x \in below[y] <=> Cardinality(below[x]) < Cardinality(below[y])
      /\ \A k \in 1 .. n : \E x \in S : Cardinality(below[x]) = k - 1
  BY Ranks DEF IsRanking
<1>3. ASSUME NEW k \in 1 .. n
      PROVE  q[k] \in S /\ Cardinality(below[q[k]]) = k - 1
  BY <1>2 DEF IsRanking
<1>4. ASSUME NEW x \in S
      PROVE  \E i \in 1 .. n : q[i] = x
  <2> DEFINE i == Cardinality(below[x]) + 1
  <2>1. i \in 1 .. n
    BY <1>1, <1>2
  <2>2. Cardinality(below[x]) \in Int
    BY <1>2
  <2>3. i - 1 = Cardinality(below[x])
    BY <2>2
  <2> HIDE DEF i
  <2>4. q[i] \in S /\ Cardinality(below[q[i]]) = Cardinality(below[x])
    BY <1>3, <2>1, <2>3
  <2>5. x \notin below[q[i]] /\ q[i] \notin below[x]
    BY <1>2, <2>2, <2>4
  <2> QED
    BY <2>1, <2>4, <2>5 DEF IsRanking
<1>5. ASSUME NEW i \in 1 .. n, NEW j \in 1 .. n, i < j
      PROVE  q[i] \in below[q[j]]
  BY <1>2, <1>3, <1>5
<1> QED
  BY <1>1, <1>3, <1>4, <1>5

LEMMA MinOfNumbers ==
    ASSUME NEW A \in SUBSET Nat, A # {}
    PROVE  Min(A) \in A /\ \A m \in A : Min(A) <= m
<1>1. \E n \in A : \A m \in A : n <= m
  BY LeastNumber
<1> QED
  BY <1>1 DEF Min

LEMMA MaxOfNumbers ==
    ASSUME NEW A \in SUBSET Nat, A # {}, NEW n \in Nat, \A m \in A : m <= n
    PROVE  Max(A) \in A /\ \A m \in A : m <= Max(A)
<1> DEFINE B == {n - m : m \in A}
<1>1. B \in SUBSET Nat /\ B # {}
  <2>1. \A m \in A : n - m \in Nat
    OBVIOUS
  <2> QED
    BY <2>1
<1> HIDE DEF B
<1>2. PICK b \in B : \A c \in B : b <= c
  BY <1>1, LeastNumber
<1>3. PICK a \in A : b = n - a
  BY <1>2 DEF B
<1>4. \A m \in A : n - m \in B
  BY DEF B
<1>5. \A m \in A : m <= a
  BY <1>2, <1>3, <1>4
<1> QED
  BY <1>5 DEF Max

\* A finite set of numbers is bounded.
LEMMA FiniteSetBounded ==
    ASSUME NEW A \in SUBSET Nat, IsFiniteSet(A)
    PROVE  \E n \in Nat : \A m \in A : m <= n
<1> DEFINE Bounded(T) == \E n \in Nat : \A m \in T : m <= n
           Bad == {T \in SUBSET A : ~Bounded(T)}
<1>1. SUFFICES ASSUME Bad # {}
               PROVE  FALSE
  OBVIOUS
<1>2. PICK T \in Bad : \A x \in T : T \ {x} \notin Bad
  BY <1>1, LeastSet
<1>3. T # {}
  OBVIOUS
<1>4. PICK x \in T : TRUE
  BY <1>3
<1>5. x \in Nat /\ T \ {x} \in SUBSET A
  BY <1>4
<1>6. PICK n \in Nat : \A m \in T \ {x} : m <= n
  BY <1>2, <1>4, <1>5
<1>7. \A m \in T : m <= (IF n >= x THEN n ELSE x)
  BY <1>2, <1>5, <1>6
<1> QED
  BY <1>2, <1>5, <1>7

\* A set of numbers, listed in their order
LEMMA NumbersInOrder ==
    ASSUME NEW S \in SUBSET Nat, IsFiniteSet(S)
    PROVE  LET q == InOrder(S, <)
               n == Cardinality(S)
           IN /\ n \in Nat
              /\ q \in [1 .. n -> S]
              /\ \A x \in S : \E i \in 1 .. n : q[i] = x
              /\ \A i, j \in 1 .. n : i < j => q[i] < q[j]
<1> DEFINE q == InOrder(S, <)
           n == Cardinality(S)
           below == [x \in S |-> {y \in S : y < x}]
<1>1. n \in Nat
  BY FS_CardinalityType
<1>2. /\ \A x \in S : x \notin below[x]
      /\ \A x, y \in S : x = y \/ x \in below[y] \/ y \in below[x]
  OBVIOUS
<1>3. \A x, y \in S : y \in below[x] => below[y] \subseteq below[x]
  <2>1. ASSUME NEW x \in S, NEW y \in S, NEW z \in S, y < x, z < y
        PROVE  z < x
    BY <2>1
  <2> QED
    BY <2>1, Zenon
<1>4. below \in [S -> SUBSET S]
  OBVIOUS
<1>5. q = [k \in 1 .. n |-> CHOOSE x \in S : Cardinality({y \in S : y < x}) = k - 1]
  BY DEF InOrder
<1> HIDE DEF q, n
<1>6. ASSUME NEW k \in 1 .. n, \E x \in S : Cardinality(below[x]) = k - 1
      PROVE  q[k] \in S /\ Cardinality(below[q[k]]) = k - 1
  <2>1. \E x \in S : Cardinality({y \in S : y < x}) = k - 1
    BY <1>6
  <2>2. q[k] = CHOOSE x \in S : Cardinality({y \in S : y < x}) = k - 1
    BY <1>5
  <2> QED
    BY <2>1, <2>2
<1> HIDE DEF below
<1>7. \A k \in 1 .. n : (\E x \in S : Cardinality(below[x]) = k - 1) =>
                          q[k] \in S /\ Cardinality(below[q[k]]) = k - 1
  BY <1>6
<1>8. IsRanking(S, below, n, q)
  BY <1>2, <1>3, <1>4, <1>7 DEF IsRanking, n
<1>9. /\ \A k \in 1 .. n : q[k] \in S
      /\ \A x \in S : \E i \in 1 .. n : q[i] = x
      /\ \A i, j \in 1 .. n : i < j => q[i] \in below[q[j]]
  BY <1>8, RankedList
<1>10. \A i, j \in 1 .. n : i < j => q[i] < q[j]
  BY <1>9 DEF below
<1> QED
  BY <1>1, <1>5, <1>9, <1>10 DEF q, n

LEMMA SeqLen ==
    ASSUME NEW n \in Nat, NEW S, NEW q \in [1 .. n -> S]
    PROVE  q \in Seq(S) /\ Len(q) = n /\ DOMAIN q = 1 .. n
OBVIOUS

-----------------------------------------------------------------------------
(* Lists *)

LEMMA RangeIs ==
    ASSUME NEW S, NEW list \in Seq(S)
    PROVE  /\ DOMAIN list = 1 .. Len(list) /\ Len(list) \in Nat
           /\ Range(list) = {list[i] : i \in 1 .. Len(list)}
           /\ Range(list) \subseteq S
           /\ IsFiniteSet(DOMAIN list)
           /\ Range(list) = {} <=> list = <<>>
<1>1. DOMAIN list = 1 .. Len(list) /\ Len(list) \in Nat
  BY LenProperties
<1>2. Range(list) = {list[i] : i \in 1 .. Len(list)}
  BY <1>1 DEF Range
<1>3. Range(list) \subseteq S
  BY <1>2, ElementOfSeq
<1>4. Range(list) = {} <=> list = <<>>
  <2>1. list = <<>> => Len(list) = 0
    BY EmptySeq
  <2>2. ASSUME list # <<>>
        PROVE  Len(list) \in Nat \ {0}
    BY <2>2, EmptySeq
  <2>3. list # <<>> => 1 \in 1 .. Len(list)
    BY <2>2
  <2> QED
    BY <1>2, <2>1, <2>3
<1>5. IsFiniteSet(1 .. Len(list))
  <2>1. 1 \in Int /\ Len(list) \in Int
    BY <1>1
  <2> QED
    BY <2>1, FS_Interval
<1> QED
  BY <1>1, <1>2, <1>3, <1>4, <1>5

\* The entries at some positions, in their order
LEMMA EntriesAre ==
    ASSUME NEW S, NEW list \in Seq(S), NEW I \in SUBSET DOMAIN list
    PROVE  LET n == Cardinality(I)
           IN /\ n \in Nat
              /\ Entries(list, I) \in Seq(S) /\ Len(Entries(list, I)) = n
              /\ \E q \in [1 .. n -> I] :
                    /\ \A i \in I : \E k \in 1 .. n : q[k] = i
                    /\ \A j, k \in 1 .. n : j < k => q[j] < q[k]
                    /\ Entries(list, I) = [k \in 1 .. n |-> list[q[k]]]
<1> DEFINE n == Cardinality(I)
<1>1. I \in SUBSET Nat /\ IsFiniteSet(I) /\ DOMAIN list = 1 .. Len(list)
  BY RangeIs, FS_Subset
<1>2. PICK q : q = InOrder(I, <)
  BY Zenon
<1>3. /\ n \in Nat /\ q \in [1 .. n -> I]
      /\ \A i \in I : \E k \in 1 .. n : q[k] = i
      /\ \A j, k \in 1 .. n : j < k => q[j] < q[k]
  BY <1>1, <1>2, NumbersInOrder
<1>4. Entries(list, I) = [k \in DOMAIN q |-> list[q[k]]]
  BY <1>2, Zenon DEF Entries
<1>5. Entries(list, I) = [k \in 1 .. n |-> list[q[k]]]
  BY <1>3, <1>4
<1>6. \A k \in 1 .. n : list[q[k]] \in S
  BY <1>1, <1>3, ElementOfSeq
<1>7. Entries(list, I) \in [1 .. n -> S]
  BY <1>5, <1>6
<1>8. Entries(list, I) \in Seq(S) /\ Len(Entries(list, I)) = n
  BY <1>3, <1>7, SeqLen
<1> QED
  BY <1>3, <1>5, <1>8

LEMMA InsertAtIs ==
    ASSUME NEW S, NEW s \in Seq(S), NEW e \in S, NEW i \in 1 .. Len(s)
    PROVE  /\ InsertAt(s, i, e) \in Seq(S)
           /\ Len(InsertAt(s, i, e)) = Len(s) + 1
           /\ \A k \in 1 .. Len(s) + 1 :
                 InsertAt(s, i, e)[k] = IF k < i THEN s[k] ELSE IF k = i THEN e ELSE s[k - 1]
<1> DEFINE t == [k \in 1 .. Len(s) + 1 |-> IF k < i THEN s[k] ELSE IF k = i THEN e ELSE s[k - 1]]
<1>1. InsertAt(s, i, e) = t
  BY DEF InsertAt
<1>2. t \in [1 .. Len(s) + 1 -> S]
  OBVIOUS
<1>3. Len(s) + 1 \in Nat
  OBVIOUS
<1> HIDE DEF t
<1>4. t \in Seq(S) /\ Len(t) = Len(s) + 1
  BY <1>2, <1>3, SeqLen
<1> QED
  BY <1>1, <1>4 DEF t

LEMMA RemoveAtIs ==
    ASSUME NEW S, NEW s \in Seq(S), NEW i \in 1 .. Len(s)
    PROVE  /\ RemoveAt(s, i) \in Seq(S)
           /\ Len(RemoveAt(s, i)) = Len(s) - 1
           /\ \A k \in 1 .. Len(s) - 1 : RemoveAt(s, i)[k] = IF k < i THEN s[k] ELSE s[k + 1]
<1> DEFINE a == SubSeq(s, 1, i - 1)
           b == SubSeq(s, i + 1, Len(s))
<1>1. Len(s) \in Nat /\ i \in Nat /\ 1 <= i /\ i <= Len(s)
  BY LenProperties
<1>2. /\ a \in Seq(S) /\ Len(a) = i - 1
      /\ \A k \in 1 .. i - 1 : a[k] = s[k]
  <2>1. \A k \in 1 .. i - 1 : s[k] \in S
    BY <1>1, ElementOfSeq
  <2>2. i - 1 \in Int
    BY <1>1
  <2> QED
    BY <1>1, <2>1, <2>2, SubSeqProperties
<1>3. /\ b \in Seq(S) /\ Len(b) = Len(s) - i
      /\ \A k \in 1 .. Len(s) - i : b[k] = s[i + k]
  <2>1. \A k \in i + 1 .. Len(s) : s[k] \in S
    BY <1>1, ElementOfSeq
  <2>2. i + 1 \in Int /\ Len(s) \in Int
    BY <1>1
  <2>3. /\ b \in Seq(S) /\ Len(b) = IF i + 1 <= Len(s) THEN Len(s) - (i + 1) + 1 ELSE 0
        /\ \A k \in 1 .. Len(s) - (i + 1) + 1 : b[k] = s[(i + 1) + k - 1]
    BY <2>1, <2>2, SubSeqProperties
  <2> QED
    BY <1>1, <2>3
<1>4. RemoveAt(s, i) = a \o b
  BY DEF RemoveAt
<1> HIDE DEF a, b
<1>5. /\ a \o b \in Seq(S) /\ Len(a \o b) = Len(a) + Len(b)
      /\ \A k \in 1 .. Len(a) + Len(b) : (a \o b)[k] = IF k <= Len(a) THEN a[k] ELSE b[k - Len(a)]
  BY <1>2, <1>3, ConcatProperties
<1> QED
  BY <1>1, <1>2, <1>3, <1>4, <1>5

\* A sum does not depend on how the elements are called.
LEMMA SumImage ==
    ASSUME NEW S, IsFiniteSet(S), NEW h, NEW f, NEW g,
           \A x, y \in S : h[x] = h[y] => x = y,
           \A x \in S : g[x] = f[h[x]] /\ g[x] \in Nat
    PROVE  /\ IsFiniteSet({h[x] : x \in S})
           /\ SumFunctionOnSet(g, S) = SumFunctionOnSet(f, {h[x] : x \in S})
<1> DEFINE Image(s) == {h[x] : x \in s}
           Same(s) == IsFiniteSet(Image(s)) /\ SumFunctionOnSet(g, s) = SumFunctionOnSet(f, Image(s))
           Bad == {s \in SUBSET S : ~Same(s)}
<1>1. SUFFICES ASSUME Bad # {}
               PROVE  FALSE
  OBVIOUS
<1>2. PICK s \in Bad : \A x \in s : s \ {x} \notin Bad
  BY <1>1, LeastSet
<1>3. s # {}
  <2>1. Image({}) = {}
    OBVIOUS
  <2>2. Same({})
    BY <2>1, SumEmpty, FS_EmptySet
  <2> QED
    BY <2>2
<1>4. PICK x \in s : TRUE
  BY <1>3
<1>5. Same(s \ {x}) /\ IsFiniteSet(s \ {x}) /\ s = (s \ {x}) \cup {x} /\ x \in S
  <2>1. s \ {x} \in SUBSET S
    OBVIOUS
  <2> QED
    BY <1>2, <2>1, FS_Subset
<1>6. Image(s) = Image(s \ {x}) \cup {h[x]} /\ h[x] \notin Image(s \ {x})
  BY <1>5
<1>7. \A y \in Image(s \ {x}) \cup {h[x]} : f[y] \in Nat
  <2>1. \A z \in s : f[h[z]] \in Nat
    OBVIOUS
  <2> QED
    BY <2>1, <1>5
<1> HIDE DEF Image
<1>8. SumFunctionOnSet(f, Image(s \ {x}) \cup {h[x]}) = f[h[x]] + SumFunctionOnSet(f, Image(s \ {x}))
  BY <1>5, <1>6, <1>7, SumAdd
<1>9. SumFunctionOnSet(g, (s \ {x}) \cup {x}) = g[x] + SumFunctionOnSet(g, s \ {x})
  <2>1. \A y \in (s \ {x}) \cup {x} : g[y] \in Nat
    OBVIOUS
  <2> QED
    BY <1>5, <2>1, SumAdd
<1>10. IsFiniteSet(Image(s))
  <2> DEFINE T == Image(s \ {x})
  <2>1. IsFiniteSet(T)
    BY <1>5
  <2> HIDE DEF T
  <2>2. IsFiniteSet(T \cup {h[x]})
    BY <2>1, FS_AddElement
  <2> QED
    BY <1>6, <2>2 DEF T
<1>11. Same(s)
  BY <1>5, <1>6, <1>8, <1>9, <1>10
<1> QED
  BY <1>2, <1>11

\* One more element at the end
LEMMA AppendNext ==
    ASSUME NEW f, NEW k \in Nat
    PROVE  Append([x \in 1 .. k |-> f[x]], f[k + 1]) = [x \in 1 .. k + 1 |-> f[x]]
<1> DEFINE S == {f[x] : x \in 1 .. k + 1}
           s == [x \in 1 .. k |-> f[x]]
<1>1. s \in [1 .. k -> S] /\ f[k + 1] \in S
  OBVIOUS
<1>2. s \in Seq(S) /\ Len(s) = k /\ DOMAIN s = 1 .. k
  BY <1>1, SeqLen
<1> HIDE DEF S
<1>3. /\ Append(s, f[k + 1]) \in Seq(S) /\ Len(Append(s, f[k + 1])) = k + 1
      /\ \A x \in 1 .. k : Append(s, f[k + 1])[x] = s[x]
      /\ Append(s, f[k + 1])[k + 1] = f[k + 1]
  <2> HIDE DEF s
  <2> QED
    BY <1>1, <1>2, AppendProperties
<1>4. DOMAIN Append(s, f[k + 1]) = 1 .. k + 1
  <2> HIDE DEF s
  <2> QED
    BY <1>3, RangeIs
<1>5. \A x \in 1 .. k + 1 : Append(s, f[k + 1])[x] = f[x]
  BY <1>3
<1>6. Append(s, f[k + 1]) = [x \in 1 .. k + 1 |-> Append(s, f[k + 1])[x]]
  <2> HIDE DEF s
  <2>1. \E r : r = Append(s, f[k + 1])
    OBVIOUS
  <2>2. PICK r : r = Append(s, f[k + 1])
    BY <2>1
  <2>3. r \in [1 .. k + 1 -> S]
    <3>1. r \in Seq(S) /\ Len(r) = k + 1
      BY <1>3, <2>2
    <3> QED
      BY <3>1
  <2>4. r = [x \in 1 .. k + 1 |-> r[x]]
    BY <2>3
  <2> QED
    BY <2>2, <2>4
<1> QED
  BY <1>5, <1>6

-----------------------------------------------------------------------------
(* Loops *)

\* A set of positions that has 0, and with each the next, has all of them.
LEMMA AllPositions ==
    ASSUME NEW n \in Nat, NEW P, 0 \in P,
           \A i \in 1 .. n : i - 1 \in P => i \in P
    PROVE  \A i \in 0 .. n : i \in P
<1> DEFINE Bad == {i \in 0 .. n : i \notin P}
<1>1. SUFFICES ASSUME Bad # {}
               PROVE  FALSE
  OBVIOUS
<1>2. Bad \in SUBSET Nat
  OBVIOUS
<1>3. PICK i \in Bad : \A m \in Bad : i <= m
  BY <1>1, <1>2, LeastNumber
<1>4. i \in 0 .. n /\ i \notin P /\ i # 0
  OBVIOUS
<1>5. i \in 1 .. n /\ i - 1 \in 0 .. n /\ ~(i <= i - 1)
  BY <1>4
<1>6. i - 1 \notin Bad
  BY <1>3, <1>5
<1> QED
  BY <1>4, <1>5, <1>6

\* A loop of n steps on S, and the values that its variables take
IsLoop(n, S, init, step) ==
    /\ n \in Nat
    /\ init \in S
    /\ step \in [1 .. n -> [S -> S]]

Runs(w, n, S, init, step) ==
    /\ w \in [0 .. n -> S]
    /\ w[0] = init
    /\ \A i \in 1 .. n : w[i] = step[i][w[i - 1]]

\* A loop has such values.
LEMMA LoopValues ==
    ASSUME NEW n, NEW S, NEW init, NEW step, IsLoop(n, S, init, step)
    PROVE  \E w : Runs(w, n, S, init, step)
<1> DEFINE P == {k \in 0 .. n : \E w : Runs(w, k, S, init, step)}
<1> USE DEF IsLoop
<1>1. 0 \in P
  <2>1. Runs([i \in 0 .. 0 |-> init], 0, S, init, step)
    BY DEF Runs
  <2>2. 0 \in 0 .. n
    OBVIOUS
  <2> QED
    BY <2>1, <2>2
<1>2. ASSUME NEW k \in 1 .. n, k - 1 \in P
      PROVE  k \in P
  <2>1. PICK w : Runs(w, k - 1, S, init, step)
    BY <1>2
  <2>2. /\ w \in [0 .. k - 1 -> S] /\ w[0] = init
        /\ \A i \in 1 .. k - 1 : w[i] = step[i][w[i - 1]]
    BY <2>1 DEF Runs
  <2> DEFINE v == [i \in 0 .. k |-> IF i = k THEN step[k][w[k - 1]] ELSE w[i]]
  <2>3. \A i \in 0 .. k : i = k \/ i \in 0 .. k - 1
    OBVIOUS
  <2>4. w[k - 1] \in S /\ step[k][w[k - 1]] \in S
    BY <2>2
  <2>5. v \in [0 .. k -> S]
    BY <2>2, <2>3, <2>4
  <2>6. v[0] = init
    BY <2>2
  <2>7. ASSUME NEW i \in 1 .. k
        PROVE  v[i] = step[i][v[i - 1]]
    <3>1. v[i - 1] = w[i - 1]
      OBVIOUS
    <3>2. CASE i = k
      BY <3>1, <3>2
    <3>3. CASE i # k
      <4>1. i \in 1 .. k - 1 /\ v[i] = w[i]
        BY <3>3
      <4> QED
        BY <2>2, <3>1, <4>1
    <3> QED
      BY <3>2, <3>3
  <2> HIDE DEF v
  <2>8. Runs(v, k, S, init, step) /\ k \in 0 .. n
    BY <2>5, <2>6, <2>7 DEF Runs
  <2> QED
    BY <2>8
<1>3. n \in P
  <2>1. \A i \in 1 .. n : i - 1 \in P => i \in P
    BY <1>2
  <2> HIDE DEF P
  <2>2. \A i \in 0 .. n : i \in P
    BY <1>1, <2>1, AllPositions
  <2> QED
    BY <2>2
<1> QED
  BY <1>3
=============================================================================
