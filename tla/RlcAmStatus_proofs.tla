------------------------- MODULE RlcAmStatus_proofs -------------------------
(***************************************************************************)
(* Proofs about the status reports of the receiving RLC AM entity, for     *)
(* every window size, every list of received PDUs, every length of a NACK  *)
(* block and every size of the buffer MAC offers.                          *)
(*                                                                         *)
(* The argument follows a report from its last step to its first: the      *)
(* blocks of a report are what its NACKs say, gap by gap (BlockParts);     *)
(* the gaps are listed in the order of SN and byte, none is left out       *)
(* (GapsInOrder); and they are the bytes that are missing (GapOfByte).     *)
(*                                                                         *)
(* The last two parts are about the walks over the list, step by step: the *)
(* tests that decide whether a report is due answer what the sets of bytes *)
(* say, and the generation of a report makes the blocks of these gaps.     *)
(***************************************************************************)
EXTENDS RlcAmWalks, RlcAmRx_proofs

-----------------------------------------------------------------------------
(* The gaps *)

\* The list of received PDUs is finite.
ListFinite == IsFiniteSet(rx_list)

\* A gap lies between what was received: no byte of it was, and it is open
\* exactly when nothing was received behind it.
LEMMA GapIs ==
    ASSUME RxTypeOK, NEW sn \in SN, NEW b \in GapStarts(sn)
    PROVE  LET g == Gap(sn, b)
           IN /\ g.sn = sn /\ g.so_start = b /\ b \in Nat
              /\ g.so_end \in Nat \cup {ToEnd}
              /\ g.so_end # ToEnd =>
                    /\ g.so_end >= b
                    /\ \E k \in SegmentsOf(rx_list, sn) : k.so = g.so_end + 1
              /\ \A l \in SegmentsOf(rx_list, sn) :
                    \/ l.so + l.size <= b
                    \/ g.so_end # ToEnd /\ l.so > g.so_end
<1> DEFINE g == Gap(sn, b)
           later == {l \in SegmentsOf(rx_list, sn) : l.so > b}
           starts == {l.so : l \in later}
<1>1. \A l \in SegmentsOf(rx_list, sn) :
         l \in StoredPdu /\ l.so \in Nat /\ l.size \in Nat \ {0}
  BY DEF RxTypeOK, SegmentsOf, StoredPdu
<1>2. b \in Nat /\ b \notin Covered(rx_list, sn)
  BY <1>1 DEF GapStarts
<1>3. \A l \in SegmentsOf(rx_list, sn) : l.so + l.size <= b \/ l.so > b
  BY <1>1, <1>2 DEF Covered, Bytes
<1>4. /\ g.sn = sn /\ g.so_start = b
      /\ g.so_end = IF later = {} THEN ToEnd ELSE Min(starts) - 1
  BY DEF Gap
<1> DEFINE Ends ==
              /\ g.so_end \in Nat \cup {ToEnd}
              /\ g.so_end # ToEnd =>
                    /\ g.so_end >= b
                    /\ \E k \in SegmentsOf(rx_list, sn) : k.so = g.so_end + 1
              /\ \A l \in SegmentsOf(rx_list, sn) :
                    \/ l.so + l.size <= b
                    \/ g.so_end # ToEnd /\ l.so > g.so_end
<1>5. ASSUME later = {}
      PROVE  Ends
  <2>1. \A l \in SegmentsOf(rx_list, sn) : ~(l.so > b)
    BY <1>5
  <2> HIDE DEF g
  <2> QED
    BY <1>2, <1>3, <1>4, <1>5, <2>1
<1>6. ASSUME later # {}
      PROVE  Ends
  <2>1. starts \in SUBSET Nat /\ starts # {}
    BY <1>1, <1>6
  <2>2. Min(starts) \in starts /\ \A m \in starts : Min(starts) <= m
    BY <2>1, MinOfNumbers
  <2>3. Min(starts) \in Nat /\ Min(starts) > b
    BY <1>1, <2>2
  <2>4. \A l \in SegmentsOf(rx_list, sn) : l.so > b => l.so >= Min(starts)
    BY <2>2
  <2> HIDE DEF g, starts, later
  <2>5. g.so_end = Min(starts) - 1
    BY <1>4, <1>6
  <2>6. \E k \in SegmentsOf(rx_list, sn) : k.so = g.so_end + 1
    <3>1. PICK k \in SegmentsOf(rx_list, sn) : k.so = Min(starts)
      BY <2>2 DEF starts, later
    <3> QED
      BY <1>1, <2>3, <2>5, <3>1
  <2> QED
    BY <1>1, <1>2, <1>3, <1>4, <2>3, <2>4, <2>5, <2>6 DEF ToEnd
<1> QED
  BY <1>2, <1>4, <1>5, <1>6

\* The positions at which a gap may start: they are numbers, finitely many.
Starts(segs) == {0} \cup {l.so + l.size : l \in segs}

LEMMA StartsFinite ==
    ASSUME NEW segs \in SUBSET StoredPdu, IsFiniteSet(segs)
    PROVE  IsFiniteSet(Starts(segs)) /\ Starts(segs) \in SUBSET Nat
<1> DEFINE f == [l \in segs |-> l.so + l.size]
           img == {f[l] : l \in segs}
<1>1. f \in Surjection(segs, img)
  BY DEF Surjection
<1>2. Starts(segs) = img \cup {0}
  BY DEF Starts
<1>3. \A l \in segs : f[l] \in Nat
  BY DEF StoredPdu
<1>4. img \in SUBSET Nat
  BY <1>3
<1> HIDE DEF f, img
<1>5. IsFiniteSet(img)
  BY <1>1, FS_Surjection
<1> QED
  BY <1>2, <1>4, <1>5, FS_AddElement

LEMMA SegmentsFinite ==
    ASSUME RxTypeOK, ListFinite, NEW sn \in SN
    PROVE  /\ SegmentsOf(rx_list, sn) \in SUBSET StoredPdu
           /\ IsFiniteSet(SegmentsOf(rx_list, sn))
           /\ \A l \in SegmentsOf(rx_list, sn) : l.so \in Nat /\ l.size \in Nat \ {0}
<1>1. SegmentsOf(rx_list, sn) \in SUBSET rx_list
  BY DEF SegmentsOf
<1>2. IsFiniteSet(SegmentsOf(rx_list, sn))
  BY <1>1, FS_Subset DEF ListFinite
<1> QED
  BY <1>1, <1>2 DEF RxTypeOK, StoredPdu

\* A missing byte before a received segment lies in a gap.
LEMMA GapOfByte ==
    ASSUME RxTypeOK, ListFinite, NEW sn \in SN, NEW l \in SegmentsOf(rx_list, sn),
           NEW b \in 0 .. l.so, b \notin Covered(rx_list, sn)
    PROVE  \E c \in GapStarts(sn) :
              c <= b /\ (Gap(sn, c).so_end = ToEnd \/ b <= Gap(sn, c).so_end)
<1> DEFINE segs == SegmentsOf(rx_list, sn)
           C == {c \in Starts(segs) : c <= b}
           m == Max(C)
<1>1. /\ segs \in SUBSET StoredPdu /\ IsFiniteSet(segs)
      /\ \A k \in segs : k.so \in Nat /\ k.size \in Nat \ {0}
  BY SegmentsFinite
<1>2. b \in Nat
  BY <1>1
<1>3. \A k \in segs : b \notin Bytes(k)
  BY DEF Covered
<1>4. \A k \in segs : k.so <= b => k.so + k.size <= b /\ k.so + k.size \in C
  BY <1>1, <1>2, <1>3 DEF Bytes, Starts
<1>5. m \in C /\ \A c \in C : c <= m
  <2>1. C \in SUBSET Nat
    BY <1>1, StartsFinite
  <2>2. 0 \in C
    BY <1>2 DEF Starts
  <2>3. \A c \in C : c <= b
    OBVIOUS
  <2> HIDE DEF C
  <2> QED
    BY <1>2, <2>1, <2>2, <2>3, MaxOfNumbers
<1>6. m \in Starts(segs) /\ m <= b /\ m \in Nat
  BY <1>1, <1>5, StartsFinite
<1> HIDE DEF m, C
<1>7. \A k \in segs : m \notin Bytes(k)
  BY <1>1, <1>2, <1>4, <1>5, <1>6 DEF Bytes
<1>8. m < l.so
  BY <1>1, <1>2, <1>4, <1>6
<1>9. m \in GapStarts(sn)
  BY <1>6, <1>7, <1>8 DEF GapStarts, Starts, Covered
<1>10. Gap(sn, m).so_end = ToEnd \/ b <= Gap(sn, m).so_end
  <2> DEFINE end == Gap(sn, m).so_end
  <2> SUFFICES ASSUME end # ToEnd, ~(b <= end)
               PROVE  FALSE
    OBVIOUS
  <2>1. /\ end \in Nat /\ end >= m
        /\ \E k \in segs : k.so = end + 1
    BY <1>9, GapIs
  <2> HIDE DEF end
  <2>2. PICK k \in segs : k.so = end + 1
    BY <2>1
  <2>3. k.so + k.size \in C
    BY <1>2, <1>4, <2>1, <2>2
  <2> QED
    BY <1>1, <1>5, <1>6, <2>1, <2>2, <2>3
<1> QED
  BY <1>6, <1>9, <1>10

\* When the end of an SDU was not received, a gap reaches to the end.
LEMMA GapToEnd ==
    ASSUME RxTypeOK, ListFinite, NEW sn \in SN, \A l \in SegmentsOf(rx_list, sn) : ~l.last
    PROVE  \E c \in GapStarts(sn) : Gap(sn, c).so_end = ToEnd
<1> DEFINE segs == SegmentsOf(rx_list, sn)
           m == Max(Starts(segs))
<1>1. /\ segs \in SUBSET StoredPdu /\ IsFiniteSet(segs)
      /\ \A k \in segs : k.so \in Nat /\ k.size \in Nat \ {0}
  BY SegmentsFinite
<1>2. /\ m \in Starts(segs) /\ m \in Nat
      /\ \A k \in segs : k.so + k.size <= m
  <2>1. IsFiniteSet(Starts(segs)) /\ Starts(segs) \in SUBSET Nat /\ 0 \in Starts(segs)
    BY <1>1, StartsFinite DEF Starts
  <2>2. PICK n \in Nat : \A c \in Starts(segs) : c <= n
    BY <2>1, FiniteSetBounded
  <2>3. m \in Starts(segs) /\ \A c \in Starts(segs) : c <= m
    BY <2>1, <2>2, MaxOfNumbers
  <2> HIDE DEF m
  <2> QED
    BY <2>1, <2>3 DEF Starts
<1> HIDE DEF m
<1>3. \A k \in segs : m \notin Bytes(k)
  BY <1>1, <1>2 DEF Bytes
<1>4. m \in GapStarts(sn)
  BY <1>2, <1>3 DEF GapStarts, Starts, Covered
<1>5. Gap(sn, m).so_end = ToEnd
  <2> DEFINE end == Gap(sn, m).so_end
  <2> SUFFICES ASSUME end # ToEnd
               PROVE  FALSE
    OBVIOUS
  <2>1. /\ end \in Nat /\ end >= m
        /\ \E k \in segs : k.so = end + 1
    BY <1>4, GapIs
  <2> HIDE DEF end
  <2> QED
    BY <1>1, <1>2, <2>1
<1> QED
  BY <1>4, <1>5

LEMMA GapElement ==
    ASSUME RxTypeOK, NEW g \in Gaps
    PROVE  /\ g.sn \in SN /\ RxOffset(g.sn) < RxOffset(rx_highest_status)
           /\ g.so_start \in GapStarts(g.sn) /\ g = Gap(g.sn, g.so_start)
           /\ g.so_start \in Nat /\ RxOffset(g.sn) \in Nat
<1>1. PICK sn \in SN :
         RxOffset(sn) < RxOffset(rx_highest_status) /\ \E b \in GapStarts(sn) : g = Gap(sn, b)
  BY DEF Gaps
<1>2. PICK b \in GapStarts(sn) : g = Gap(sn, b)
  BY <1>1
<1>3. g.sn = sn /\ g.so_start = b /\ b \in Nat
  BY <1>2, GapIs
<1>4. RxOffset(sn) \in Nat
  BY <1>2, ModulusType, SnAssumption DEF RxTypeOK, RxOffset
<1> QED
  BY <1>1, <1>2, <1>3, <1>4

LEMMA GapsFinite ==
    ASSUME RxTypeOK, ListFinite
    PROVE  IsFiniteSet(Gaps)
<1> DEFINE P == {p \in SN \X Starts(rx_list) :
                    /\ RxOffset(p[1]) < RxOffset(rx_highest_status)
                    /\ p[2] \in GapStarts(p[1])}
           f == [p \in P |-> Gap(p[1], p[2])]
<1>1. IsFiniteSet(P)
  <2>1. IsFiniteSet(SN)
    BY SnAssumption, FS_Interval DEF SN
  <2>2. IsFiniteSet(Starts(rx_list))
    BY StartsFinite DEF RxTypeOK, ListFinite
  <2>3. IsFiniteSet(SN \X Starts(rx_list))
    BY <2>1, <2>2, FS_Product
  <2> QED
    BY <2>3, FS_Subset
<1>2. \A sn \in SN : GapStarts(sn) \subseteq Starts(rx_list)
  BY DEF GapStarts, Starts, SegmentsOf
<1>3. f \in Surjection(P, Gaps)
  <2>1. \A p \in P : f[p] \in Gaps
    BY DEF Gaps
  <2>2. ASSUME NEW g \in Gaps
        PROVE  \E p \in P : f[p] = g
    <3>1. PICK sn \in SN :
             /\ RxOffset(sn) < RxOffset(rx_highest_status)
             /\ \E b \in GapStarts(sn) : g = Gap(sn, b)
      BY DEF Gaps
    <3>2. PICK b \in GapStarts(sn) : g = Gap(sn, b)
      BY <3>1
    <3>3. <<sn, b>> \in P
      BY <1>2, <3>1, <3>2
    <3> QED
      BY <3>2, <3>3
  <2> HIDE DEF P
  <2>3. f \in [P -> Gaps]
    BY <2>1
  <2> HIDE DEF f
  <2> QED
    BY <2>2, <2>3 DEF Surjection
<1> HIDE DEF P, f
<1> QED
  BY <1>1, <1>3, FS_Surjection

\* The gaps are listed in the order of SN and byte, every one of them.
LEMMA GapsInOrder ==
    ASSUME RxTypeOK, ListFinite
    PROVE  LET q == InOrder(Gaps, GapBefore)
               n == Cardinality(Gaps)
           IN /\ n \in Nat
              /\ q \in [1 .. n -> Gaps]
              /\ \A g \in Gaps : \E i \in 1 .. n : q[i] = g
              /\ \A i, j \in 1 .. n : i < j => GapBefore(q[i], q[j])
<1> DEFINE q == InOrder(Gaps, GapBefore)
           n == Cardinality(Gaps)
           below == [x \in Gaps |-> {y \in Gaps : GapBefore(y, x)}]
<1>1. IsFiniteSet(Gaps) /\ n \in Nat
  BY GapsFinite, FS_CardinalityType
<1>2. \A g \in Gaps : /\ g.sn \in SN /\ g.so_start \in Nat /\ RxOffset(g.sn) \in Nat
                      /\ g = Gap(g.sn, g.so_start)
  BY GapElement
<1>3. \A g, h \in Gaps : \/ g = h
                         \/ RxOffset(g.sn) # RxOffset(h.sn)
                         \/ g.sn = h.sn /\ g.so_start # h.so_start
  BY <1>2, ModulusInjective DEF RxOffset, RxTypeOK
<1>4. \A x \in Gaps : x \notin below[x]
  BY <1>2 DEF GapBefore
<1>5. ASSUME NEW x \in Gaps, NEW y \in Gaps, y \in below[x]
      PROVE  below[y] \subseteq below[x]
  <2> SUFFICES ASSUME NEW z \in Gaps, GapBefore(z, y)
               PROVE  GapBefore(z, x)
    OBVIOUS
  <2>1. GapBefore(y, x)
    BY <1>5
  <2> QED
    BY <1>2, <2>1 DEF GapBefore
<1>6. \A x, y \in Gaps : x = y \/ x \in below[y] \/ y \in below[x]
  BY <1>2, <1>3 DEF GapBefore
<1>7. below \in [Gaps -> SUBSET Gaps]
  OBVIOUS
<1>8. q = [k \in 1 .. n |-> CHOOSE x \in Gaps : Cardinality({y \in Gaps : GapBefore(y, x)}) = k - 1]
  BY DEF InOrder
<1> HIDE DEF q, n
<1>9. ASSUME NEW k \in 1 .. n, \E x \in Gaps : Cardinality(below[x]) = k - 1
      PROVE  q[k] \in Gaps /\ Cardinality(below[q[k]]) = k - 1
  <2>1. \E x \in Gaps : Cardinality({y \in Gaps : GapBefore(y, x)}) = k - 1
    BY <1>9
  <2>2. q[k] = CHOOSE x \in Gaps : Cardinality({y \in Gaps : GapBefore(y, x)}) = k - 1
    BY <1>8
  <2> QED
    BY <2>1, <2>2
<1> HIDE DEF below
<1>10. IsRanking(Gaps, below, n, q)
  <2>1. \A k \in 1 .. n : (\E x \in Gaps : Cardinality(below[x]) = k - 1) =>
                              q[k] \in Gaps /\ Cardinality(below[q[k]]) = k - 1
    BY <1>9
  <2>2. \A x, y \in Gaps : y \in below[x] => below[y] \subseteq below[x]
    BY <1>5
  <2> QED
    BY <1>1, <1>4, <1>6, <1>7, <2>1, <2>2 DEF IsRanking, n
<1>11. /\ \A k \in 1 .. n : q[k] \in Gaps
       /\ \A g \in Gaps : \E i \in 1 .. n : q[i] = g
       /\ \A i, j \in 1 .. n : i < j => q[i] \in below[q[j]]
  BY <1>10, RankedList
<1>12. \A i, j \in 1 .. n : i < j => GapBefore(q[i], q[j])
  BY <1>11 DEF below
<1> QED
  BY <1>1, <1>8, <1>11, <1>12 DEF q, n

-----------------------------------------------------------------------------
(* The blocks *)

\* Inside a block each gap goes on where the one before it ended, and the
\* next block starts behind the end of this one.
LEMMA BlockIs ==
    ASSUME NEW n \in Nat, NEW gaps \in [1 .. n -> Gaps]
    PROVE  /\ BlockStarts(gaps) \in SUBSET (1 .. n)
           /\ n >= 1 => 1 \in BlockStarts(gaps)
           /\ \A s \in BlockStarts(gaps) : LET t == BlockEnd(gaps, s) IN
                /\ t \in s .. n
                /\ \A j \in s + 1 .. t : Joined(gaps[j - 1], gaps[j])
                /\ \A i \in BlockStarts(gaps) : i > s => i > t
                /\ t < n => t + 1 \in BlockStarts(gaps)
<1> DEFINE B == BlockStarts(gaps)
<1>1. Len(gaps) = n /\ DOMAIN gaps = 1 .. n
  BY SeqLen
<1>2. B \in SUBSET (1 .. n)
  BY <1>1 DEF BlockStarts
<1>3. ASSUME NEW j \in 1 .. n, j = 1 \/ ~Joined(gaps[j - 1], gaps[j])
      PROVE  j \in B
  <2> DEFINE I == {i \in 1 .. j : i = 1 \/ ~Joined(gaps[i - 1], gaps[i])}
  <2>1. I \in SUBSET Nat /\ j \in I /\ j \in Nat /\ \A i \in I : i <= j
    BY <1>3
  <2> HIDE DEF I
  <2>2. Max(I) \in I /\ \A i \in I : i <= Max(I)
    BY <2>1, MaxOfNumbers
  <2>3. Max(I) = j
    <3>1. Max(I) \in Nat /\ Max(I) <= j /\ j <= Max(I)
      BY <2>1, <2>2
    <3> QED
      BY <2>1, <3>1
  <2>4. IntervalStart(gaps, j) = j
    BY <2>3 DEF IntervalStart, I
  <2>5. (j - j) % NackRange = 0
    BY StatusAssumption
  <2> QED
    BY <1>1, <2>4, <2>5 DEF BlockStarts
<1>4. ASSUME NEW s \in B
      PROVE  LET t == BlockEnd(gaps, s)
             IN /\ t \in s .. n
                /\ \A i \in B : i > s => i > t
                /\ t < n => t + 1 \in B
  <2> DEFINE next == {j \in B : j > s}
  <2>1. CASE next = {}
    BY <1>1, <1>2, <2>1 DEF BlockEnd
  <2>2. CASE next # {}
    <3>1. next \in SUBSET Nat
      BY <1>2
    <3>2. Min(next) \in next /\ \A i \in next : Min(next) <= i
      BY <2>2, <3>1, MinOfNumbers
    <3>3. BlockEnd(gaps, s) = Min(next) - 1
      BY <2>2 DEF BlockEnd
    <3> DEFINE m == Min(next)
    <3>4. m \in B /\ m > s /\ \A i \in B : i > s => m <= i
      BY <3>2
    <3>5. m \in Nat /\ m <= n /\ s \in Nat /\ 1 <= s
      BY <1>2, <3>4
    <3>6. BlockEnd(gaps, s) = m - 1
      BY <3>3
    <3>7. \A i \in B : i \in Nat
      BY <1>2
    <3> HIDE DEF m, next, B
    <3>8. m - 1 \in s .. n /\ (m - 1) + 1 = m
      BY <3>4, <3>5
    <3>9. \A i \in B : i > s => i > m - 1
      BY <3>4, <3>5, <3>7
    <3> QED
      BY <3>4, <3>6, <3>8, <3>9
  <2> QED
    BY <2>1, <2>2
<1>5. ASSUME NEW s \in B, NEW j \in s + 1 .. BlockEnd(gaps, s)
      PROVE  Joined(gaps[j - 1], gaps[j])
  <2> HIDE DEF B
  <2>1. BlockEnd(gaps, s) \in s .. n /\ s \in 1 .. n
    BY <1>2, <1>4
  <2>2. j \in 1 .. n /\ j # 1 /\ j > s /\ ~(j > BlockEnd(gaps, s))
    BY <2>1
  <2>3. j \notin B
    BY <1>4, <2>2
  <2> QED
    BY <1>3, <2>2, <2>3
<1>6. n >= 1 => 1 \in B
  BY <1>3
<1> QED
  BY <1>2, <1>4, <1>5, <1>6

LEMMA WrapIs ==
    ASSUME NEW base \in SN, NEW a \in SN, NEW b \in SN, NEW j \in Nat,
           Modulus(base, b) = Modulus(base, a) + j
    PROVE  b = SnWrap(a + j)
BY SnAssumption DEF SN, Modulus, SnWrap

\* What the loop over the SNs of a block reads from it is gap after gap.
LEMMA BlockParts ==
    ASSUME RxTypeOK, NEW n \in Nat, NEW gaps \in [1 .. n -> Gaps],
           NEW s \in BlockStarts(gaps), NEW i \in 0 .. BlockEnd(gaps, s) - s
    PROVE  LET block == NackBlock(gaps, s)
           IN /\ block.range = BlockEnd(gaps, s) - s + 1
              /\ s + i \in 1 .. n
              /\ gaps[s + i].sn = SnWrap(block.sn + i)
              /\ gaps[s + i].so_start = IF i = 0 THEN block.so_start ELSE 0
              /\ gaps[s + i].so_end = IF i = block.range - 1 THEN block.so_end ELSE ToEnd
<1> DEFINE t == BlockEnd(gaps, s)
           Bad == {j \in 0 .. t - s :
                      RxOffset(gaps[s + j].sn) # RxOffset(gaps[s].sn) + j}
<1>1. /\ s \in 1 .. n /\ t \in s .. n
      /\ \A j \in s + 1 .. t : Joined(gaps[j - 1], gaps[j])
  BY BlockIs
<1>2. NackBlock(gaps, s) =
         [sn |-> gaps[s].sn, so_start |-> gaps[s].so_start,
          so_end |-> gaps[t].so_end, range |-> t - s + 1]
  BY DEF NackBlock
<1> HIDE DEF t
<1>3. \A j \in 1 .. n :
         /\ gaps[j].sn \in SN /\ RxOffset(gaps[j].sn) \in Nat
         /\ RxOffset(gaps[j].sn) < RxOffset(rx_highest_status)
  BY GapElement
<1>4. /\ rx_next \in SN /\ SnModulus \in Nat
      /\ RxOffset(rx_highest_status) \in Nat
      /\ RxOffset(rx_highest_status) <= SnModulus - 1
  BY ModulusType, SnAssumption DEF RxTypeOK, RxOffset
<1>5. \A j \in 0 .. t - s : s + j \in 1 .. n
  BY <1>1
<1>6. Bad = {}
  <2> SUFFICES ASSUME Bad # {}
               PROVE  FALSE
    OBVIOUS
  <2>1. Bad \in SUBSET Nat
    BY <1>1
  <2>2. PICK j \in Bad : \A k \in Bad : j <= k
    BY <2>1, LeastNumber
  <2>3. j \in 0 .. t - s /\ RxOffset(gaps[s + j].sn) # RxOffset(gaps[s].sn) + j
    BY <2>2
  <2>4. j # 0
    BY <1>1, <1>3, <2>3
  <2>5. j - 1 \in 0 .. t - s /\ j - 1 \notin Bad
    BY <1>1, <2>2, <2>3, <2>4
  <2>6. RxOffset(gaps[s + (j - 1)].sn) = RxOffset(gaps[s].sn) + (j - 1)
    BY <2>5
  <2>7. Joined(gaps[s + (j - 1)], gaps[s + j])
    <3>1. s + j \in s + 1 .. t /\ (s + j) - 1 = s + (j - 1)
      BY <1>1, <2>3, <2>4
    <3> QED
      BY <1>1, <3>1
  <2> DEFINE a == gaps[s + (j - 1)].sn
             b == gaps[s + j].sn
  <2>8. /\ a \in SN /\ RxOffset(a) \in Nat /\ b = SnNext(a)
        /\ RxOffset(a) < RxOffset(rx_highest_status)
    BY <1>3, <1>5, <2>5, <2>7 DEF Joined
  <2> HIDE DEF a, b
  <2>9. RxOffset(b) = RxOffset(a) + 1
    <3>1. RxOffset(b) = IF RxOffset(a) = SnModulus - 1 THEN 0 ELSE RxOffset(a) + 1
      BY <1>4, <2>8, ModulusNext DEF RxOffset
    <3>2. RxOffset(a) # SnModulus - 1
      BY <1>4, <2>8
    <3> QED
      BY <3>1, <3>2
  <2>10. RxOffset(gaps[s].sn) \in Nat /\ j \in Nat /\ s \in Nat
    BY <1>1, <1>3, <2>3
  <2> QED
    BY <2>3, <2>6, <2>9, <2>10 DEF a, b
<1>7. i \in Nat /\ i \in 0 .. t - s
  BY <1>1 DEF t
<1>8. gaps[s + i].sn = SnWrap(gaps[s].sn + i)
  <2>1. RxOffset(gaps[s + i].sn) = RxOffset(gaps[s].sn) + i
    BY <1>6, <1>7
  <2> QED
    BY <1>1, <1>3, <1>4, <1>5, <1>7, <2>1, WrapIs DEF RxOffset
<1>9. i # 0 => gaps[s + i].so_start = 0
  <2> SUFFICES ASSUME i # 0
               PROVE  gaps[s + i].so_start = 0
    OBVIOUS
  <2>1. s + i \in s + 1 .. t
    BY <1>1, <1>7
  <2> QED
    BY <1>1, <2>1 DEF Joined
<1>10. i # t - s => gaps[s + i].so_end = ToEnd
  <2> SUFFICES ASSUME i # t - s
               PROVE  gaps[s + i].so_end = ToEnd
    OBVIOUS
  <2>1. s + i + 1 \in s + 1 .. t /\ (s + i + 1) - 1 = s + i
    BY <1>1, <1>7
  <2>2. Joined(gaps[(s + i + 1) - 1], gaps[s + i + 1])
    BY <1>1, <2>1
  <2> QED
    BY <2>1, <2>2 DEF Joined
<1>11. i = 0 => s + i = s
  BY <1>1
<1>12. i = t - s => s + i = t
  BY <1>1
<1>13. (t - s + 1) - 1 = t - s
  BY <1>1
<1> QED
  BY <1>2, <1>5, <1>7, <1>8, <1>9, <1>10, <1>11, <1>12, <1>13 DEF t

-----------------------------------------------------------------------------
(* The report *)

\* The parts a report names of SDU sn, block by block
LEMMA PartsAre ==
    ASSUME NEW nacks, NEW sn, NEW part
    PROVE  part \in NackedParts(nacks, sn) <=>
              \E k \in DOMAIN nacks : \E i \in 0 .. nacks[k].range - 1 :
                 /\ SnWrap(nacks[k].sn + i) = sn
                 /\ part = [so_start |-> IF i = 0 THEN nacks[k].so_start ELSE 0,
                            so_end |-> IF i = nacks[k].range - 1
                                       THEN nacks[k].so_end ELSE ToEnd]
BY DEF NackedParts

\* Some number of blocks fits, as a report without a block does.
LEMMA FitIs ==
    ASSUME NEW blocks, NEW n \in Nat, Len(blocks) = n,
           NEW size \in Nat, size >= StatusHeader
    PROVE  Fit(blocks, size) \in 0 .. n
<1> DEFINE A == {k \in 0 .. n : StatusSize(blocks, k) <= size}
<1>1. 0 \in A
  <2>1. 1 .. 0 = {}
    OBVIOUS
  <2>2. StatusSize(blocks, 0) = StatusHeader
    BY <2>1, SumEmpty DEF StatusSize, StatusHeader
  <2> QED
    BY <2>2
<1>2. A \in SUBSET Nat /\ \A k \in A : k <= n
  OBVIOUS
<1>3. Fit(blocks, size) = Max(A)
  BY DEF Fit
<1>4. A \subseteq 0 .. n
  OBVIOUS
<1> HIDE DEF A
<1>5. Max(A) \in A
  BY <1>1, <1>2, MaxOfNumbers
<1> QED
  BY <1>3, <1>4, <1>5

\* The gaps of a state, as the generation of a report meets them
GapList(gaps, n) == n \in Nat /\ gaps \in [1 .. n -> Gaps]

LEMMA MissingGapsAre ==
    ASSUME RxTypeOK, ListFinite
    PROVE  \E n : /\ GapList(MissingGaps, n)
                  /\ rx_list = {} => n = 0
                  /\ rx_list # {} =>
                        /\ \A g \in Gaps : \E i \in 1 .. n : MissingGaps[i] = g
                        /\ \A i, j \in 1 .. n :
                              i < j => GapBefore(MissingGaps[i], MissingGaps[j])
<1>1. CASE rx_list = {}
  <2>1. MissingGaps = <<>>
    BY <1>1 DEF MissingGaps
  <2>2. <<>> \in [1 .. 0 -> Gaps]
    OBVIOUS
  <2> QED
    BY <1>1, <2>1, <2>2 DEF GapList
<1>2. CASE rx_list # {}
  <2>1. \E q : q = InOrder(Gaps, GapBefore)
    OBVIOUS
  <2>2. PICK q : q = InOrder(Gaps, GapBefore)
    BY <2>1, Zenon
  <2> DEFINE n == Cardinality(Gaps)
  <2>3. /\ n \in Nat
        /\ q \in [1 .. n -> Gaps]
        /\ \A g \in Gaps : \E i \in 1 .. n : q[i] = g
        /\ \A i, j \in 1 .. n : i < j => GapBefore(q[i], q[j])
    BY <2>2, GapsInOrder, Zenon
  <2>4. MissingGaps = q
    BY <1>2, <2>2, Zenon DEF MissingGaps
  <2> HIDE DEF n
  <2> QED
    BY <1>2, <2>3, <2>4 DEF GapList
<1> QED
  BY <1>1, <1>2

\* The blocks of a state: one for each start, in order
IsBlockOrder(gaps, K, order) ==
    /\ K \in Nat /\ order \in [1 .. K -> BlockStarts(gaps)]
    /\ NackBlocks = [k \in 1 .. K |-> NackBlock(gaps, order[k])]
    /\ Len(NackBlocks) = K /\ DOMAIN NackBlocks = 1 .. K
    /\ \A s \in BlockStarts(gaps) : \E k \in 1 .. K : order[k] = s
    /\ \A j, k \in 1 .. K : j < k => order[j] < order[k]

LEMMA BlocksAre ==
    ASSUME NEW n, NEW gaps, GapList(gaps, n), gaps = MissingGaps
    PROVE  \E K, order : IsBlockOrder(gaps, K, order)
<1> DEFINE B == BlockStarts(gaps)
           K == Cardinality(B)
<1>1. n \in Nat /\ B \in SUBSET (1 .. n)
  BY BlockIs DEF GapList
<1>2. IsFiniteSet(B) /\ B \in SUBSET Nat
  <2>1. IsFiniteSet(1 .. n)
    BY <1>1, FS_Interval
  <2> QED
    BY <1>1, <2>1, FS_Subset
<1>3. \E order : order = InOrder(B, <)
  OBVIOUS
<1>4. PICK order : order = InOrder(B, <)
  BY <1>3, Zenon
<1>5. /\ K \in Nat /\ order \in [1 .. K -> B]
      /\ \A x \in B : \E i \in 1 .. K : order[i] = x
      /\ \A i, j \in 1 .. K : i < j => order[i] < order[j]
  BY <1>2, <1>4, NumbersInOrder, ZenonT(60)
<1>6. NackBlocks = [k \in DOMAIN order |-> NackBlock(gaps, order[k])]
  BY <1>4, Zenon DEF NackBlocks
<1>7. DOMAIN order = 1 .. K
  BY <1>5
<1> HIDE DEF B, K
<1>8. NackBlocks = [k \in 1 .. K |-> NackBlock(gaps, order[k])]
  BY <1>6, <1>7
<1>9. Len(NackBlocks) = K /\ DOMAIN NackBlocks = 1 .. K
  <2> DEFINE b == [k \in 1 .. K |-> NackBlock(gaps, order[k])]
  <2>1. b \in [1 .. K -> {NackBlock(gaps, order[k]) : k \in 1 .. K}]
    OBVIOUS
  <2> HIDE DEF b
  <2>2. Len(b) = K /\ DOMAIN b = 1 .. K
    BY <1>5, <2>1, SeqLen
  <2> QED
    BY <1>8, <2>2 DEF b
<1> QED
  BY <1>5, <1>8, <1>9 DEF IsBlockOrder, B

\* With no block left out the NACKs name gaps and nothing else.
LEMMA BlocksNameGaps ==
    ASSUME RxTypeOK, NEW n, NEW gaps, GapList(gaps, n), gaps = MissingGaps,
           NEW sn \in SN, NEW part \in NackedParts(NackBlocks, sn)
    PROVE  \E g \in Gaps : /\ g.sn = sn
                           /\ part = [so_start |-> g.so_start, so_end |-> g.so_end]
<1>1. PICK K, order : IsBlockOrder(gaps, K, order)
  BY BlocksAre
<1>2. /\ K \in Nat /\ order \in [1 .. K -> BlockStarts(gaps)]
      /\ NackBlocks = [k \in 1 .. K |-> NackBlock(gaps, order[k])]
      /\ DOMAIN NackBlocks = 1 .. K
  BY <1>1 DEF IsBlockOrder
<1> DEFINE Part(k, i) == [so_start |-> IF i = 0 THEN NackBlocks[k].so_start ELSE 0,
                          so_end |-> IF i = NackBlocks[k].range - 1
                                     THEN NackBlocks[k].so_end ELSE ToEnd]
<1>3. PICK k \in DOMAIN NackBlocks : \E i \in 0 .. NackBlocks[k].range - 1 :
         SnWrap(NackBlocks[k].sn + i) = sn /\ part = Part(k, i)
  BY PartsAre
<1>4. PICK i \in 0 .. NackBlocks[k].range - 1 :
         SnWrap(NackBlocks[k].sn + i) = sn /\ part = Part(k, i)
  BY <1>3
<1> DEFINE s == order[k]
           t == BlockEnd(gaps, s)
<1>5. k \in 1 .. K /\ s \in BlockStarts(gaps) /\ NackBlocks[k] = NackBlock(gaps, s)
  BY <1>2, <1>3
<1>6. n \in Nat /\ gaps \in [1 .. n -> Gaps]
  BY DEF GapList
<1>7. s \in 1 .. n /\ t \in s .. n
  BY <1>5, <1>6, BlockIs
<1>8. NackBlock(gaps, s).range = t - s + 1
  BY DEF NackBlock
<1> HIDE DEF s, t
<1>9. i \in 0 .. t - s
  BY <1>4, <1>5, <1>7, <1>8
<1> DEFINE block == NackBlock(gaps, s)
<1>10. /\ s + i \in 1 .. n
       /\ gaps[s + i].sn = SnWrap(block.sn + i)
       /\ gaps[s + i].so_start = IF i = 0 THEN block.so_start ELSE 0
       /\ gaps[s + i].so_end = IF i = block.range - 1 THEN block.so_end ELSE ToEnd
  BY <1>5, <1>6, <1>9, BlockParts DEF t
<1> HIDE DEF block
<1>11. gaps[s + i] \in Gaps
  BY <1>6, <1>10
<1> QED
  BY <1>4, <1>5, <1>10, <1>11 DEF block

\* Whatever the buffer, a report names the first gaps, up to some gap T.  A
\* name may say "to the end" of a gap that has an end; the last one does
\* when gaps are left out.  ACK_SN follows the SN of gap T.
LEMMA ReportNamesGaps ==
    ASSUME RxTypeOK, NEW n, NEW gaps, GapList(gaps, n), gaps = MissingGaps,
           NEW size \in Nat, size >= StatusHeader
    PROVE  LET r == StatusReport(size)
               Names(part, g) == /\ part.so_start = g.so_start
                                 /\ part.so_end = g.so_end \/ part.so_end = ToEnd
           IN \E T \in 0 .. n :
                 /\ T = 0 => r.ack_sn = rx_next
                 /\ T > 0 => r.ack_sn = SnNext(gaps[T].sn)
                 /\ \A i \in 1 .. T :
                       \E part \in NackedParts(r.nacks, gaps[i].sn) : Names(part, gaps[i])
                 /\ \A sn \in SN : \A part \in NackedParts(r.nacks, sn) :
                       \E i \in 1 .. T : gaps[i].sn = sn /\ Names(part, gaps[i])
                 /\ 0 < T /\ T < n =>
                       \E part \in NackedParts(r.nacks, gaps[T].sn) :
                          part.so_start = gaps[T].so_start /\ part.so_end = ToEnd
<1>1. PICK K, order : IsBlockOrder(gaps, K, order)
  BY BlocksAre
<1>2. /\ K \in Nat /\ order \in [1 .. K -> BlockStarts(gaps)]
      /\ NackBlocks = [k \in 1 .. K |-> NackBlock(gaps, order[k])]
      /\ Len(NackBlocks) = K
      /\ \A s \in BlockStarts(gaps) : \E k \in 1 .. K : order[k] = s
      /\ \A j, k \in 1 .. K : j < k => order[j] < order[k]
  BY <1>1 DEF IsBlockOrder
<1> DEFINE B == BlockStarts(gaps)
           End(k) == BlockEnd(gaps, order[k])
           fit == Fit(NackBlocks, size)
           r == StatusReport(size)
           T == IF fit = 0 THEN 0 ELSE End(fit)
<1>3. n \in Nat /\ gaps \in [1 .. n -> Gaps]
  BY DEF GapList
<1>4. fit \in 0 .. K
  BY <1>2, FitIs
<1>5. /\ B \in SUBSET (1 .. n)
      /\ n >= 1 => 1 \in B
      /\ \A s \in B : /\ BlockEnd(gaps, s) \in s .. n
                      /\ \A i \in B : i > s => i > BlockEnd(gaps, s)
                      /\ BlockEnd(gaps, s) < n => BlockEnd(gaps, s) + 1 \in B
  BY <1>3, BlockIs
<1>6. ASSUME NEW k \in 1 .. fit
      PROVE  /\ k \in 1 .. K /\ order[k] \in B /\ order[k] \in 1 .. n
             /\ End(k) \in order[k] .. n
             /\ r.nacks[k].sn = NackBlock(gaps, order[k]).sn
             /\ r.nacks[k].so_start = NackBlock(gaps, order[k]).so_start
             /\ r.nacks[k].range = NackBlock(gaps, order[k]).range
             /\ \/ r.nacks[k].so_end = NackBlock(gaps, order[k]).so_end
                \/ r.nacks[k].so_end = ToEnd
             /\ k = fit /\ fit < K => r.nacks[k].so_end = ToEnd
  <2>1. k \in 1 .. K
    BY <1>2, <1>4
  <2>2. order[k] \in B /\ order[k] \in 1 .. n /\ End(k) \in order[k] .. n
    BY <1>2, <1>5, <2>1
  <2>3. NackBlocks[k] = NackBlock(gaps, order[k])
    BY <1>2, <2>1
  <2>4. r.nacks[k] = IF fit < K /\ k = fit /\ HasSo(NackBlocks[k])
                     THEN [NackBlocks[k] EXCEPT !.so_end = ToEnd] ELSE NackBlocks[k]
    BY <1>2 DEF StatusReport
  <2> HIDE DEF r, fit, End
  <2> DEFINE block == NackBlocks[k]
  <2>5. block = [sn |-> block.sn, so_start |-> block.so_start,
                 so_end |-> block.so_end, range |-> block.range]
    BY <2>3 DEF NackBlock
  <2>6. [block EXCEPT !.so_end = ToEnd] =
           [sn |-> block.sn, so_start |-> block.so_start,
            so_end |-> ToEnd, range |-> block.range]
    BY <2>5
  <2>7. ~HasSo(block) => block.so_end = ToEnd
    BY DEF HasSo
  <2> HIDE DEF block
  <2>8. r.nacks[k] = IF fit < K /\ k = fit /\ HasSo(block)
                     THEN [block EXCEPT !.so_end = ToEnd] ELSE block
    BY <2>4 DEF block
  <2>9. /\ r.nacks[k].sn = block.sn
        /\ r.nacks[k].so_start = block.so_start
        /\ r.nacks[k].range = block.range
        /\ r.nacks[k].so_end = block.so_end \/ r.nacks[k].so_end = ToEnd
        /\ k = fit /\ fit < K => r.nacks[k].so_end = ToEnd
    BY <2>6, <2>7, <2>8
  <2> QED
    BY <2>1, <2>2, <2>3, <2>9 DEF block
<1>7. DOMAIN r.nacks = 1 .. fit
  BY DEF StatusReport
<1>8. T \in 0 .. n /\ fit \in Nat /\ K \in Nat
  <2>1. fit \in Nat /\ K \in Nat
    BY <1>2, <1>4
  <2>2. fit # 0 => fit \in 1 .. fit
    BY <2>1
  <2> QED
    BY <1>3, <1>6, <2>1, <2>2
<1>9. fit = 0 => r.ack_sn = rx_next
  BY DEF StatusReport
<1>10. fit # 0 => r.ack_sn = SnNext(LastSn(r.nacks[fit]))
  BY DEF StatusReport
<1> HIDE DEF r, fit, T
<1>11. ASSUME NEW k \in 1 .. fit, NEW i \in order[k] .. End(k)
       PROVE  \E part \in NackedParts(r.nacks, gaps[i].sn) :
                 /\ part.so_start = gaps[i].so_start
                 /\ part.so_end = gaps[i].so_end \/ part.so_end = ToEnd
                 /\ k = fit /\ fit < K /\ i = End(k) => part.so_end = ToEnd
  <2> DEFINE s == order[k]
             t == End(k)
             j == i - s
             block == NackBlock(gaps, s)
             nack == r.nacks[k]
             part == [so_start |-> IF j = 0 THEN nack.so_start ELSE 0,
                      so_end |-> IF j = nack.range - 1 THEN nack.so_end ELSE ToEnd]
  <2>1. /\ s \in B /\ s \in 1 .. n /\ t \in s .. n
        /\ nack.sn = block.sn /\ nack.so_start = block.so_start /\ nack.range = block.range
        /\ nack.so_end = block.so_end \/ nack.so_end = ToEnd
        /\ k = fit /\ fit < K => nack.so_end = ToEnd
    BY <1>6
  <2>2. j \in 0 .. t - s /\ s + j = i
    BY <2>1
  <2>3. /\ block.range = t - s + 1
        /\ gaps[s + j].sn = SnWrap(block.sn + j)
        /\ gaps[s + j].so_start = IF j = 0 THEN block.so_start ELSE 0
        /\ gaps[s + j].so_end = IF j = block.range - 1 THEN block.so_end ELSE ToEnd
    <3>1. t = BlockEnd(gaps, s)
      OBVIOUS
    <3> HIDE DEF j, s, t
    <3> QED
      BY <1>3, <2>1, <2>2, <3>1, BlockParts
  <2>4. j \in 0 .. nack.range - 1 /\ (i = t => j = nack.range - 1)
    BY <2>1, <2>2, <2>3
  <2> HIDE DEF j, block, s, t, nack
  <2>5. SnWrap(nack.sn + j) = gaps[i].sn
    BY <2>1, <2>2, <2>3
  <2>6. part \in NackedParts(r.nacks, gaps[i].sn)
    <3>1. k \in DOMAIN r.nacks
      BY <1>7
    <3> QED
      BY <2>4, <2>5, <3>1, PartsAre DEF nack
  <2>7. part.so_start = gaps[i].so_start
    BY <2>1, <2>2, <2>3
  <2>8. part.so_end = gaps[i].so_end \/ part.so_end = ToEnd
    BY <2>1, <2>2, <2>3
  <2>9. k = fit /\ fit < K /\ i = t => part.so_end = ToEnd
    BY <2>1, <2>4
  <2> HIDE DEF part
  <2> QED
    BY <2>6, <2>7, <2>8, <2>9 DEF t
<1>12. ASSUME NEW i \in 1 .. T
       PROVE  \E k \in 1 .. fit : i \in order[k] .. End(k)
  <2>1. i \in 1 .. n /\ i \in Nat /\ T = End(fit) /\ fit \in 1 .. fit /\ fit \in 1 .. K
    <3>1. fit # 0 /\ T = End(fit)
      BY <1>12 DEF T
    <3> QED
      BY <1>3, <1>4, <1>8, <3>1
  <2> DEFINE A == {s \in B : s <= i}
             m == Max(A)
  <2>2. m \in A /\ \A s \in A : s <= m
    <3>1. A \in SUBSET Nat /\ 1 \in A /\ \A s \in A : s <= i
      BY <1>3, <1>5, <2>1
    <3> HIDE DEF A
    <3> QED
      BY <2>1, <3>1, MaxOfNumbers
  <2>3. m \in B /\ m <= i /\ m \in 1 .. n /\ \A s \in B : s <= i => s <= m
    BY <1>5, <2>2
  <2>4. PICK k \in 1 .. K : order[k] = m
    BY <1>2, <2>3
  <2> HIDE DEF m, A
  <2>5. End(k) \in m .. n
    BY <1>5, <2>3, <2>4
  <2>6. i <= End(k)
    <3> SUFFICES ASSUME ~(i <= End(k))
                 PROVE  FALSE
      OBVIOUS
    <3>1. End(k) < n /\ End(k) + 1 <= i
      BY <1>3, <2>1, <2>5
    <3>2. End(k) + 1 \in B
      BY <1>5, <2>3, <2>4, <3>1
    <3>3. End(k) + 1 <= m
      BY <2>3, <3>1, <3>2
    <3> QED
      BY <1>3, <2>3, <2>5, <3>3
  <2>7. k <= fit
    <3> SUFFICES ASSUME ~(k <= fit)
                 PROVE  FALSE
      OBVIOUS
    <3>1. order[fit] < order[k] /\ order[fit] \in B /\ order[k] \in B
      BY <1>2, <1>8, <2>1
    <3>2. order[k] > End(fit)
      BY <1>5, <3>1
    <3>3. End(fit) \in Nat /\ order[k] \in Nat
      BY <1>5, <1>3, <1>6, <2>1, <2>3, <2>4
    <3> QED
      BY <2>1, <2>3, <2>4, <3>2, <3>3
  <2> QED
    BY <1>8, <2>1, <2>3, <2>4, <2>5, <2>6, <2>7
<1>13. ASSUME T > 0
       PROVE  fit \in 1 .. fit /\ T = End(fit) /\ (T < n => fit < K)
  <2>1. fit \in 1 .. fit /\ T = End(fit) /\ fit \in 1 .. K
    BY <1>4, <1>8, <1>13 DEF T
  <2>2. ASSUME T < n
        PROVE  fit < K
    <3>1. order[fit] \in B /\ order[fit] \in 1 .. n /\ T \in order[fit] .. n
      BY <1>6, <2>1
    <3>2. T + 1 \in B
      BY <1>5, <2>1, <2>2, <3>1
    <3>3. PICK k \in 1 .. K : order[k] = T + 1
      BY <1>2, <3>2
    <3>4. order[k] > order[fit]
      BY <3>1, <3>3
    <3>5. ~(k < fit) /\ k # fit
      BY <1>2, <2>1, <3>1, <3>3, <3>4
    <3> QED
      BY <1>8, <3>3, <3>5
  <2> QED
    BY <2>1, <2>2
<1>14. T > 0 => r.ack_sn = SnNext(gaps[T].sn)
  <2> SUFFICES ASSUME T > 0
               PROVE  r.ack_sn = SnNext(gaps[T].sn)
    OBVIOUS
  <2> DEFINE s == order[fit]
  <2>1. /\ fit \in 1 .. fit /\ T = End(fit) /\ fit # 0
        /\ s \in B /\ s \in 1 .. n /\ T \in s .. n
        /\ r.nacks[fit].sn = NackBlock(gaps, s).sn
        /\ r.nacks[fit].range = NackBlock(gaps, s).range
    <3>1. fit \in 1 .. fit /\ T = End(fit) /\ fit # 0
      BY <1>8, <1>13
    <3> QED
      BY <1>6, <3>1
  <2>2. T - s \in 0 .. BlockEnd(gaps, s) - s
    BY <2>1
  <2>3. /\ NackBlock(gaps, s).range = T - s + 1
        /\ gaps[s + (T - s)].sn = SnWrap(NackBlock(gaps, s).sn + (T - s))
    BY <1>3, <2>1, <2>2, BlockParts
  <2>4. s + (T - s) = T
    BY <2>1
  <2>5. NackBlock(gaps, s).sn \in Nat
    <3>1. NackBlock(gaps, s).sn = gaps[s].sn /\ gaps[s] \in Gaps
      BY <1>3, <2>1 DEF NackBlock
    <3> QED
      BY <3>1, GapElement, SnAssumption DEF SN
  <2>6. r.nacks[fit].sn + r.nacks[fit].range - 1 = NackBlock(gaps, s).sn + (T - s)
    BY <2>1, <2>3, <2>5
  <2>7. LastSn(r.nacks[fit]) = gaps[T].sn
    BY <2>3, <2>4, <2>6 DEF LastSn
  <2> QED
    BY <1>10, <2>1, <2>7
<1>15. T = 0 => r.ack_sn = rx_next
  <2>1. fit # 0 => T # 0
    <3>1. fit # 0 => fit \in 1 .. fit
      BY <1>8
    <3>2. fit # 0 => End(fit) \in order[fit] .. n /\ order[fit] \in 1 .. n
      BY <1>6, <3>1
    <3> QED
      BY <3>2 DEF T
  <2> QED
    BY <1>9, <2>1
<1>16. \A i \in 1 .. T :
          \E part \in NackedParts(r.nacks, gaps[i].sn) :
             /\ part.so_start = gaps[i].so_start
             /\ part.so_end = gaps[i].so_end \/ part.so_end = ToEnd
  BY <1>11, <1>12
<1>17. 0 < T /\ T < n =>
          \E part \in NackedParts(r.nacks, gaps[T].sn) :
             part.so_start = gaps[T].so_start /\ part.so_end = ToEnd
  <2> SUFFICES ASSUME T > 0, T < n
               PROVE  \E part \in NackedParts(r.nacks, gaps[T].sn) :
                         part.so_start = gaps[T].so_start /\ part.so_end = ToEnd
    BY <1>8
  <2>1. fit \in 1 .. fit /\ T = End(fit) /\ fit < K
    BY <1>13
  <2>2. T \in order[fit] .. End(fit)
    BY <1>6, <2>1
  <2> QED
    BY <1>11, <2>1, <2>2
<1>18. ASSUME NEW sn \in SN, NEW part \in NackedParts(r.nacks, sn)
       PROVE  \E i \in 1 .. T :
                 /\ gaps[i].sn = sn
                 /\ part.so_start = gaps[i].so_start
                 /\ part.so_end = gaps[i].so_end \/ part.so_end = ToEnd
  <2> DEFINE nack(k) == r.nacks[k]
             Part(k, j) == [so_start |-> IF j = 0 THEN nack(k).so_start ELSE 0,
                            so_end |-> IF j = nack(k).range - 1 THEN nack(k).so_end ELSE ToEnd]
  <2>1. PICK k \in 1 .. fit : \E j \in 0 .. nack(k).range - 1 :
           SnWrap(nack(k).sn + j) = sn /\ part = Part(k, j)
    <3>1. \E k \in DOMAIN r.nacks : \E j \in 0 .. r.nacks[k].range - 1 :
             /\ SnWrap(r.nacks[k].sn + j) = sn
             /\ part = [so_start |-> IF j = 0 THEN r.nacks[k].so_start ELSE 0,
                        so_end |-> IF j = r.nacks[k].range - 1
                                   THEN r.nacks[k].so_end ELSE ToEnd]
      BY <1>18, PartsAre
    <3> QED
      BY <1>7, <3>1
  <2>2. PICK j \in 0 .. nack(k).range - 1 : SnWrap(nack(k).sn + j) = sn /\ part = Part(k, j)
    BY <2>1
  <2> DEFINE s == order[k]
             t == End(k)
             block == NackBlock(gaps, s)
  <2>3. /\ s \in B /\ s \in 1 .. n /\ t \in s .. n /\ k \in 1 .. K
        /\ nack(k).sn = block.sn /\ nack(k).so_start = block.so_start
        /\ nack(k).range = block.range
        /\ nack(k).so_end = block.so_end \/ nack(k).so_end = ToEnd
    BY <1>6
  <2>4. t = BlockEnd(gaps, s)
    OBVIOUS
  <2>5. t <= T
    <3>1. fit # 0 /\ fit \in 1 .. fit /\ T = End(fit)
      BY <1>8 DEF T
    <3>2. order[fit] \in B /\ End(fit) \in order[fit] .. n /\ fit \in 1 .. K
      BY <1>6, <3>1
    <3>3. CASE k = fit
      BY <1>3, <2>3, <3>1, <3>2, <3>3
    <3>4. CASE k # fit
      <4>1. k < fit
        BY <1>8, <3>4
      <4>2. order[fit] > s
        BY <1>2, <2>3, <3>2, <4>1
      <4>3. order[fit] > t
        BY <1>5, <2>3, <2>4, <3>2, <4>2
      <4> QED
        BY <1>3, <1>5, <2>3, <3>1, <3>2, <4>3
    <3> QED
      BY <3>3, <3>4
  <2> HIDE DEF s, t
  <2>6. block.range = t - s + 1
    BY <2>4 DEF NackBlock
  <2>7. j \in 0 .. t - s
    BY <2>2, <2>3, <2>6
  <2>8. /\ gaps[s + j].sn = SnWrap(block.sn + j)
        /\ gaps[s + j].so_start = IF j = 0 THEN block.so_start ELSE 0
        /\ gaps[s + j].so_end = IF j = block.range - 1 THEN block.so_end ELSE ToEnd
    BY <1>3, <2>3, <2>4, <2>7, BlockParts
  <2>9. s + j \in 1 .. T
    BY <1>3, <1>8, <2>3, <2>5, <2>7
  <2> HIDE DEF block, nack
  <2>10. part.so_start = gaps[s + j].so_start /\ gaps[s + j].sn = sn
    BY <2>2, <2>3, <2>8
  <2>11. part.so_end = gaps[s + j].so_end \/ part.so_end = ToEnd
    BY <2>2, <2>3, <2>8
  <2> QED
    BY <2>9, <2>10, <2>11
<1>19. \A sn \in SN : \A part \in NackedParts(r.nacks, sn) : \E i \in 1 .. T :
          /\ gaps[i].sn = sn
          /\ part.so_start = gaps[i].so_start
          /\ part.so_end = gaps[i].so_end \/ part.so_end = ToEnd
  BY <1>18
<1> QED
  BY <1>8, <1>14, <1>15, <1>16, <1>17, <1>19 DEF r

\* Every gap below ACK_SN is named, or lies behind the last one named, which
\* then is said to reach to the end.  No SN from ACK_SN on is NACKed.
LEMMA GapIsNamed ==
    ASSUME RxInv, ListFinite, NEW size \in Nat, size >= StatusHeader, NEW sn \in SN
    PROVE  LET r == StatusReport(size)
           IN /\ r.ack_sn \in SN
              /\ RxOffset(r.ack_sn) <= RxOffset(rx_highest_status)
              /\ \A part \in NackedParts(r.nacks, sn) :
                    /\ RxOffset(sn) < RxOffset(r.ack_sn)
                    /\ part.so_start \in Int /\ part.so_end \in Int
              /\ RxOffset(sn) < RxOffset(r.ack_sn) =>
                    \A c \in GapStarts(sn) : \E part \in NackedParts(r.nacks, sn) :
                       /\ part.so_start \in Nat /\ part.so_start <= c
                       /\ part.so_end = ToEnd \/ part.so_end = Gap(sn, c).so_end
<1> DEFINE r == StatusReport(size)
           gaps == MissingGaps
<1>1. PICK n : /\ GapList(gaps, n)
               /\ rx_list = {} => n = 0
               /\ rx_list # {} =>
                     /\ \A g \in Gaps : \E i \in 1 .. n : gaps[i] = g
                     /\ \A i, j \in 1 .. n : i < j => GapBefore(gaps[i], gaps[j])
  BY MissingGapsAre DEF RxInv
<1>2. n \in Nat /\ gaps \in [1 .. n -> Gaps]
  BY <1>1 DEF GapList
<1>3. PICK T \in 0 .. n :
         /\ T = 0 => r.ack_sn = rx_next
         /\ T > 0 => r.ack_sn = SnNext(gaps[T].sn)
         /\ \A i \in 1 .. T :
               \E part \in NackedParts(r.nacks, gaps[i].sn) :
                  /\ part.so_start = gaps[i].so_start
                  /\ part.so_end = gaps[i].so_end \/ part.so_end = ToEnd
         /\ 0 < T /\ T < n =>
               \E part \in NackedParts(r.nacks, gaps[T].sn) :
                  part.so_start = gaps[T].so_start /\ part.so_end = ToEnd
         /\ \A x \in SN : \A part \in NackedParts(r.nacks, x) :
               \E i \in 1 .. T :
                  /\ gaps[i].sn = x
                  /\ part.so_start = gaps[i].so_start
                  /\ part.so_end = gaps[i].so_end \/ part.so_end = ToEnd
  BY <1>1, ReportNamesGaps DEF RxInv
<1> HIDE DEF r, gaps
<1>4. \A i \in 1 .. n :
         /\ gaps[i] \in Gaps /\ gaps[i].sn \in SN /\ gaps[i].so_start \in Nat
         /\ RxOffset(gaps[i].sn) \in Nat
         /\ RxOffset(gaps[i].sn) < RxOffset(rx_highest_status)
  BY <1>2, GapElement DEF RxInv
<1>5. /\ rx_next \in SN /\ RxOffset(rx_next) = 0
      /\ RxOffset(rx_highest_status) \in Nat /\ RxOffset(rx_highest_status) <= SnModulus - 1
      /\ RxOffset(sn) \in Nat /\ SnModulus \in Nat
  BY ModulusType, SnAssumption DEF RxInv, RxTypeOK, RxOffset
<1>6. T > 0 => RxOffset(r.ack_sn) = RxOffset(gaps[T].sn) + 1
  <2> SUFFICES ASSUME T > 0
               PROVE  RxOffset(r.ack_sn) = RxOffset(gaps[T].sn) + 1
    OBVIOUS
  <2>1. T \in 1 .. n
    BY <1>2
  <2> DEFINE a == gaps[T].sn
  <2>2. a \in SN /\ RxOffset(a) \in Nat /\ RxOffset(a) < RxOffset(rx_highest_status)
    BY <1>4, <2>1
  <2>3. r.ack_sn = SnNext(a)
    BY <1>3
  <2> HIDE DEF a
  <2>4. RxOffset(r.ack_sn) = IF RxOffset(a) = SnModulus - 1 THEN 0 ELSE RxOffset(a) + 1
    BY <1>5, <2>2, <2>3, ModulusNext DEF RxOffset
  <2>5. RxOffset(a) # SnModulus - 1
    BY <1>5, <2>2
  <2> QED
    BY <2>4, <2>5 DEF a
<1>7. RxOffset(r.ack_sn) <= RxOffset(rx_highest_status)
  <2>1. CASE T = 0
    BY <1>3, <1>5, <2>1
  <2>2. CASE T > 0
    <3>1. T \in 1 .. n
      BY <1>2, <2>2
    <3> QED
      BY <1>4, <1>5, <1>6, <2>2, <3>1
  <2> QED
    BY <1>2, <2>1, <2>2
<1>8. ASSUME RxOffset(sn) < RxOffset(r.ack_sn), NEW c \in GapStarts(sn)
      PROVE  \E part \in NackedParts(r.nacks, sn) :
                /\ part.so_start \in Nat /\ part.so_start <= c
                /\ part.so_end = ToEnd \/ part.so_end = Gap(sn, c).so_end
  <2>1. T \in 1 .. n /\ T > 0
    <3>1. T # 0
      BY <1>3, <1>5, <1>8
    <3> QED
      BY <1>2, <3>1
  <2>2. RxOffset(sn) <= RxOffset(gaps[T].sn) /\ RxOffset(sn) < RxOffset(rx_highest_status)
    BY <1>4, <1>5, <1>6, <1>8, <2>1
  <2> DEFINE g == Gap(sn, c)
  <2>3. g \in Gaps
    BY <2>2 DEF Gaps
  <2>4. g.sn = sn /\ g.so_start = c /\ c \in Nat
    BY GapIs DEF RxInv
  <2> HIDE DEF g
  <2>5. rx_list # {}
    BY <1>1, <2>1
  <2>6. PICK i \in 1 .. n : gaps[i] = g
    BY <1>1, <2>3, <2>5
  <2>7. CASE i <= T
    <3>1. i \in 1 .. T
      BY <1>2, <2>7
    <3>2. PICK part \in NackedParts(r.nacks, gaps[i].sn) :
             /\ part.so_start = gaps[i].so_start
             /\ part.so_end = gaps[i].so_end \/ part.so_end = ToEnd
      BY <1>3, <3>1
    <3>3. part \in NackedParts(r.nacks, sn) /\ part.so_start = c
          /\ (part.so_end = g.so_end \/ part.so_end = ToEnd)
      BY <2>4, <2>6, <3>2
    <3> QED
      BY <2>4, <3>3 DEF g
  <2>8. CASE i > T
    <3>1. T < n
      BY <1>2, <2>8
    <3>2. GapBefore(gaps[T], gaps[i])
      BY <1>1, <2>1, <2>5, <2>8
    <3>3. gaps[T].sn = sn /\ gaps[T].so_start < c
      BY <1>4, <1>5, <2>1, <2>2, <2>4, <2>6, <3>2 DEF GapBefore
    <3>4. PICK part \in NackedParts(r.nacks, gaps[T].sn) :
             part.so_start = gaps[T].so_start /\ part.so_end = ToEnd
      BY <1>3, <2>1, <3>1
    <3>5. part \in NackedParts(r.nacks, sn) /\ part.so_start \in Nat /\ part.so_start <= c
      BY <1>4, <2>1, <2>4, <3>3, <3>4
    <3> QED
      BY <3>4, <3>5
  <2> QED
    BY <1>2, <2>7, <2>8
<1>9. r.ack_sn \in SN
  <2>1. CASE T = 0
    BY <1>3, <1>5, <2>1
  <2>2. CASE T > 0
    <3>1. T \in 1 .. n
      BY <1>2, <2>2
    <3>2. gaps[T].sn \in SN
      BY <1>4, <3>1
    <3> QED
      BY <1>3, <2>2, <3>2, SnAssumption DEF SN, SnNext, SnWrap
  <2> QED
    BY <1>2, <2>1, <2>2
<1>10. ASSUME rx_list # {}, NEW part \in NackedParts(r.nacks, sn)
       PROVE  /\ RxOffset(sn) < RxOffset(r.ack_sn)
              /\ part.so_start \in Int /\ part.so_end \in Int
  <2>1. PICK i \in 1 .. T : /\ gaps[i].sn = sn
                            /\ part.so_start = gaps[i].so_start
                            /\ part.so_end = gaps[i].so_end \/ part.so_end = ToEnd
    BY <1>3, <1>10
  <2>2. i \in 1 .. n /\ T \in 1 .. n /\ T > 0
    BY <1>2
  <2>3. RxOffset(gaps[i].sn) <= RxOffset(gaps[T].sn)
    <3>1. CASE i = T
      BY <1>4, <2>2, <3>1
    <3>2. CASE i # T
      <4>1. i < T
        BY <1>2, <2>2, <3>2
      <4>2. GapBefore(gaps[i], gaps[T])
        BY <1>1, <1>10, <2>2, <4>1
      <4> QED
        BY <1>4, <2>2, <4>2 DEF GapBefore
    <3> QED
      BY <3>1, <3>2
  <2>4. RxOffset(sn) < RxOffset(r.ack_sn)
    BY <1>4, <1>5, <1>6, <2>1, <2>2, <2>3
  <2>5. part.so_start \in Int
    BY <1>4, <2>1, <2>2
  <2>6. part.so_end \in Int
    <3> DEFINE g == gaps[i]
    <3>1. g \in Gaps
      BY <1>4, <2>2
    <3>2. g.sn \in SN /\ g.so_start \in GapStarts(g.sn) /\ g = Gap(g.sn, g.so_start)
      BY <3>1, GapElement DEF RxInv
    <3> HIDE DEF g
    <3>3. Gap(g.sn, g.so_start).so_end \in Nat \cup {ToEnd}
      BY <3>2, GapIs DEF RxInv
    <3>4. g.so_end \in Int
      BY <3>2, <3>3 DEF ToEnd
    <3> QED
      BY <2>1, <3>4 DEF g, ToEnd
  <2> QED
    BY <2>4, <2>5, <2>6
<1>11. rx_list = {} => NackedParts(r.nacks, sn) = {}
  <2> SUFFICES ASSUME rx_list = {}, NEW part \in NackedParts(r.nacks, sn)
               PROVE  FALSE
    OBVIOUS
  <2>1. T = 0 /\ 1 .. T = {}
    BY <1>1, <1>2
  <2> QED
    BY <1>3, <2>1
<1>12. ASSUME NEW part \in NackedParts(r.nacks, sn)
       PROVE  /\ RxOffset(sn) < RxOffset(r.ack_sn)
              /\ part.so_start \in Int /\ part.so_end \in Int
  BY <1>10, <1>11, <1>12
<1> QED
  BY <1>7, <1>8, <1>9, <1>12 DEF r

LEMMA ReportExact ==
    ASSUME RxInv, ListFinite
    PROVE  ReportIsExact
<1> SUFFICES ASSUME NEW size \in ReportGrants
             PROVE  LET r == StatusReport(size) IN
                /\ RxOffset(r.ack_sn) <= RxOffset(rx_highest_status)
                /\ \A sn \in SN : RxOffset(sn) < RxOffset(r.ack_sn) =>
                     /\ \A l \in SegmentsOf(rx_list, sn) : \A b \in 0 .. l.so :
                           ~SduDelivered(rx_list, sn) /\ b \notin Covered(rx_list, sn)
                              => Nacks(r, sn, b, b)
                     /\ (/\ ~SduDelivered(rx_list, sn)
                         /\ ~\E l \in SegmentsOf(rx_list, sn) : l.last) =>
                           \E part \in NackedParts(r.nacks, sn) : part.so_end = ToEnd
                /\ r.nacks = NackBlocks => \A l \in rx_list : \A b \in Bytes(l) :
                      ~Nacks(r, l.sn, b, b)
  BY DEF ReportIsExact
<1> DEFINE r == StatusReport(size)
<1>1. size \in Nat /\ size >= StatusHeader
  BY RxAssumption DEF ReportGrants
<1>2. RxTypeOK
  BY DEF RxInv
<1>3. /\ RxOffset(r.ack_sn) <= RxOffset(rx_highest_status)
      /\ \A sn \in SN : RxOffset(sn) < RxOffset(r.ack_sn) =>
            \A c \in GapStarts(sn) : \E part \in NackedParts(r.nacks, sn) :
               /\ part.so_start \in Nat /\ part.so_start <= c
               /\ part.so_end = ToEnd \/ part.so_end = Gap(sn, c).so_end
  <2>1. \E sn : sn \in SN
    BY <1>2 DEF RxTypeOK
  <2> QED
    BY <1>1, <2>1, GapIsNamed
<1> HIDE DEF r
<1>4. ASSUME NEW sn \in SN, RxOffset(sn) < RxOffset(r.ack_sn),
             NEW l \in SegmentsOf(rx_list, sn), NEW b \in 0 .. l.so,
             b \notin Covered(rx_list, sn)
      PROVE  Nacks(r, sn, b, b)
  <2>1. PICK c \in GapStarts(sn) :
           c <= b /\ (Gap(sn, c).so_end = ToEnd \/ b <= Gap(sn, c).so_end)
    BY <1>2, <1>4, GapOfByte
  <2>2. PICK part \in NackedParts(r.nacks, sn) :
           /\ part.so_start \in Nat /\ part.so_start <= c
           /\ part.so_end = ToEnd \/ part.so_end = Gap(sn, c).so_end
    BY <1>3, <1>4
  <2>3. c \in Nat /\ Gap(sn, c).so_end \in Nat \cup {ToEnd}
    BY <1>2, GapIs
  <2>4. b \in Int
    OBVIOUS
  <2>5. Overlaps(part, b, b)
    BY <2>1, <2>2, <2>3, <2>4 DEF Overlaps
  <2> QED
    BY <2>5 DEF Nacks
<1>5. ASSUME NEW sn \in SN, RxOffset(sn) < RxOffset(r.ack_sn),
             ~\E l \in SegmentsOf(rx_list, sn) : l.last
      PROVE  \E part \in NackedParts(r.nacks, sn) : part.so_end = ToEnd
  <2>1. PICK c \in GapStarts(sn) : Gap(sn, c).so_end = ToEnd
    BY <1>2, <1>5, GapToEnd
  <2> QED
    BY <1>3, <1>5, <2>1
<1>6. ASSUME r.nacks = NackBlocks, NEW l \in rx_list, NEW b \in Bytes(l), Nacks(r, l.sn, b, b)
      PROVE  FALSE
  <2>1. l.sn \in SN /\ l.so \in Nat /\ l.size \in Nat /\ l \in SegmentsOf(rx_list, l.sn)
    BY <1>2 DEF RxTypeOK, StoredPdu, SegmentsOf
  <2>2. PICK part \in NackedParts(NackBlocks, l.sn) : Overlaps(part, b, b)
    BY <1>6 DEF Nacks
  <2>3. PICK n : GapList(MissingGaps, n)
    BY <1>2, MissingGapsAre
  <2>4. PICK g \in Gaps : g.sn = l.sn /\ part = [so_start |-> g.so_start, so_end |-> g.so_end]
    BY <1>2, <2>1, <2>3, BlocksNameGaps
  <2>5. g.so_start \in GapStarts(l.sn) /\ g = Gap(l.sn, g.so_start)
    BY <1>2, <2>4, GapElement
  <2>6. /\ g.so_start \in Nat /\ g.so_end \in Nat \cup {ToEnd}
        /\ g.so_end # ToEnd => g.so_end >= g.so_start
        /\ l.so + l.size <= g.so_start \/ (g.so_end # ToEnd /\ l.so > g.so_end)
    BY <1>2, <2>1, <2>5, GapIs
  <2>7. b \in Int /\ l.so <= b /\ b < l.so + l.size
    BY <2>1 DEF Bytes
  <2>8. part.so_start = g.so_start /\ part.so_end = g.so_end
    BY <2>4
  <2> QED
    BY <2>1, <2>2, <2>6, <2>7, <2>8 DEF Overlaps, ToEnd
<1> QED
  BY <1>3, <1>4, <1>5, <1>6 DEF r

-----------------------------------------------------------------------------
(* The reports of the receiving entity *)

LEMMA FreeDataFinite ==
    ASSUME NEW list, IsFiniteSet(list), NEW sn
    PROVE  IsFiniteSet(FreeData(list, sn))
<1> DEFINE f == [l \in list |-> IF l.sn = sn THEN [l EXCEPT !.data = FALSE] ELSE l]
           img == {f[l] : l \in list}
<1>1. f \in [list -> img]
  OBVIOUS
<1>2. FreeData(list, sn) = img
  BY Zenon DEF FreeData
<1>3. IsFiniteSet(img)
  <2>1. f \in Surjection(list, img)
    BY <1>1 DEF Surjection
  <2> HIDE DEF f, img
  <2> QED
    BY <2>1, FS_Surjection
<1> QED
  BY <1>2, <1>3

LEMMA ListStaysFinite ==
    ASSUME ListFinite, [RxNext]_rxVars
    PROVE  ListFinite'
<1>1. ASSUME UNCHANGED rx_list
      PROVE  ListFinite'
  BY <1>1 DEF ListFinite
<1>2. CASE \E pdu \in Pdus : RecvDataPdu(pdu)
  <2>1. PICK pdu \in Pdus : RecvDataPdu(pdu)
    BY <1>2
  <2>2. IsFiniteSet(ReceivedList(pdu))
    BY FS_AddElement DEF ListFinite, ReceivedList
  <2>3. CASE DiscardPdu(pdu)
    BY <1>1, <2>3 DEF DiscardPdu
  <2>4. CASE StorePdu(pdu)
    BY <2>2, <2>4 DEF StorePdu, ListFinite
  <2>5. CASE CompleteSdu(pdu)
    <3>1. IsFiniteSet(FreeData(ReceivedList(pdu), pdu.sn))
      BY <2>2, FreeDataFinite
    <3>2. rx_list' \subseteq FreeData(ReceivedList(pdu), pdu.sn)
      BY <2>5, Zenon DEF CompleteSdu
    <3> QED
      BY <3>1, <3>2, FS_Subset DEF ListFinite
  <2> QED
    BY <2>1, <2>3, <2>4, <2>5 DEF RecvDataPdu
<1>3. CASE RxReestablish
  BY <1>3, FS_EmptySet DEF RxReestablish, ListFinite
<1>4. CASE UNCHANGED rxVars
  BY <1>1, <1>4 DEF rxVars
<1> QED
  BY <1>1, <1>2, <1>3, <1>4 DEF RxNext, ReassemblyExpires, GenerateStatus, ProhibitElapses

\* Only finitely many segments are ever listed: each PDU adds at most one.
THEOREM RxListIsFinite == RxSpec => []ListFinite
<1>1. RxInit => ListFinite
  BY FS_EmptySet DEF RxInit, ListFinite
<1> QED
  BY <1>1, ListStaysFinite, PTL DEF RxSpec

\* In every state of the receiving entity, for every size of the buffer MAC
\* offers, the report generate_status writes acknowledges nothing beyond
\* rx_highest_status; below its ACK_SN it NACKs every byte that is missing
\* before a received one, and the end of every SDU whose last segment is
\* missing; and, when it holds all the blocks generate_missing and
\* next_missing make, it NACKs no byte that was received.
THEOREM RxReportIsExact == RxSpec => []ReportIsExact
<1>1. RxInv /\ ListFinite => ReportIsExact
  BY ReportExact
<1> QED
  BY <1>1, RxInvariant, RxListIsFinite, PTL

-----------------------------------------------------------------------------
(* The list the walks go over *)

\* q lists the entries of rx_list, in the order of SN, byte and length.
IsRxList(q) ==
    /\ Len(q) \in Nat
    /\ q \in [1 .. Len(q) -> rx_list]
    /\ \A l \in rx_list : \E i \in 1 .. Len(q) : q[i] = l
    /\ \A i, j \in 1 .. Len(q) : i < j => Before(q[i], q[j])

\* What the walks rely on: no two entries have the same bytes, and among the
\* entries of a delivered SDU the shortest that starts at byte 0, which comes
\* first in the list, has been delivered.
EntriesDistinct(list) ==
    \A k, l \in list : k.sn = l.sn /\ k.so = l.so /\ k.size = l.size => k = l

DeliveredFirst(list) ==
    \A l \in list : ~l.data =>
        \E f \in list :
            /\ f.sn = l.sn /\ f.so = 0 /\ ~f.data
            /\ \A k \in list : k.sn = l.sn /\ k.so = 0 => f.size <= k.size

\* Entries that are distinct can be put in that order.
LEMMA RxListIs ==
    ASSUME RxTypeOK, IsFiniteSet(rx_list), EntriesDistinct(rx_list)
    PROVE  IsRxList(RxList)
<1> DEFINE q == RxList
           n == Cardinality(rx_list)
           below == [x \in rx_list |-> {y \in rx_list : Before(y, x)}]
<1>1. n \in Nat
  BY FS_CardinalityType
<1>2. \A g \in rx_list : /\ g.sn \in SN /\ g.so \in Nat /\ g.size \in Nat
                         /\ RxOffset(g.sn) \in Int
  BY OffsetType DEF RxTypeOK, StoredPdu
<1>3. \A g, h \in rx_list : \/ g = h
                            \/ RxOffset(g.sn) # RxOffset(h.sn)
                            \/ g.sn = h.sn /\ g.so # h.so
                            \/ g.sn = h.sn /\ g.so = h.so /\ g.size # h.size
  BY <1>2, ModulusInjective DEF RxOffset, RxTypeOK, EntriesDistinct
<1>4. \A x \in rx_list : x \notin below[x]
  BY <1>2 DEF Before
<1>5. ASSUME NEW x \in rx_list, NEW y \in rx_list, y \in below[x]
      PROVE  below[y] \subseteq below[x]
  <2> SUFFICES ASSUME NEW z \in rx_list, Before(z, y)
               PROVE  Before(z, x)
    OBVIOUS
  <2>1. Before(y, x)
    BY <1>5
  <2> QED
    BY <1>2, <2>1 DEF Before
<1>6. \A x, y \in rx_list : x = y \/ x \in below[y] \/ y \in below[x]
  BY <1>2, <1>3 DEF Before
<1>7. below \in [rx_list -> SUBSET rx_list]
  OBVIOUS
<1>8. q = [k \in 1 .. n |-> CHOOSE x \in rx_list : Cardinality({y \in rx_list : Before(y, x)}) = k - 1]
  BY DEF RxList, InOrder
<1> HIDE DEF q, n
<1>9. ASSUME NEW k \in 1 .. n, \E x \in rx_list : Cardinality(below[x]) = k - 1
      PROVE  q[k] \in rx_list /\ Cardinality(below[q[k]]) = k - 1
  <2>1. \E x \in rx_list : Cardinality({y \in rx_list : Before(y, x)}) = k - 1
    BY <1>9
  <2>2. q[k] = CHOOSE x \in rx_list : Cardinality({y \in rx_list : Before(y, x)}) = k - 1
    BY <1>8
  <2> QED
    BY <2>1, <2>2
<1> HIDE DEF below
<1>10. IsRanking(rx_list, below, n, q)
  <2>1. \A k \in 1 .. n : (\E x \in rx_list : Cardinality(below[x]) = k - 1) =>
                              q[k] \in rx_list /\ Cardinality(below[q[k]]) = k - 1
    BY <1>9
  <2>2. \A x, y \in rx_list : y \in below[x] => below[y] \subseteq below[x]
    BY <1>5
  <2> QED
    BY <1>1, <1>4, <1>6, <1>7, <2>1, <2>2 DEF IsRanking, n
<1>11. /\ \A k \in 1 .. n : q[k] \in rx_list
       /\ \A g \in rx_list : \E i \in 1 .. n : q[i] = g
       /\ \A i, j \in 1 .. n : i < j => q[i] \in below[q[j]]
  BY <1>10, RankedList
<1>12. \A i, j \in 1 .. n : i < j => Before(q[i], q[j])
  BY <1>11 DEF below
<1>13. q \in [1 .. n -> rx_list]
  BY <1>8, <1>11
<1>14. Len(q) = n
  BY <1>1, <1>13, SeqLen
<1>15. IsRxList(q)
  BY <1>1, <1>11, <1>12, <1>13, <1>14 DEF IsRxList
<1> QED
  BY <1>15 DEF q

\* The entries of an SDU are in the order of their first bytes.
LEMMA EntriesInOrder ==
    ASSUME RxTypeOK, NEW q, IsRxList(q)
    PROVE  /\ \A i \in 1 .. Len(q) : /\ q[i] \in rx_list /\ q[i].sn \in SN /\ q[i].so \in Nat
                                     /\ q[i].size \in Nat \ {0}
                                     /\ q[i].last \in BOOLEAN /\ q[i].data \in BOOLEAN
           /\ \A i, j \in 1 .. Len(q) : i < j /\ q[i].sn = q[j].sn =>
                 /\ q[i].so <= q[j].so
                 /\ q[i].so = q[j].so => q[i].size < q[j].size
<1>1. ASSUME NEW i \in 1 .. Len(q)
      PROVE  /\ q[i] \in rx_list /\ q[i].sn \in SN /\ q[i].so \in Nat
             /\ q[i].size \in Nat \ {0}
             /\ q[i].last \in BOOLEAN /\ q[i].data \in BOOLEAN
  BY DEF IsRxList, RxTypeOK, StoredPdu
<1>2. ASSUME NEW i \in 1 .. Len(q), NEW j \in 1 .. Len(q), i < j, q[i].sn = q[j].sn
      PROVE  /\ q[i].so <= q[j].so
             /\ q[i].so = q[j].so => q[i].size < q[j].size
  <2>1. Before(q[i], q[j])
    BY <1>2 DEF IsRxList
  <2>2. RxOffset(q[i].sn) \in Int
    BY <1>1, OffsetType
  <2> QED
    BY <1>1, <1>2, <2>1, <2>2 DEF Before
<1> QED
  BY <1>1, <1>2

\* A byte before an entry, and behind all entries of its SDU before that one,
\* was not received.
LEMMA ByteNotCovered ==
    ASSUME RxTypeOK, NEW q, IsRxList(q), NEW i \in 1 .. Len(q), NEW b \in Int,
           b < q[i].so,
           \A k \in 1 .. i - 1 : q[k].sn = q[i].sn => q[k].so + q[k].size <= b
    PROVE  b \notin Covered(rx_list, q[i].sn)
<1> SUFFICES ASSUME b \in Covered(rx_list, q[i].sn)
             PROVE  FALSE
  OBVIOUS
<1>1. PICK l \in rx_list : l.sn = q[i].sn /\ b \in Bytes(l)
  BY DEF Covered, SegmentsOf
<1>2. PICK j \in 1 .. Len(q) : q[j] = l
  BY DEF IsRxList
<1>3. l.so \in Nat /\ l.size \in Nat /\ q[i].so \in Nat /\ Len(q) \in Nat
  BY <1>2, EntriesInOrder DEF IsRxList
<1>4. l.so <= b /\ b < l.so + l.size
  BY <1>1, <1>3 DEF Bytes
<1>5. CASE j < i
  <2>1. j \in 1 .. i - 1
    BY <1>3, <1>5
  <2> QED
    BY <1>1, <1>2, <1>3, <1>4, <2>1
<1>6. CASE j = i
  BY <1>2, <1>3, <1>4, <1>6
<1>7. CASE j > i
  <2>1. q[i].so <= q[j].so
    BY <1>1, <1>2, <1>7, EntriesInOrder
  <2> QED
    BY <1>2, <1>3, <1>4, <2>1
<1> QED
  BY <1>3, <1>5, <1>6, <1>7

\* The bytes of an entry have been received.
LEMMA EntryCovers ==
    ASSUME RxTypeOK, NEW q, IsRxList(q), NEW i \in 1 .. Len(q)
    PROVE  Bytes(q[i]) \subseteq Covered(rx_list, q[i].sn)
BY EntriesInOrder DEF Covered, SegmentsOf

-----------------------------------------------------------------------------
(* segment_already_received *)

\* The walk of segment_already_received cuts from pdu what an entry has of it, at
\* either end.  What it says is received is received; when bytes are left, the
\* first of them is in no entry, for the entries come in the order of their first
\* bytes: an entry that has gone by ends before it.
LEMMA AlreadyReceivedWalkIs ==
    ASSUME RxTypeOK, NEW q, IsRxList(q), NEW pdu \in DataPdu
    PROVE  AlreadyReceivedWalk(q, pdu) <=> SegmentAlreadyReceived(rx_list, pdu)
<1> DEFINE n == Len(q)
           S == [so : Int, size : Int]
           init == [so |-> pdu.so, size |-> pdu.size]
           Walk(g) == g = [i \in 0 .. n |-> IF i = 0 THEN init
                                            ELSE LeftBehind(g[i - 1], pdu.sn, q[i])]
           left == CHOOSE g : Walk(g)
           sn == pdu.sn
           Cov == Covered(rx_list, sn)
<1>1. /\ pdu.so \in Nat /\ pdu.size \in Nat \ {0} /\ sn \in SN /\ n \in Nat
      /\ init \in S /\ init.so = pdu.so /\ init.size = pdu.size
  BY DEF DataPdu, IsRxList
<1>2. \A i \in 1 .. n : /\ q[i].so \in Nat /\ q[i].size \in Nat \ {0}
                        /\ q[i].sn = sn => Bytes(q[i]) \subseteq Cov
  BY EntriesInOrder, EntryCovers
<1>3. AlreadyReceivedWalk(q, pdu) <=> left[n].size <= 0
  BY DEF AlreadyReceivedWalk
<1> HIDE DEF init, n, sn, Cov
<1>4. \A i \in 1 .. n : \A s \in S : LeftBehind(s, sn, q[i]) \in S
  BY <1>2 DEF LeftBehind
<1>5. \E g : Walk(g)
  <2> DEFINE step == [i \in 1 .. n |-> [s \in S |-> LeftBehind(s, sn, q[i])]]
  <2>1. step \in [1 .. n -> [S -> S]]
    BY <1>4
  <2>2. \A i \in 1 .. n : \A s \in S : step[i][s] = LeftBehind(s, sn, q[i])
    OBVIOUS
  <2>3. IsLoop(n, S, init, step)
    BY <1>1, <2>1 DEF IsLoop
  <2> HIDE DEF step, S
  <2>4. PICK w : Runs(w, n, S, init, step)
    BY <2>3, LoopValues
  <2>5. /\ w \in [0 .. n -> S]
        /\ w[0] = init /\ \A i \in 1 .. n : w[i] = step[i][w[i - 1]]
    BY <2>4 DEF Runs
  <2>6. \A i \in 0 .. n : i # 0 => i \in 1 .. n /\ w[i - 1] \in S
    BY <1>1, <2>5
  <2>7. \A i \in 0 .. n : w[i] = IF i = 0 THEN init ELSE LeftBehind(w[i - 1], sn, q[i])
    BY <2>2, <2>5, <2>6
  <2>8. w = [i \in 0 .. n |-> w[i]]
    BY <2>5
  <2> QED
    BY <2>7, <2>8 DEF sn
<1>6. /\ left[0] = init
      /\ \A i \in 1 .. n : left[i] = LeftBehind(left[i - 1], sn, q[i])
  <2>1. Walk(left)
    BY <1>5
  <2> HIDE DEF left
  <2>2. \A i \in 0 .. n : left[i] = IF i = 0 THEN init ELSE LeftBehind(left[i - 1], sn, q[i])
    BY <2>1 DEF sn
  <2>3. 0 \in 0 .. n /\ \A i \in 1 .. n : i \in 0 .. n /\ i # 0
    BY <1>1
  <2> QED
    BY <2>2, <2>3
<1> HIDE DEF left
<1> DEFINE Looking(s, i) ==
              /\ pdu.so <= s.so /\ s.so + s.size <= pdu.so + pdu.size
              /\ \A b \in Bytes(pdu) : b \in Cov \/ b \in Bytes(s)
              /\ \A k \in 1 .. i : q[k].sn = sn => s.so \notin Bytes(q[k])
           Good(i) == /\ left[i] \in S
                      /\ IF left[i].size <= 0 THEN Bytes(pdu) \subseteq Cov
                         ELSE Looking(left[i], i)
           P == {i \in 0 .. n : Good(i)}
<1>7. 0 \in P
  BY <1>1, <1>6 DEF Bytes
<1>8. ASSUME NEW i \in 1 .. n, i - 1 \in P
      PROVE  i \in P
  <2> DEFINE s == left[i - 1]
             t == left[i]
             l == q[i]
  <2>1. /\ s \in S /\ s.so \in Int /\ s.size \in Int
        /\ IF s.size <= 0 THEN Bytes(pdu) \subseteq Cov ELSE Looking(s, i - 1)
    BY <1>8
  <2>2. t = LeftBehind(s, sn, l) /\ t \in S
    BY <1>4, <1>6, <2>1
  <2>3. l.so \in Nat /\ l.size \in Nat \ {0}
    BY <1>2
  <2>4. \A k \in 1 .. i : k = i \/ k \in 1 .. i - 1
    OBVIOUS
  <2>5. Good(i)
    <3>1. CASE s.size <= 0
      BY <2>1, <2>2, <3>1 DEF LeftBehind
    <3>2. CASE s.size > 0 /\ l.sn # sn
      <4>1. t = s /\ Looking(s, i - 1)
        BY <2>1, <2>2, <3>2 DEF LeftBehind
      <4>2. Looking(s, i)
        BY <2>4, <3>2, <4>1
      <4> QED
        BY <2>1, <2>2, <3>2, <4>1, <4>2
    <3>3. CASE s.size > 0 /\ l.sn = sn /\ s.so \in Bytes(l)
      <4>1. Looking(s, i - 1) /\ Bytes(l) \subseteq Cov
        BY <1>2, <2>1, <3>3
      <4>2. t = [so |-> l.so + l.size, size |-> s.size - (l.so + l.size - s.so)]
        BY <2>2, <3>3 DEF LeftBehind
      <4>3. t.so = l.so + l.size /\ t.size = s.size - (l.so + l.size - s.so)
        BY <4>2
      <4>4. l.so <= s.so /\ s.so < l.so + l.size
        BY <2>1, <2>3, <3>3 DEF Bytes
      <4>5. \A b \in Bytes(s) : b \in Bytes(l) \/ b \in Bytes(t)
        BY <2>1, <2>3, <4>3, <4>4 DEF Bytes
      <4>6. \A b \in Bytes(pdu) : b \in Cov \/ b \in Bytes(t)
        BY <4>1, <4>5
      <4>7. CASE t.size <= 0
        <5>1. Bytes(t) = {}
          BY <2>2, <4>7 DEF Bytes
        <5> QED
          BY <2>2, <4>6, <4>7, <5>1
      <4>8. CASE ~(t.size <= 0)
        <5>1. pdu.so <= t.so /\ t.so + t.size <= pdu.so + pdu.size
          BY <1>1, <2>1, <2>3, <4>1, <4>3, <4>4
        <5>2. ASSUME NEW k \in 1 .. i - 1, q[k].sn = sn
              PROVE  t.so \notin Bytes(q[k])
          <6>1. k \in 1 .. n /\ k < i
            BY <1>1
          <6>2. q[k].so <= l.so /\ q[k].so \in Nat /\ q[k].size \in Nat
            BY <1>2, <3>3, <5>2, <6>1, EntriesInOrder DEF n
          <6>3. s.so \notin Bytes(q[k])
            BY <4>1, <5>2
          <6> QED
            BY <2>1, <2>3, <4>3, <4>4, <6>2, <6>3 DEF Bytes
        <5>3. t.so \notin Bytes(l)
          BY <2>3, <4>3 DEF Bytes
        <5>4. Looking(t, i)
          BY <2>4, <4>6, <5>1, <5>2, <5>3
        <5> QED
          BY <2>2, <4>8, <5>4
      <4> QED
        BY <4>7, <4>8
    <3>4. CASE s.size > 0 /\ l.sn = sn /\ s.so \notin Bytes(l) /\ s.so + s.size - 1 \in Bytes(l)
      <4>1. Looking(s, i - 1) /\ Bytes(l) \subseteq Cov
        BY <1>2, <2>1, <3>4
      <4>2. t = [s EXCEPT !.size = l.so - s.so]
        BY <2>2, <3>4 DEF LeftBehind
      <4>3. t.so = s.so /\ t.size = l.so - s.so
        BY <2>1, <4>2
      <4>4. s.so < l.so /\ l.so <= s.so + s.size - 1 /\ s.so + s.size - 1 < l.so + l.size
        BY <2>1, <2>3, <3>4 DEF Bytes
      <4>5. \A b \in Bytes(s) : b \in Bytes(l) \/ b \in Bytes(t)
        BY <2>1, <2>3, <4>3, <4>4 DEF Bytes
      <4>6. \A b \in Bytes(pdu) : b \in Cov \/ b \in Bytes(t)
        BY <4>1, <4>5
      <4>7. t.size > 0 /\ pdu.so <= t.so /\ t.so + t.size <= pdu.so + pdu.size
        BY <1>1, <2>1, <2>3, <4>1, <4>3, <4>4
      <4>8. Looking(t, i)
        BY <2>4, <3>4, <4>1, <4>3, <4>6, <4>7
      <4> QED
        BY <2>2, <4>7, <4>8
    <3>5. CASE s.size > 0 /\ l.sn = sn /\ s.so \notin Bytes(l) /\ s.so + s.size - 1 \notin Bytes(l)
      <4>1. t = s /\ Looking(s, i - 1)
        BY <2>1, <2>2, <3>5 DEF LeftBehind
      <4>2. Looking(s, i)
        BY <2>4, <3>5, <4>1
      <4> QED
        BY <2>1, <2>2, <3>5, <4>1, <4>2
    <3> QED
      BY <2>1, <3>1, <3>2, <3>3, <3>4, <3>5
  <2> QED
    BY <1>1, <2>5
<1>9. Good(n)
  <2> HIDE DEF Good
  <2>1. \A i \in 0 .. n : i \in P
    <3>1. \A i \in 1 .. n : i - 1 \in P => i \in P
      BY <1>8
    <3> HIDE DEF P
    <3> QED
      BY <1>1, <1>7, <3>1, AllPositions
  <2>2. n \in 0 .. n
    BY <1>1
  <2> QED
    BY <2>1, <2>2
<1>10. ASSUME ~(left[n].size <= 0)
       PROVE  ~(Bytes(pdu) \subseteq Cov)
  <2> DEFINE b == left[n].so
  <2>1. left[n] \in S /\ Looking(left[n], n) /\ b \in Int /\ left[n].size > 0
    BY <1>9, <1>10
  <2>2. b \in Bytes(pdu)
    BY <1>1, <2>1 DEF Bytes
  <2>3. b \notin Cov
    <3> SUFFICES ASSUME b \in Cov
                 PROVE  FALSE
      OBVIOUS
    <3>1. PICK l \in rx_list : l.sn = sn /\ b \in Bytes(l)
      BY DEF Cov, Covered, SegmentsOf
    <3>2. PICK k \in 1 .. n : q[k] = l
      BY DEF IsRxList, n
    <3> QED
      BY <2>1, <3>1, <3>2
  <2> QED
    BY <2>2, <2>3
<1> QED
  BY <1>3, <1>9, <1>10 DEF SegmentAlreadyReceived, Cov, sn

-----------------------------------------------------------------------------
(* sdu_full, sdu_has_missing_bytes *)

\* Whether an SDU has been delivered shows in its first entry.
LEMMA AlreadyProcessedIs ==
    ASSUME RxTypeOK, NEW q, IsRxList(q), DeliveredFirst(rx_list), NEW sn
    PROVE  AlreadyProcessed(q, sn) <=> SduDelivered(rx_list, sn)
<1> DEFINE n == Len(q)
<1>1. n \in Nat /\ \A i \in 1 .. n : q[i] \in rx_list
  BY EntriesInOrder DEF IsRxList
<1>2. ASSUME AlreadyProcessed(q, sn)
      PROVE  SduDelivered(rx_list, sn)
  BY <1>1, <1>2 DEF AlreadyProcessed, SduDelivered, SegmentsOf
<1>3. ASSUME SduDelivered(rx_list, sn)
      PROVE  AlreadyProcessed(q, sn)
  <2>1. PICK f \in rx_list :
           /\ f.sn = sn /\ f.so = 0 /\ ~f.data
           /\ \A k \in rx_list : k.sn = sn /\ k.so = 0 => f.size <= k.size
    BY <1>3 DEF SduDelivered, SegmentsOf, DeliveredFirst
  <2>2. PICK j \in 1 .. n : q[j] = f
    BY DEF IsRxList
  <2> DEFINE I == {i \in 1 .. n : q[i].sn = sn}
  <2>3. I \in SUBSET Nat /\ j \in I
    BY <2>1, <2>2
  <2>4. PICK i \in I : \A m \in I : i <= m
    BY <2>3, LeastNumber
  <2>5. i \in 1 .. n /\ q[i].sn = sn /\ i <= j
    BY <2>3, <2>4
  <2>6. \A m \in 1 .. i - 1 : m \in 1 .. n /\ ~(i <= m)
    BY <1>1, <2>5
  <2>7. \A m \in 1 .. i - 1 : q[m].sn # sn
    BY <2>4, <2>6
  <2> HIDE DEF I
  <2>8. ~q[i].data
    <3>1. CASE i = j
      BY <2>1, <2>2, <3>1
    <3>2. CASE i # j
      <4>1. i < j
        BY <1>1, <2>5, <3>2
      <4>2. q[i].so <= q[j].so /\ (q[i].so = q[j].so => q[i].size < q[j].size)
        BY <2>1, <2>2, <2>5, <4>1, EntriesInOrder
      <4>3. q[i].so \in Nat /\ q[i].size \in Nat /\ q[j].size \in Nat /\ q[i] \in rx_list
        BY <2>5, EntriesInOrder
      <4> QED
        BY <2>1, <2>2, <2>5, <4>2, <4>3
    <3> QED
      BY <3>1, <3>2
  <2> QED
    BY <2>5, <2>7, <2>8 DEF AlreadyProcessed
<1> QED
  BY <1>2, <1>3

\* last_byte stays a number.
LEMMA FurtherByteType ==
    ASSUME NEW b \in Int, NEW l, l.so \in Nat, l.size \in Nat \ {0}
    PROVE  FurtherByte(b, l) \in Int
<1> DEFINE A == {b, l.so + l.size - 1}
<1>1. A \in SUBSET Int
  OBVIOUS
<1>2. \E x \in A : \A y \in A : x >= y
  <2>1. CASE b >= l.so + l.size - 1
    BY <1>1, <2>1
  <2>2. CASE ~(b >= l.so + l.size - 1)
    BY <1>1, <2>2
  <2> QED
    BY <2>1, <2>2
<1>3. Max(A) \in A
  BY <1>2 DEF Max
<1> QED
  BY <1>1, <1>3 DEF FurtherByte

\* The furthest byte so far
LEMMA FurtherByteIs ==
    ASSUME NEW b \in Int, b >= -1, NEW l, l.so \in Nat, l.size \in Nat \ {0}
    PROVE  FurtherByte(b, l) = IF b >= l.so + l.size - 1 THEN b ELSE l.so + l.size - 1
<1> DEFINE A == {b, l.so + l.size - 1}
           m == IF b >= l.so + l.size - 1 THEN b ELSE l.so + l.size - 1
<1>1. m \in A /\ \A x \in A : x <= m
  OBVIOUS
<1>2. \A x, y \in A : x <= y /\ y <= x => x = y
  OBVIOUS
<1>3. Max(A) = CHOOSE x \in A : \A y \in A : x >= y
  BY DEF Max
<1>4. \E x \in A : \A y \in A : x >= y
  <2>1. \A y \in A : m >= y
    OBVIOUS
  <2> QED
    BY <1>1, <2>1
<1>5. Max(A) \in A /\ \A y \in A : Max(A) >= y
  BY <1>3, <1>4
<1>6. Max(A) = m
  <2> DEFINE x == Max(A)
  <2>1. x \in A /\ x >= b /\ x >= l.so + l.size - 1
    BY <1>5
  <2> HIDE DEF x
  <2>2. x = m
    BY <2>1
  <2> QED
    BY <2>2 DEF x
<1> QED
  BY <1>6 DEF FurtherByte

\* The bytes up to an entry that does not start too late
LEMMA CoveredFurther ==
    ASSUME RxTypeOK, NEW q, IsRxList(q), NEW i \in 1 .. Len(q), NEW b \in Int, b >= -1,
           0 .. b \subseteq Covered(rx_list, q[i].sn), q[i].so <= b + 1
    PROVE  /\ 0 .. q[i].so - 1 \subseteq Covered(rx_list, q[i].sn)
           /\ FurtherByte(b, q[i]) \in Int /\ FurtherByte(b, q[i]) >= b
           /\ q[i].so + q[i].size <= FurtherByte(b, q[i]) + 1
           /\ 0 .. FurtherByte(b, q[i]) \subseteq Covered(rx_list, q[i].sn)
<1> DEFINE Cov == Covered(rx_list, q[i].sn)
           f == FurtherByte(b, q[i])
<1>1. q[i].so \in Nat /\ q[i].size \in Nat \ {0}
  BY EntriesInOrder
<1>2. f = IF b >= q[i].so + q[i].size - 1 THEN b ELSE q[i].so + q[i].size - 1
  BY <1>1, FurtherByteIs
<1>3. Bytes(q[i]) \subseteq Cov
  BY EntryCovers
<1> HIDE DEF Cov, f
<1>4. 0 .. b \subseteq Cov
  BY DEF Cov
<1>5. f \in Int /\ f >= b /\ q[i].so + q[i].size <= f + 1
  BY <1>1, <1>2
<1>6. \A x \in 0 .. f : x \in 0 .. b \/ x \in Bytes(q[i])
  BY <1>1, <1>2 DEF Bytes
<1>7. 0 .. f \subseteq Cov
  BY <1>3, <1>4, <1>6
<1>8. \A x \in 0 .. q[i].so - 1 : x \in 0 .. b
  BY <1>1
<1>9. 0 .. q[i].so - 1 \subseteq Cov
  BY <1>4, <1>8
<1> QED
  BY <1>5, <1>7, <1>9 DEF Cov, f

\* The walk of sdu_full stops at the first byte that is missing, or at the last
\* segment: up to there it knows that every byte has been received.
LEMMA SduFullWalkIs ==
    ASSUME RxTypeOK, NEW q, IsRxList(q), DeliveredFirst(rx_list), NEW sn \in SN
    PROVE  SduFullWalk(q, sn) <=> SduFull(rx_list, sn)
<1> DEFINE n == Len(q)
           S == [last_byte : Int, done : BOOLEAN, full : BOOLEAN]
           init == [last_byte |-> -1, done |-> FALSE, full |-> FALSE]
           Walk(g) == g = [i \in 0 .. n |-> IF i = 0 THEN init
                                            ELSE FullBehind(g[i - 1], sn, q[i])]
           w == CHOOSE g : Walk(g)
           Cov == Covered(rx_list, sn)
           Full == \E l \in SegmentsOf(rx_list, sn) : l.last /\ 0 .. l.so - 1 \subseteq Cov
<1>1. /\ n \in Nat /\ init \in S
      /\ init.last_byte = -1 /\ ~init.done /\ ~init.full
  BY DEF IsRxList
<1>2. \A i \in 1 .. n : /\ q[i].so \in Nat /\ q[i].size \in Nat \ {0}
                        /\ q[i].last \in BOOLEAN
  BY EntriesInOrder
<1>3. SduFullWalk(q, sn) <=> ~AlreadyProcessed(q, sn) /\ w[n].full
  BY DEF SduFullWalk
<1>4. \A i \in 1 .. n : \A b \in Int : FurtherByte(b, q[i]) \in Int
  BY <1>2, FurtherByteType
<1> HIDE DEF init, n, Cov, Full
<1>5. \A i \in 1 .. n : \A s \in S : FullBehind(s, sn, q[i]) \in S
  BY <1>2, <1>4 DEF FullBehind
<1>6. \E g : Walk(g)
  <2> DEFINE step == [i \in 1 .. n |-> [s \in S |-> FullBehind(s, sn, q[i])]]
  <2>1. step \in [1 .. n -> [S -> S]]
    BY <1>5
  <2>2. \A i \in 1 .. n : \A s \in S : step[i][s] = FullBehind(s, sn, q[i])
    OBVIOUS
  <2>3. IsLoop(n, S, init, step)
    BY <1>1, <2>1 DEF IsLoop
  <2> HIDE DEF step, S
  <2>4. PICK g : Runs(g, n, S, init, step)
    BY <2>3, LoopValues
  <2>5. /\ g \in [0 .. n -> S]
        /\ g[0] = init /\ \A i \in 1 .. n : g[i] = step[i][g[i - 1]]
    BY <2>4 DEF Runs
  <2>6. \A i \in 0 .. n : i # 0 => i \in 1 .. n /\ g[i - 1] \in S
    BY <1>1, <2>5
  <2>7. \A i \in 0 .. n : g[i] = IF i = 0 THEN init ELSE FullBehind(g[i - 1], sn, q[i])
    BY <2>2, <2>5, <2>6
  <2>8. g = [i \in 0 .. n |-> g[i]]
    BY <2>5
  <2> QED
    BY <2>7, <2>8
<1>7. /\ w[0] = init
      /\ \A i \in 1 .. n : w[i] = FullBehind(w[i - 1], sn, q[i])
  <2>1. Walk(w)
    BY <1>6
  <2> HIDE DEF w
  <2>2. \A i \in 0 .. n : w[i] = IF i = 0 THEN init ELSE FullBehind(w[i - 1], sn, q[i])
    BY <2>1
  <2>3. 0 \in 0 .. n /\ \A i \in 1 .. n : i \in 0 .. n /\ i # 0
    BY <1>1
  <2> QED
    BY <2>2, <2>3
<1> HIDE DEF w
<1> DEFINE Going(s, i) ==
              /\ ~s.full /\ s.last_byte >= -1 /\ 0 .. s.last_byte \subseteq Cov
              /\ \A k \in 1 .. i : q[k].sn = sn =>
                    ~q[k].last /\ q[k].so + q[k].size <= s.last_byte + 1
           Good(i) == /\ w[i] \in S
                      /\ IF w[i].done THEN w[i].full <=> Full ELSE Going(w[i], i)
           P == {i \in 0 .. n : Good(i)}
<1>8. 0 \in P
  BY <1>1, <1>7
<1>9. ASSUME NEW i \in 1 .. n, i - 1 \in P
      PROVE  i \in P
  <2> DEFINE s == w[i - 1]
             t == w[i]
             l == q[i]
  <2>1. /\ s \in S /\ s.last_byte \in Int /\ s.done \in BOOLEAN /\ s.full \in BOOLEAN
        /\ IF s.done THEN s.full <=> Full ELSE Going(s, i - 1)
    BY <1>9
  <2>2. t = FullBehind(s, sn, l) /\ t \in S
    BY <1>5, <1>7, <2>1
  <2>3. l.so \in Nat /\ l.size \in Nat \ {0}
    BY <1>2
  <2>4. \A k \in 1 .. i : k = i \/ k \in 1 .. i - 1
    OBVIOUS
  <2>5. Good(i)
    <3>1. CASE s.done
      BY <2>1, <2>2, <3>1 DEF FullBehind
    <3>2. CASE ~s.done /\ l.sn # sn
      <4>1. t = s /\ Going(s, i - 1)
        BY <2>1, <2>2, <3>2 DEF FullBehind
      <4>2. Going(s, i)
        BY <2>4, <3>2, <4>1
      <4> QED
        BY <2>1, <3>2, <4>1, <4>2
    <3>3. CASE ~s.done /\ l.sn = sn /\ l.so > s.last_byte + 1
      <4>1. Going(s, i - 1)
        BY <2>1, <3>3
      <4>2. t = [s EXCEPT !.done = TRUE]
        BY <2>2, <3>3 DEF FullBehind
      <4>3. t.done /\ ~t.full
        BY <2>1, <4>1, <4>2
      <4>4. s.last_byte + 1 \notin Cov
        <5> DEFINE b == s.last_byte + 1
        <5>1. b \in Int /\ b < q[i].so
          BY <2>1, <2>3, <3>3
        <5>2. \A k \in 1 .. i - 1 : q[k].sn = q[i].sn => q[k].so + q[k].size <= b
          BY <3>3, <4>1
        <5> HIDE DEF b
        <5>3. b \notin Covered(rx_list, q[i].sn)
          BY <5>1, <5>2, ByteNotCovered DEF n
        <5> QED
          BY <3>3, <5>3 DEF b, Cov
      <4>5. ~Full
        <5> SUFFICES ASSUME Full
                     PROVE  FALSE
          OBVIOUS
        <5>1. PICK m \in SegmentsOf(rx_list, sn) : m.last /\ 0 .. m.so - 1 \subseteq Cov
          BY DEF Full
        <5>2. PICK j \in 1 .. n : q[j] = m
          BY DEF SegmentsOf, IsRxList, n
        <5>3. m.sn = sn /\ m.so \in Nat
          BY <1>2, <5>1, <5>2 DEF SegmentsOf
        <5>4. j >= i
          <6>1. j \notin 1 .. i - 1
            BY <4>1, <5>1, <5>2, <5>3
          <6> QED
            BY <1>1, <6>1
        <5>5. m.so >= l.so
          <6>1. CASE j = i
            BY <2>3, <5>2, <6>1
          <6>2. CASE j > i
            BY <3>3, <5>2, <5>3, <6>2, EntriesInOrder DEF n
          <6> QED
            BY <1>1, <5>4, <6>1, <6>2
        <5>6. s.last_byte + 1 \in 0 .. m.so - 1
          BY <2>1, <2>3, <3>3, <4>1, <5>3, <5>5
        <5> QED
          BY <4>4, <5>1, <5>6
      <4> QED
        BY <2>2, <4>3, <4>5
    <3>4. CASE ~s.done /\ l.sn = sn /\ l.so <= s.last_byte + 1 /\ l.last
      <4>1. Going(s, i - 1)
        BY <2>1, <3>4
      <4>2. t = [s EXCEPT !.done = TRUE, !.full = TRUE]
        BY <2>1, <2>2, <2>3, <3>4 DEF FullBehind
      <4>3. t.done /\ t.full
        BY <2>1, <4>2
      <4>4. 0 .. l.so - 1 \subseteq Cov
        BY <2>1, <3>4, <4>1, CoveredFurther DEF Cov, n
      <4>5. l \in SegmentsOf(rx_list, sn)
        BY <3>4 DEF SegmentsOf, IsRxList, n
      <4>6. Full
        BY <3>4, <4>4, <4>5 DEF Full
      <4> QED
        BY <2>2, <4>3, <4>6
    <3>5. CASE ~s.done /\ l.sn = sn /\ l.so <= s.last_byte + 1 /\ ~l.last
      <4>1. Going(s, i - 1)
        BY <2>1, <3>5
      <4>2. t = [s EXCEPT !.last_byte = FurtherByte(s.last_byte, l)]
        BY <2>1, <2>2, <2>3, <3>5 DEF FullBehind
      <4>3. ~t.done /\ t.full = s.full /\ t.last_byte = FurtherByte(s.last_byte, l)
        BY <2>1, <3>5, <4>2
      <4>4. /\ t.last_byte \in Int /\ t.last_byte >= s.last_byte
            /\ l.so + l.size <= t.last_byte + 1 /\ 0 .. t.last_byte \subseteq Cov
        <5> DEFINE b == s.last_byte
        <5>1. /\ b \in Int /\ b >= -1 /\ 0 .. b \subseteq Covered(rx_list, q[i].sn)
              /\ q[i].so <= b + 1
          BY <2>1, <3>5, <4>1 DEF Cov
        <5>2. t.last_byte = FurtherByte(b, q[i])
          BY <4>3
        <5> HIDE DEF b
        <5>3. /\ FurtherByte(b, q[i]) \in Int /\ FurtherByte(b, q[i]) >= b
              /\ q[i].so + q[i].size <= FurtherByte(b, q[i]) + 1
              /\ 0 .. FurtherByte(b, q[i]) \subseteq Covered(rx_list, q[i].sn)
          BY <5>1, CoveredFurther DEF n
        <5> HIDE DEF t
        <5> QED
          BY <3>5, <5>2, <5>3 DEF b, Cov
      <4>5. \A k \in 1 .. i : q[k].sn = sn =>
               ~q[k].last /\ q[k].so + q[k].size <= t.last_byte + 1
        <5> SUFFICES ASSUME NEW k \in 1 .. i, q[k].sn = sn
                     PROVE  ~q[k].last /\ q[k].so + q[k].size <= t.last_byte + 1
          OBVIOUS
        <5>1. CASE k = i
          BY <3>5, <4>4, <5>1
        <5>2. CASE k \in 1 .. i - 1
          <6>1. k \in 1 .. n
            BY <1>1, <5>2
          <6>2. q[k].so \in Nat /\ q[k].size \in Nat
            BY <1>2, <6>1
          <6>3. ~q[k].last /\ q[k].so + q[k].size <= s.last_byte + 1
            BY <4>1, <5>2
          <6> QED
            BY <2>1, <4>4, <6>2, <6>3
        <5> QED
          BY <2>4, <5>1, <5>2
      <4>6. t.last_byte >= -1
        BY <2>1, <4>1, <4>4
      <4> QED
        BY <2>2, <4>1, <4>3, <4>4, <4>5, <4>6
    <3> QED
      BY <2>1, <2>3, <3>1, <3>2, <3>3, <3>4, <3>5
  <2> QED
    BY <1>1, <2>5
<1>10. Good(n)
  <2> HIDE DEF Good
  <2>1. \A i \in 0 .. n : i \in P
    <3>1. \A i \in 1 .. n : i - 1 \in P => i \in P
      BY <1>9
    <3> HIDE DEF P
    <3> QED
      BY <1>1, <1>8, <3>1, AllPositions
  <2>2. n \in 0 .. n
    BY <1>1
  <2> QED
    BY <2>1, <2>2
<1>11. w[n].full <=> Full
  <2>1. CASE w[n].done
    BY <1>10, <2>1
  <2>2. CASE ~w[n].done
    <3>1. Going(w[n], n)
      BY <1>10, <2>2
    <3>2. ASSUME NEW m \in SegmentsOf(rx_list, sn)
          PROVE  ~m.last
      <4>1. PICK j \in 1 .. n : q[j] = m
        BY DEF SegmentsOf, IsRxList, n
      <4> QED
        BY <3>1, <4>1 DEF SegmentsOf
    <3> QED
      BY <3>1, <3>2 DEF Full
  <2> QED
    BY <1>10, <2>1, <2>2
<1> QED
  BY <1>3, <1>11, AlreadyProcessedIs DEF SduFull, Full, Cov

\* The walk of sdu_has_missing_bytes finds a hole exactly when a segment has a
\* missing byte before it.
LEMMA HasMissingBytesWalkIs ==
    ASSUME RxTypeOK, NEW q, IsRxList(q), DeliveredFirst(rx_list), NEW sn \in SN
    PROVE  HasMissingBytesWalk(q, sn) <=> SduHasMissingBytes(rx_list, sn)
<1> DEFINE n == Len(q)
           S == [last_byte : Int, hole : BOOLEAN]
           init == [last_byte |-> -1, hole |-> FALSE]
           Walk(g) == g = [i \in 0 .. n |-> IF i = 0 THEN init
                                            ELSE HoleBehind(g[i - 1], sn, q[i])]
           w == CHOOSE g : Walk(g)
           Cov == Covered(rx_list, sn)
           Hole == \E l \in SegmentsOf(rx_list, sn) : ~(0 .. l.so - 1 \subseteq Cov)
<1>1. /\ n \in Nat /\ init \in S
      /\ init.last_byte = -1 /\ ~init.hole
  BY DEF IsRxList
<1>2. \A i \in 1 .. n : q[i].so \in Nat /\ q[i].size \in Nat \ {0}
  BY EntriesInOrder
<1>3. HasMissingBytesWalk(q, sn) <=> ~AlreadyProcessed(q, sn) /\ w[n].hole
  BY DEF HasMissingBytesWalk
<1>4. \A i \in 1 .. n : \A b \in Int : FurtherByte(b, q[i]) \in Int
  BY <1>2, FurtherByteType
<1> HIDE DEF init, n, Cov, Hole
<1>5. \A i \in 1 .. n : \A s \in S : HoleBehind(s, sn, q[i]) \in S
  BY <1>2, <1>4 DEF HoleBehind
<1>6. \E g : Walk(g)
  <2> DEFINE step == [i \in 1 .. n |-> [s \in S |-> HoleBehind(s, sn, q[i])]]
  <2>1. step \in [1 .. n -> [S -> S]]
    BY <1>5
  <2>2. \A i \in 1 .. n : \A s \in S : step[i][s] = HoleBehind(s, sn, q[i])
    OBVIOUS
  <2>3. IsLoop(n, S, init, step)
    BY <1>1, <2>1 DEF IsLoop
  <2> HIDE DEF step, S
  <2>4. PICK g : Runs(g, n, S, init, step)
    BY <2>3, LoopValues
  <2>5. /\ g \in [0 .. n -> S]
        /\ g[0] = init /\ \A i \in 1 .. n : g[i] = step[i][g[i - 1]]
    BY <2>4 DEF Runs
  <2>6. \A i \in 0 .. n : i # 0 => i \in 1 .. n /\ g[i - 1] \in S
    BY <1>1, <2>5
  <2>7. \A i \in 0 .. n : g[i] = IF i = 0 THEN init ELSE HoleBehind(g[i - 1], sn, q[i])
    BY <2>2, <2>5, <2>6
  <2>8. g = [i \in 0 .. n |-> g[i]]
    BY <2>5
  <2> QED
    BY <2>7, <2>8
<1>7. /\ w[0] = init
      /\ \A i \in 1 .. n : w[i] = HoleBehind(w[i - 1], sn, q[i])
  <2>1. Walk(w)
    BY <1>6
  <2> HIDE DEF w
  <2>2. \A i \in 0 .. n : w[i] = IF i = 0 THEN init ELSE HoleBehind(w[i - 1], sn, q[i])
    BY <2>1
  <2>3. 0 \in 0 .. n /\ \A i \in 1 .. n : i \in 0 .. n /\ i # 0
    BY <1>1
  <2> QED
    BY <2>2, <2>3
<1> HIDE DEF w
<1> DEFINE Going(s, i) ==
              /\ s.last_byte >= -1 /\ 0 .. s.last_byte \subseteq Cov
              /\ \A k \in 1 .. i : q[k].sn = sn => q[k].so + q[k].size <= s.last_byte + 1
           Good(i) == /\ w[i] \in S
                      /\ IF w[i].hole THEN Hole ELSE Going(w[i], i)
           P == {i \in 0 .. n : Good(i)}
<1>8. 0 \in P
  BY <1>1, <1>7
<1>9. ASSUME NEW i \in 1 .. n, i - 1 \in P
      PROVE  i \in P
  <2> DEFINE s == w[i - 1]
             t == w[i]
             l == q[i]
  <2>1. /\ s \in S /\ s.last_byte \in Int /\ s.hole \in BOOLEAN
        /\ IF s.hole THEN Hole ELSE Going(s, i - 1)
    BY <1>9
  <2>2. t = HoleBehind(s, sn, l) /\ t \in S
    BY <1>5, <1>7, <2>1
  <2>3. l.so \in Nat /\ l.size \in Nat \ {0}
    BY <1>2
  <2>4. \A k \in 1 .. i : k = i \/ k \in 1 .. i - 1
    OBVIOUS
  <2>5. Good(i)
    <3>1. CASE s.hole
      BY <2>1, <2>2, <3>1 DEF HoleBehind
    <3>2. CASE ~s.hole /\ l.sn # sn
      <4>1. t = s /\ Going(s, i - 1)
        BY <2>1, <2>2, <3>2 DEF HoleBehind
      <4>2. Going(s, i)
        BY <2>4, <3>2, <4>1
      <4> QED
        BY <2>1, <3>2, <4>1, <4>2
    <3>3. CASE ~s.hole /\ l.sn = sn /\ l.so > s.last_byte + 1
      <4>1. Going(s, i - 1)
        BY <2>1, <3>3
      <4>2. t = [s EXCEPT !.hole = TRUE]
        BY <2>2, <3>3 DEF HoleBehind
      <4>3. t.hole
        BY <2>1, <4>2
      <4>4. s.last_byte + 1 \notin Cov
        <5> DEFINE b == s.last_byte + 1
        <5>1. b \in Int /\ b < q[i].so
          BY <2>1, <2>3, <3>3
        <5>2. \A k \in 1 .. i - 1 : q[k].sn = q[i].sn => q[k].so + q[k].size <= b
          BY <3>3, <4>1
        <5> HIDE DEF b
        <5>3. b \notin Covered(rx_list, q[i].sn)
          BY <5>1, <5>2, ByteNotCovered DEF n
        <5> QED
          BY <3>3, <5>3 DEF b, Cov
      <4>5. s.last_byte + 1 \in 0 .. l.so - 1
        BY <2>1, <2>3, <3>3, <4>1
      <4>6. l \in SegmentsOf(rx_list, sn)
        BY <3>3 DEF SegmentsOf, IsRxList, n
      <4>7. Hole
        BY <4>4, <4>5, <4>6 DEF Hole
      <4> QED
        BY <2>2, <4>3, <4>7
    <3>4. CASE ~s.hole /\ l.sn = sn /\ l.so <= s.last_byte + 1
      <4>1. Going(s, i - 1)
        BY <2>1, <3>4
      <4>2. t = [s EXCEPT !.last_byte = FurtherByte(s.last_byte, l)]
        BY <2>1, <2>2, <2>3, <3>4 DEF HoleBehind
      <4>3. ~t.hole /\ t.last_byte = FurtherByte(s.last_byte, l)
        BY <2>1, <3>4, <4>2
      <4>4. /\ t.last_byte \in Int /\ t.last_byte >= s.last_byte
            /\ l.so + l.size <= t.last_byte + 1 /\ 0 .. t.last_byte \subseteq Cov
        <5> DEFINE b == s.last_byte
        <5>1. /\ b \in Int /\ b >= -1 /\ 0 .. b \subseteq Covered(rx_list, q[i].sn)
              /\ q[i].so <= b + 1
          BY <2>1, <3>4, <4>1 DEF Cov
        <5>2. t.last_byte = FurtherByte(b, q[i])
          BY <4>3
        <5> HIDE DEF b
        <5>3. /\ FurtherByte(b, q[i]) \in Int /\ FurtherByte(b, q[i]) >= b
              /\ q[i].so + q[i].size <= FurtherByte(b, q[i]) + 1
              /\ 0 .. FurtherByte(b, q[i]) \subseteq Covered(rx_list, q[i].sn)
          BY <5>1, CoveredFurther DEF n
        <5> HIDE DEF t
        <5> QED
          BY <3>4, <5>2, <5>3 DEF b, Cov
      <4>5. \A k \in 1 .. i : q[k].sn = sn => q[k].so + q[k].size <= t.last_byte + 1
        <5> SUFFICES ASSUME NEW k \in 1 .. i, q[k].sn = sn
                     PROVE  q[k].so + q[k].size <= t.last_byte + 1
          OBVIOUS
        <5>1. CASE k = i
          BY <4>4, <5>1
        <5>2. CASE k \in 1 .. i - 1
          <6>1. k \in 1 .. n
            BY <1>1, <5>2
          <6>2. q[k].so \in Nat /\ q[k].size \in Nat
            BY <1>2, <6>1
          <6>3. q[k].so + q[k].size <= s.last_byte + 1
            BY <4>1, <5>2
          <6> QED
            BY <2>1, <4>4, <6>2, <6>3
        <5> QED
          BY <2>4, <5>1, <5>2
      <4>6. t.last_byte >= -1
        BY <2>1, <4>1, <4>4
      <4> QED
        BY <2>2, <4>3, <4>4, <4>5, <4>6
    <3> QED
      BY <2>1, <2>3, <3>1, <3>2, <3>3, <3>4
  <2> QED
    BY <1>1, <2>5
<1>10. Good(n)
  <2> HIDE DEF Good
  <2>1. \A i \in 0 .. n : i \in P
    <3>1. \A i \in 1 .. n : i - 1 \in P => i \in P
      BY <1>9
    <3> HIDE DEF P
    <3> QED
      BY <1>1, <1>8, <3>1, AllPositions
  <2>2. n \in 0 .. n
    BY <1>1
  <2> QED
    BY <2>1, <2>2
<1>11. w[n].hole <=> Hole
  <2>1. CASE w[n].hole
    BY <1>10, <2>1
  <2>2. CASE ~w[n].hole
    <3>1. Going(w[n], n) /\ w[n].last_byte \in Int
      BY <1>10, <2>2
    <3>2. ASSUME NEW m \in SegmentsOf(rx_list, sn)
          PROVE  0 .. m.so - 1 \subseteq Cov
      <4>1. PICK j \in 1 .. n : q[j] = m
        BY DEF SegmentsOf, IsRxList, n
      <4>2. m.so \in Nat /\ m.size \in Nat /\ m.so + m.size <= w[n].last_byte + 1
        BY <1>2, <3>1, <4>1 DEF SegmentsOf
      <4>3. \A x \in 0 .. m.so - 1 : x \in 0 .. w[n].last_byte
        BY <3>1, <4>2
      <4> QED
        BY <3>1, <4>3
    <3> QED
      BY <2>2, <3>2 DEF Hole
  <2> QED
    BY <1>10, <2>1, <2>2
<1> QED
  BY <1>3, <1>11, AlreadyProcessedIs DEF SduHasMissingBytes, Hole, Cov

-----------------------------------------------------------------------------
(* The walks and the steps of the receiver *)

\* What is shown of the list in every state
WalksInv ==
    /\ RxTypeOK
    /\ IsFiniteSet(rx_list)
    /\ EntriesDistinct(rx_list)
    /\ DeliveredFirst(rx_list)

\* On such a list the walks answer what the sets of bytes say.
LEMMA WalksAgree == WalksInv => ReceiverWalksAgree
<1> SUFFICES ASSUME WalksInv
             PROVE  ReceiverWalksAgree
  OBVIOUS
<1> DEFINE q == RxList
<1>1. RxTypeOK /\ DeliveredFirst(rx_list) /\ IsRxList(q)
  BY RxListIs DEF WalksInv
<1> HIDE DEF q
<1>2. ASSUME NEW pdu \in Pdus
      PROVE  AlreadyReceivedWalk(q, pdu) = SegmentAlreadyReceived(rx_list, pdu)
  <2>1. pdu \in DataPdu
    BY RxAssumption
  <2>2. AlreadyReceivedWalk(q, pdu) <=> SegmentAlreadyReceived(rx_list, pdu)
    BY <1>1, <2>1, AlreadyReceivedWalkIs
  <2>3. AlreadyReceivedWalk(q, pdu) \in BOOLEAN /\ SegmentAlreadyReceived(rx_list, pdu) \in BOOLEAN
    BY DEF AlreadyReceivedWalk, SegmentAlreadyReceived
  <2> QED
    BY <2>2, <2>3
<1>3. ASSUME NEW sn \in SN
      PROVE  SduFullWalk(q, sn) = SduFull(rx_list, sn)
  <2>1. SduFullWalk(q, sn) <=> SduFull(rx_list, sn)
    BY <1>1, SduFullWalkIs
  <2>2. SduFullWalk(q, sn) \in BOOLEAN /\ SduFull(rx_list, sn) \in BOOLEAN
    BY DEF SduFullWalk, SduFull
  <2> QED
    BY <2>1, <2>2
<1>4. ASSUME NEW sn \in SN
      PROVE  HasMissingBytesWalk(q, sn) = SduHasMissingBytes(rx_list, sn)
  <2>1. HasMissingBytesWalk(q, sn) <=> SduHasMissingBytes(rx_list, sn)
    BY <1>1, HasMissingBytesWalkIs
  <2>2. HasMissingBytesWalk(q, sn) \in BOOLEAN /\ SduHasMissingBytes(rx_list, sn) \in BOOLEAN
    BY DEF HasMissingBytesWalk, SduHasMissingBytes
  <2> QED
    BY <2>1, <2>2
<1>5. ASSUME NEW sn \in SN
      PROVE  AlreadyProcessed(q, sn) = SduDelivered(rx_list, sn)
  <2>1. AlreadyProcessed(q, sn) <=> SduDelivered(rx_list, sn)
    BY <1>1, AlreadyProcessedIs
  <2>2. AlreadyProcessed(q, sn) \in BOOLEAN /\ SduDelivered(rx_list, sn) \in BOOLEAN
    BY DEF AlreadyProcessed, SduDelivered
  <2> QED
    BY <2>1, <2>2
<1>6. \A x \in {RxList} : x = q
  BY DEF q
<1> QED
  BY <1>2, <1>3, <1>4, <1>5, <1>6 DEF ReceiverWalksAgree

\* A PDU that is stored has a byte that no entry of its SDU has: its bytes are
\* those of no other entry, and it is longer than the first entry, if it starts
\* at byte 0 too.
LEMMA ReceivedEntries ==
    ASSUME RxTypeOK, EntriesDistinct(rx_list), DeliveredFirst(rx_list),
           NEW pdu \in Pdus, ~Discarded(pdu)
    PROVE  /\ EntriesDistinct(ReceivedList(pdu)) /\ DeliveredFirst(ReceivedList(pdu))
           /\ ReceivedList(pdu) \subseteq StoredPdu
<1> DEFINE new == [sn |-> pdu.sn, so |-> pdu.so, size |-> pdu.size,
                   last |-> pdu.last, sdu |-> pdu.sdu, data |-> TRUE]
<1>1. pdu \in DataPdu
  BY RxAssumption
<1>2. /\ new \in StoredPdu /\ new.data /\ Bytes(new) = Bytes(pdu)
      /\ new.sn = pdu.sn /\ new.size = pdu.size /\ new.so = pdu.so
  BY <1>1 DEF StoredPdu, DataPdu, Bytes
<1>3. ReceivedList(pdu) = rx_list \cup {new}
  BY Zenon DEF ReceivedList
<1> HIDE DEF new
<1>4. \A l \in rx_list \cup {new} : l.so \in Nat /\ l.size \in Nat \ {0} /\ l \in StoredPdu
  BY <1>2 DEF RxTypeOK, StoredPdu
<1>5. ASSUME NEW l \in rx_list, l.sn = new.sn, Bytes(new) \subseteq Bytes(l)
      PROVE  FALSE
  <2>1. Bytes(l) \subseteq Covered(rx_list, pdu.sn)
    BY <1>2, <1>5 DEF Covered, SegmentsOf
  <2> QED
    BY <1>2, <1>5, <2>1 DEF Discarded, SegmentAlreadyReceived
<1>6. EntriesDistinct(rx_list \cup {new})
  <2>1. ASSUME NEW l \in rx_list
        PROVE  ~(l.sn = new.sn /\ l.so = new.so /\ l.size = new.size)
    BY <1>5 DEF Bytes
  <2> QED
    BY <2>1 DEF EntriesDistinct
<1>7. DeliveredFirst(rx_list \cup {new})
  <2> SUFFICES ASSUME NEW l \in rx_list \cup {new}, ~l.data
               PROVE  \E f \in rx_list \cup {new} :
                         /\ f.sn = l.sn /\ f.so = 0 /\ ~f.data
                         /\ \A k \in rx_list \cup {new} :
                               k.sn = l.sn /\ k.so = 0 => f.size <= k.size
    BY DEF DeliveredFirst
  <2>1. l \in rx_list
    BY <1>2
  <2>2. PICK f \in rx_list : /\ f.sn = l.sn /\ f.so = 0 /\ ~f.data
                             /\ \A k \in rx_list : k.sn = l.sn /\ k.so = 0 => f.size <= k.size
    BY <2>1 DEF DeliveredFirst
  <2>3. new.sn = l.sn /\ new.so = 0 => f.size <= new.size
    <3> SUFFICES ASSUME new.sn = l.sn, new.so = 0, ~(f.size <= new.size)
                 PROVE  FALSE
      OBVIOUS
    <3>1. Bytes(new) \subseteq Bytes(f)
      BY <1>4, <2>2 DEF Bytes
    <3> QED
      BY <1>5, <2>2, <3>1
  <2> QED
    BY <2>2, <2>3
<1> QED
  BY <1>3, <1>4, <1>6, <1>7

\* reassemble_and_deliver frees the data of every entry of its SDU, the first
\* one included: there is one, for the SDU is full.
LEMMA FreedEntries ==
    ASSUME NEW list, list \subseteq StoredPdu, EntriesDistinct(list), DeliveredFirst(list),
           NEW sn, SduFull(list, sn)
    PROVE  EntriesDistinct(FreeData(list, sn)) /\ DeliveredFirst(FreeData(list, sn))
<1> DEFINE free == FreeData(list, sn)
           F(k) == IF k.sn = sn THEN [k EXCEPT !.data = FALSE] ELSE k
<1>1. ASSUME NEW k \in list
      PROVE  /\ F(k) \in free /\ F(k).sn = k.sn /\ F(k).so = k.so /\ F(k).size = k.size
             /\ F(k).data <=> k.data /\ k.sn # sn
             /\ k.so \in Nat /\ k.size \in Nat \ {0} /\ k.data \in BOOLEAN
  <2>1. F(k) \in free
    BY Zenon DEF FreeData
  <2> QED
    BY <2>1 DEF StoredPdu
<1>2. ASSUME NEW l \in free
      PROVE  \E k \in list : l = F(k)
  BY <1>2, Zenon DEF FreeData
<1> HIDE DEF F, free
<1>3. EntriesDistinct(free)
  <2> SUFFICES ASSUME NEW a \in free, NEW b \in free,
                      a.sn = b.sn, a.so = b.so, a.size = b.size
               PROVE  a = b
    BY DEF EntriesDistinct
  <2>1. PICK k \in list : a = F(k)
    BY <1>2
  <2>2. PICK l \in list : b = F(l)
    BY <1>2
  <2>3. k.sn = l.sn /\ k.so = l.so /\ k.size = l.size
    BY <1>1, <2>1, <2>2
  <2>4. k = l
    BY <2>3 DEF EntriesDistinct
  <2> QED
    BY <2>1, <2>2, <2>4
<1>4. DeliveredFirst(free)
  <2> SUFFICES ASSUME NEW l \in free, ~l.data
               PROVE  \E f \in free : /\ f.sn = l.sn /\ f.so = 0 /\ ~f.data
                                      /\ \A k \in free : k.sn = l.sn /\ k.so = 0 => f.size <= k.size
    BY DEF DeliveredFirst
  <2> DEFINE First(f, x) == /\ f.sn = x /\ f.so = 0
                            /\ \A k \in list : k.sn = x /\ k.so = 0 => f.size <= k.size
  <2>1. \E f \in list : First(f, l.sn) /\ ~F(f).data
    <3>1. CASE l.sn = sn
      <4> DEFINE I == {k.size : k \in {h \in list : h.sn = sn /\ h.so = 0}}
      <4>1. I \in SUBSET Nat
        BY <1>1
      <4>2. I # {}
        <5>1. PICK m \in list : m.sn = sn /\ m.last /\ 0 .. m.so - 1 \subseteq Covered(list, sn)
          BY DEF SduFull, SegmentsOf
        <5>2. CASE m.so = 0
          BY <5>1, <5>2
        <5>3. CASE m.so # 0
          <6>1. 0 \in Covered(list, sn)
            <7>1. m.so \in Nat
              BY <1>1
            <7>2. 0 \in 0 .. m.so - 1
              BY <5>3, <7>1
            <7> QED
              BY <5>1, <7>2
          <6>2. PICK h \in list : h.sn = sn /\ 0 \in Bytes(h)
            BY <6>1 DEF Covered, SegmentsOf
          <6>3. h.so = 0
            BY <1>1, <6>2 DEF Bytes
          <6> QED
            BY <6>2, <6>3
        <5> QED
          BY <5>2, <5>3
      <4>3. PICK s \in I : \A m \in I : s <= m
        BY <4>1, <4>2, LeastNumber
      <4>4. PICK f \in list : f.sn = sn /\ f.so = 0 /\ f.size = s
        OBVIOUS
      <4>5. \A k \in list : k.sn = sn /\ k.so = 0 => f.size <= k.size
        BY <4>3, <4>4
      <4>6. ~F(f).data
        BY <1>1, <4>4
      <4> QED
        BY <3>1, <4>4, <4>5, <4>6
    <3>2. CASE l.sn # sn
      <4>1. PICK k \in list : l = F(k)
        BY <1>2
      <4>2. k.sn = l.sn /\ ~k.data
        BY <1>1, <3>2, <4>1
      <4>3. PICK f \in list : First(f, k.sn) /\ ~f.data
        BY <4>2 DEF DeliveredFirst
      <4>4. ~F(f).data
        BY <1>1, <4>3
      <4> QED
        BY <4>2, <4>3, <4>4
    <3> QED
      BY <3>1, <3>2
  <2>2. PICK f \in list : First(f, l.sn) /\ ~F(f).data
    BY <2>1
  <2>3. F(f) \in free /\ F(f).sn = l.sn /\ F(f).so = 0 /\ F(f).size = f.size
    BY <1>1, <2>2
  <2>4. ASSUME NEW k \in free, k.sn = l.sn, k.so = 0
        PROVE  F(f).size <= k.size
    <3>1. PICK h \in list : k = F(h)
      BY <1>2
    <3>2. h.sn = l.sn /\ h.so = 0 /\ h.size = k.size
      BY <1>1, <2>4, <3>1
    <3> QED
      BY <2>2, <2>3, <3>2
  <2> QED
    BY <2>2, <2>3, <2>4
<1> QED
  BY <1>3, <1>4 DEF free

\* Entries are removed SDU by SDU.
LEMMA RemovedEntries ==
    ASSUME NEW list, EntriesDistinct(list), DeliveredFirst(list),
           NEW kept, kept \subseteq list,
           \A k \in list, l \in kept : k.sn = l.sn => k \in kept
    PROVE  EntriesDistinct(kept) /\ DeliveredFirst(kept)
<1>1. EntriesDistinct(kept)
  BY DEF EntriesDistinct
<1>2. DeliveredFirst(kept)
  <2> SUFFICES ASSUME NEW l \in kept, ~l.data
               PROVE  \E f \in kept : /\ f.sn = l.sn /\ f.so = 0 /\ ~f.data
                                      /\ \A k \in kept : k.sn = l.sn /\ k.so = 0 => f.size <= k.size
    BY DEF DeliveredFirst
  <2>1. PICK f \in list : /\ f.sn = l.sn /\ f.so = 0 /\ ~f.data
                          /\ \A k \in list : k.sn = l.sn /\ k.so = 0 => f.size <= k.size
    BY DEF DeliveredFirst
  <2> QED
    BY <2>1
<1> QED
  BY <1>1, <1>2

\* Every step of the receiver keeps the list as the walks need it.
LEMMA EntriesStay ==
    ASSUME RxTypeOK, EntriesDistinct(rx_list), DeliveredFirst(rx_list), [RxNext]_rxVars
    PROVE  EntriesDistinct(rx_list') /\ DeliveredFirst(rx_list')
<1>1. CASE UNCHANGED rx_list
  BY <1>1
<1>2. ASSUME NEW pdu \in Pdus, StorePdu(pdu)
      PROVE  EntriesDistinct(rx_list') /\ DeliveredFirst(rx_list')
  BY <1>2, ReceivedEntries DEF StorePdu
<1>3. ASSUME NEW pdu \in Pdus, CompleteSdu(pdu)
      PROVE  EntriesDistinct(rx_list') /\ DeliveredFirst(rx_list')
  <2> DEFINE recv == ReceivedList(pdu)
             list == FreeData(recv, pdu.sn)
  <2>1. ~Discarded(pdu) /\ SduFull(recv, pdu.sn)
    BY <1>3 DEF CompleteSdu, Delivers
  <2>2. EntriesDistinct(recv) /\ DeliveredFirst(recv) /\ recv \subseteq StoredPdu
    BY <2>1, ReceivedEntries
  <2>3. rx_list' = {l \in list : Modulus(rx_next, l.sn) >= Modulus(rx_next, rx_next')}
    BY <1>3, Zenon DEF CompleteSdu
  <2> HIDE DEF recv
  <2>4. EntriesDistinct(list) /\ DeliveredFirst(list)
    BY <2>1, <2>2, FreedEntries
  <2> HIDE DEF list
  <2>5. /\ rx_list' \subseteq list
        /\ \A k \in list, l \in rx_list' : k.sn = l.sn => k \in rx_list'
    BY <2>3
  <2> QED
    BY <2>4, <2>5, RemovedEntries
<1>4. CASE RxReestablish
  BY <1>4 DEF RxReestablish, EntriesDistinct, DeliveredFirst
<1> QED
  BY <1>1, <1>2, <1>3, <1>4
     DEF RxNext, RecvDataPdu, DiscardPdu, ReassemblyExpires, GenerateStatus, ProhibitElapses, rxVars

\* So the list is as the walks need it, in every state.
LEMMA RxEntries == RxSpec => [](EntriesDistinct(rx_list) /\ DeliveredFirst(rx_list))
<1>1. RxInit => EntriesDistinct(rx_list) /\ DeliveredFirst(rx_list)
  BY DEF RxInit, EntriesDistinct, DeliveredFirst
<1>2. /\ RxTypeOK /\ EntriesDistinct(rx_list) /\ DeliveredFirst(rx_list) /\ [RxNext]_rxVars
      => (EntriesDistinct(rx_list) /\ DeliveredFirst(rx_list))'
  BY EntriesStay
<1> QED
  BY <1>1, <1>2, RxTypeCorrect, PTL DEF RxSpec

\* In every state of the receiving entity the tests that walk over rx_list once
\* (segment_already_received, sdu_delivered, sdu_full, sdu_has_missing_bytes)
\* answer what the sets of received bytes say: for every PDU that may arrive
\* and every SN, and however the segments overlap.
THEOREM RxWalksAgree == RxSpec => []ReceiverWalksAgree
<1>1. /\ RxTypeOK /\ ListFinite /\ EntriesDistinct(rx_list) /\ DeliveredFirst(rx_list)
      => ReceiverWalksAgree
  BY WalksAgree DEF WalksInv, ListFinite
<1> QED
  BY <1>1, RxTypeCorrect, RxListIsFinite, RxEntries, PTL

-----------------------------------------------------------------------------
(* The blocks of an interval, and the intervals in the list of gaps *)

\* An interval of gaps that follow on from each other is cut into blocks of
\* NackRange gaps, from its first gap on.
LEMMA BlocksOfInterval ==
    ASSUME NEW n \in Nat, NEW gaps \in [1 .. n -> Gaps], NEW a \in 1 .. n, NEW b \in a .. n,
           a = 1 \/ ~Joined(gaps[a - 1], gaps[a]),
           \A j \in a + 1 .. b : Joined(gaps[j - 1], gaps[j]),
           b = n \/ ~Joined(gaps[b], gaps[b + 1])
    PROVE  /\ a \in BlockStarts(gaps)
           /\ \A s \in BlockStarts(gaps) : s \in a .. b =>
                 BlockEnd(gaps, s) = IF s + NackRange - 1 <= b THEN s + NackRange - 1 ELSE b
<1> DEFINE B == BlockStarts(gaps)
<1>1. Len(gaps) = n /\ DOMAIN gaps = 1 .. n
  BY SeqLen
<1>2. NackRange \in Nat /\ NackRange > 0
  BY StatusAssumption
<1>3. ASSUME NEW c \in 1 .. n, c = 1 \/ ~Joined(gaps[c - 1], gaps[c]), NEW i \in c .. n,
             \A j \in c + 1 .. i : Joined(gaps[j - 1], gaps[j])
      PROVE  IntervalStart(gaps, i) = c
  <2> DEFINE I == {j \in 1 .. i : j = 1 \/ ~Joined(gaps[j - 1], gaps[j])}
  <2>1. I \in SUBSET Nat /\ c \in I /\ c \in Nat
    BY <1>3
  <2>2. ASSUME NEW j \in I
        PROVE  j <= c
    <3>1. j \in 1 .. i /\ (j = 1 \/ ~Joined(gaps[j - 1], gaps[j]))
      OBVIOUS
    <3>2. j \notin c + 1 .. i
      BY <1>3, <3>1
    <3> QED
      BY <1>3, <3>1, <3>2
  <2> HIDE DEF I
  <2>3. Max(I) \in I /\ \A j \in I : j <= Max(I)
    BY <2>1, <2>2, MaxOfNumbers
  <2>4. Max(I) \in Nat /\ Max(I) <= c /\ c <= Max(I)
    BY <2>1, <2>2, <2>3
  <2>5. Max(I) = c
    BY <2>1, <2>4
  <2> QED
    BY <2>5 DEF IntervalStart, I
<1>4. ASSUME NEW i \in a .. b
      PROVE  i \in B <=> (i - a) % NackRange = 0
  <2>1. IntervalStart(gaps, i) = a
    BY <1>3
  <2> QED
    BY <1>1, <2>1 DEF BlockStarts
<1>5. a \in B
  BY <1>2, <1>4
<1>6. b < n => b + 1 \in B
  <2> SUFFICES ASSUME b < n
               PROVE  b + 1 \in B
    OBVIOUS
  <2>1. b + 1 \in 1 .. n /\ (b + 1) - 1 = b
    OBVIOUS
  <2>2. IntervalStart(gaps, b + 1) = b + 1
    BY <1>3, <2>1
  <2>3. ((b + 1) - (b + 1)) % NackRange = 0
    BY <1>2
  <2> QED
    BY <1>1, <2>1, <2>2, <2>3 DEF BlockStarts
<1>7. ASSUME NEW s \in B, s \in a .. b
      PROVE  BlockEnd(gaps, s) = IF s + NackRange - 1 <= b THEN s + NackRange - 1 ELSE b
  <2> DEFINE t == BlockEnd(gaps, s)
             e == IF s + NackRange - 1 <= b THEN s + NackRange - 1 ELSE b
  <2>1. /\ t \in s .. n
        /\ \A i \in B : i > s => i > t
        /\ t < n => t + 1 \in B
    BY BlockIs
  <2>2. (s - a) % NackRange = 0 /\ s - a \in Nat
    BY <1>4, <1>7
  <2>3. /\ \A d \in 1 .. NackRange - 1 : ((s - a) + d) % NackRange # 0
        /\ ((s - a) + NackRange) % NackRange = 0
    BY <1>2, <2>2, ModStep
  <2> HIDE DEF t, B
  <2>4. t >= e
    <3>1. CASE t = n
      BY <1>2, <1>7, <3>1
    <3>2. CASE t # n
      <4>1. t + 1 \in B
        BY <2>1, <3>2
      <4>2. CASE t + 1 \in a .. b
        <5>1. ((t + 1) - a) % NackRange = 0
          BY <1>4, <4>1, <4>2
        <5>2. (t + 1) - a = (s - a) + ((t + 1) - s)
          BY <1>7, <2>1
        <5>3. (t + 1) - s \notin 1 .. NackRange - 1
          BY <2>3, <5>1, <5>2
        <5> QED
          BY <1>2, <1>7, <2>1, <5>3
      <4>3. CASE t + 1 \notin a .. b
        BY <1>2, <1>7, <2>1, <4>3
      <4> QED
        BY <4>2, <4>3
    <3> QED
      BY <3>1, <3>2
  <2>5. t <= e
    <3>1. CASE s + NackRange <= b
      <4>1. s + NackRange \in a .. b /\ (s + NackRange) - a = (s - a) + NackRange
        BY <1>2, <1>7, <3>1
      <4>2. s + NackRange \in B
        BY <1>4, <2>3, <4>1
      <4>3. s + NackRange > t
        BY <1>2, <1>7, <2>1, <4>2
      <4> QED
        BY <1>2, <1>7, <2>1, <3>1, <4>3
    <3>2. CASE ~(s + NackRange <= b)
      <4>1. e = b
        BY <1>2, <1>7, <3>2
      <4>2. CASE b = n
        BY <2>1, <4>1, <4>2
      <4>3. CASE b < n
        <5>1. b + 1 > t
          BY <1>6, <1>7, <2>1, <4>3
        <5> QED
          BY <1>7, <2>1, <4>1, <5>1
      <4> QED
        BY <4>2, <4>3
    <3> QED
      BY <3>1, <3>2
  <2>6. t \in Int /\ e \in Int
    BY <1>2, <1>7, <2>1
  <2> QED
    BY <2>4, <2>5, <2>6 DEF t
<1> QED
  BY <1>5, <1>7

\* All the gaps, in the order of SN and byte
SortedGaps(gaps, n) ==
    /\ GapList(gaps, n)
    /\ \A g \in Gaps : \E i \in 1 .. n : gaps[i] = g
    /\ \A i, j \in 1 .. n : i < j => GapBefore(gaps[i], gaps[j])

\* Gaps of SNs that follow on from each other, before all others that are left,
\* are next to each other in the list.
LEMMA NextGaps ==
    ASSUME RxTypeOK, NEW n, NEW gaps, SortedGaps(gaps, n), NEW p \in 0 .. n, NEW D \in Nat, NEW G,
           \A d \in 0 .. D : /\ \E x \in p + 1 .. n : gaps[x] = G[d]
                            /\ RxOffset(G[d].sn) = RxOffset(G[0].sn) + d,
           \A x \in p + 1 .. n : (\E d \in 0 .. D : gaps[x] = G[d]) \/ GapBefore(G[D], gaps[x])
    PROVE  /\ p + 1 + D \in p + 1 .. n
           /\ \A d \in 0 .. D : gaps[p + 1 + d] = G[d]
           /\ \A x \in p + 1 .. n : x > p + 1 + D <=> GapBefore(G[D], gaps[x])
<1>1. n \in Nat /\ gaps \in [1 .. n -> Gaps] /\ p \in Nat /\ p <= n
  BY DEF SortedGaps, GapList
<1>2. \A x \in 1 .. n : /\ gaps[x] \in Gaps /\ gaps[x].so_start \in Nat
                         /\ RxOffset(gaps[x].sn) \in Nat
  BY <1>1, GapElement
<1>3. \A x \in p + 1 .. n : x \in 1 .. n
  BY <1>1
<1>4. \A i, j \in 1 .. n : ~GapBefore(gaps[i], gaps[i])
                            /\ (GapBefore(gaps[i], gaps[j]) => ~GapBefore(gaps[j], gaps[i]))
  BY <1>2 DEF GapBefore
<1>5. \A i, j \in 1 .. n : GapBefore(gaps[i], gaps[j]) => i < j
  <2> SUFFICES ASSUME NEW i \in 1 .. n, NEW j \in 1 .. n, GapBefore(gaps[i], gaps[j]), ~(i < j)
               PROVE  FALSE
    OBVIOUS
  <2>1. i = j \/ j < i
    BY <1>1
  <2> QED
    BY <1>4, <2>1 DEF SortedGaps
<1>6. \A i, j \in 1 .. n : i < j => GapBefore(gaps[i], gaps[j])
  BY DEF SortedGaps
<1>7. ASSUME NEW c \in 0 .. D, NEW d \in 0 .. D, c < d
      PROVE  GapBefore(G[c], G[d])
  <2>1. RxOffset(G[c].sn) = RxOffset(G[0].sn) + c /\ RxOffset(G[d].sn) = RxOffset(G[0].sn) + d
    OBVIOUS
  <2>2. RxOffset(G[0].sn) \in Nat
    <3>1. \E x \in p + 1 .. n : gaps[x] = G[0]
      OBVIOUS
    <3> QED
      BY <1>2, <1>3, <3>1
  <2> QED
    BY <1>7, <2>1, <2>2 DEF GapBefore
<1> DEFINE Pos(d, x) == x \in p + 1 .. n /\ gaps[x] = G[d]
<1>8. \A d \in 0 .. D : \E x : Pos(d, x)
  OBVIOUS
<1>9. ASSUME NEW c \in 0 .. D, NEW d \in 0 .. D, c < d, NEW x, NEW y, Pos(c, x), Pos(d, y)
      PROVE  x < y
  BY <1>3, <1>5, <1>7, <1>9
<1>10. ASSUME NEW d \in 0 .. D, NEW x, Pos(d, x), NEW y \in p + 1 .. n, y < x
       PROVE  \E c \in 0 .. D : c < d /\ Pos(c, y)
  <2>1. y \in 1 .. n /\ x \in 1 .. n
    BY <1>3, <1>10
  <2>2. ~GapBefore(G[D], gaps[y])
    <3> SUFFICES ASSUME GapBefore(G[D], gaps[y])
                 PROVE  FALSE
      OBVIOUS
    <3>1. PICK z : Pos(D, z)
      BY <1>8
    <3>2. z < y
      BY <1>3, <1>5, <2>1, <3>1
    <3>3. x = z \/ x < z
      <4>1. CASE d = D
        <5>1. gaps[x] = gaps[z] /\ z \in 1 .. n
          BY <1>3, <1>10, <3>1, <4>1
        <5>2. ~(x < z) /\ ~(z < x)
          BY <1>4, <1>6, <2>1, <5>1
        <5> QED
          BY <2>1, <5>1, <5>2
      <4>2. CASE d # D
        BY <1>9, <1>10, <3>1, <4>2
      <4> QED
        BY <4>1, <4>2
    <3> QED
      BY <1>1, <1>10, <2>1, <3>1, <3>2, <3>3
  <2>3. PICK c \in 0 .. D : gaps[y] = G[c]
    BY <2>2
  <2>4. Pos(c, y)
    BY <2>3
  <2>5. c < d
    <3>1. c # d
      <4> SUFFICES ASSUME c = d
                   PROVE  FALSE
        OBVIOUS
      <4>1. gaps[y] = gaps[x]
        BY <1>10, <2>3
      <4> QED
        BY <1>4, <1>6, <1>10, <2>1, <4>1
    <3>2. ~(d < c)
      <4> SUFFICES ASSUME d < c
                   PROVE  FALSE
        OBVIOUS
      <4>1. x < y
        BY <1>9, <1>10, <2>4
      <4> QED
        BY <1>10, <2>1, <4>1
    <3> QED
      BY <3>1, <3>2
  <2> QED
    BY <2>4, <2>5
<1> HIDE DEF Pos
<1> DEFINE P == {d \in 0 .. D : Pos(d, p + 1 + d)}
<1>11. 0 \in P
  <2>1. PICK x : Pos(0, x)
    BY <1>8
  <2>2. x \in p + 1 .. n
    BY <2>1 DEF Pos
  <2>3. ~(p + 1 < x)
    BY <1>1, <1>10, <2>1, <2>2
  <2>4. x = p + 1 + 0
    BY <1>1, <2>2, <2>3
  <2> QED
    BY <2>1, <2>4
<1>12. ASSUME NEW d \in 1 .. D, d - 1 \in P
       PROVE  d \in P
  <2>1. d - 1 \in 0 .. D /\ d \in 0 .. D /\ d - 1 < d /\ Pos(d - 1, p + d)
    <3>1. p + 1 + (d - 1) = p + d
      BY <1>1
    <3> QED
      BY <1>12, <3>1
  <2>2. PICK x : Pos(d, x)
    BY <1>8, <2>1
  <2>3. p + d < x /\ x \in p + 1 .. n
    BY <1>9, <2>1, <2>2 DEF Pos
  <2>4. ~(p + d + 1 < x)
    <3> SUFFICES ASSUME p + d + 1 < x
                 PROVE  FALSE
      OBVIOUS
    <3>1. p + d + 1 \in p + 1 .. n
      BY <1>1, <2>3
    <3>2. PICK c \in 0 .. D : c < d /\ Pos(c, p + d + 1)
      BY <1>10, <2>1, <2>2, <3>1
    <3>3. c = d - 1 \/ c < d - 1
      BY <3>2
    <3>4. CASE c = d - 1
      <4>1. gaps[p + d] = gaps[p + d + 1]
        BY <2>1, <3>2, <3>4 DEF Pos
      <4>2. p + d \in 1 .. n /\ p + d + 1 \in 1 .. n /\ p + d < p + d + 1
        BY <1>1, <2>3, <3>1
      <4> QED
        BY <1>4, <1>6, <4>1, <4>2
    <3>5. CASE c < d - 1
      <4>1. p + d + 1 < p + d
        BY <1>9, <2>1, <3>2, <3>5
      <4> QED
        BY <1>1, <4>1
    <3> QED
      BY <3>3, <3>4, <3>5
  <2>5. x = p + 1 + d
    BY <1>1, <2>3, <2>4
  <2> QED
    BY <2>1, <2>2, <2>5
<1>13. \A d \in 0 .. D : Pos(d, p + 1 + d)
  <2>1. \A d \in 1 .. D : d - 1 \in P => d \in P
    BY <1>12
  <2> HIDE DEF P
  <2>2. \A d \in 0 .. D : d \in P
    BY <1>11, <2>1, AllPositions
  <2> QED
    BY <2>2 DEF P
<1>14. Pos(D, p + 1 + D)
  BY <1>13
<1>15. p + 1 + D \in p + 1 .. n /\ p + 1 + D \in 1 .. n /\ gaps[p + 1 + D] = G[D]
  BY <1>3, <1>14 DEF Pos
<1>16. \A x \in p + 1 .. n : x > p + 1 + D <=> GapBefore(G[D], gaps[x])
  <2> SUFFICES ASSUME NEW x \in p + 1 .. n
               PROVE  x > p + 1 + D <=> GapBefore(G[D], gaps[x])
    OBVIOUS
  <2>1. x \in 1 .. n
    BY <1>3
  <2> QED
    BY <1>5, <1>6, <1>15, <2>1
<1> QED
  BY <1>13, <1>15, <1>16 DEF Pos

-----------------------------------------------------------------------------
(* next_missing *)

\* The gaps from byte b of SDU sn on
GapsFrom(sn, b) ==
    {g \in Gaps : RxOffset(g.sn) > RxOffset(sn) \/ (g.sn = sn /\ g.so_start >= b)}

\* m is the interval of the first gaps of R, G[0] .. G[D].
IsInterval(m, R, D, G) ==
    /\ D \in Nat /\ D = Modulus(m.sn_start, m.sn_end)
    /\ m.sn_start \in SN /\ m.sn_end \in SN
    /\ G[0].sn = m.sn_start /\ G[D].sn = m.sn_end
    /\ \A d \in 0 .. D :
          /\ G[d] \in R
          /\ RxOffset(G[d].sn) = RxOffset(m.sn_start) + d
          /\ G[d].so_start = IF d = 0 THEN m.so_start ELSE 0
          /\ G[d].so_end = IF d = D THEN m.so_end ELSE ToEnd
    /\ \A g \in R : (\E d \in 0 .. D : g = G[d]) \/ GapBefore(G[D], g)

\* One gap in each SDU makes an interval.
LEMMA IntervalIs ==
    ASSUME RxTypeOK, NEW m, m.sn_start \in SN, m.sn_end \in SN, m.so_start \in Nat,
           RxOffset(m.sn_start) <= RxOffset(m.sn_end),
           RxOffset(m.sn_end) < RxOffset(rx_highest_status),
           \A sn \in SN :
              LET b == IF sn = m.sn_start THEN m.so_start ELSE 0
              IN RxOffset(sn) \in RxOffset(m.sn_start) .. RxOffset(m.sn_end) =>
                   /\ b \in GapStarts(sn)
                   /\ Gap(sn, b).so_end = IF sn = m.sn_end THEN m.so_end ELSE ToEnd
                   /\ \A c \in GapStarts(sn) : c > b => sn = m.sn_end
    PROVE  \E D, G : IsInterval(m, GapsFrom(m.sn_start, m.so_start), D, G)
<1> DEFINE s0 == m.sn_start
           e == m.sn_end
           R == GapsFrom(s0, m.so_start)
           D == RxOffset(e) - RxOffset(s0)
           Sn(d) == SnWrap(s0 + d)
           B(sn) == IF sn = s0 THEN m.so_start ELSE 0
           G == [d \in 0 .. D |-> Gap(Sn(d), B(Sn(d)))]
<1>1. /\ \A sn \in SN : RxOffset(sn) \in Nat /\ RxOffset(sn) < SnModulus
      /\ rx_next \in SN /\ rx_highest_status \in SN
  BY OffsetType DEF RxTypeOK
<1>2. D \in Nat /\ D = Modulus(s0, e) /\ s0 \in SN /\ e \in SN
  BY <1>1, SnDistance DEF RxOffset
<1>3. ASSUME NEW d \in 0 .. D
      PROVE  Sn(d) \in SN /\ RxOffset(Sn(d)) = RxOffset(s0) + d
  <2>1. RxOffset(s0) + d < SnModulus /\ d \in Nat
    <3>1. d \in Nat /\ d <= RxOffset(e) - RxOffset(s0)
      BY <1>2, <1>3
    <3>2. RxOffset(e) \in Nat /\ RxOffset(s0) \in Nat /\ RxOffset(e) < SnModulus
      BY <1>1, <1>2
    <3> QED
      BY <3>1, <3>2, SnAssumption
  <2> QED
    BY <1>1, <1>2, <2>1, FurtherSn DEF RxOffset
<1>4. \A a, b \in SN : RxOffset(a) = RxOffset(b) => a = b
  BY <1>1, ModulusInjective DEF RxOffset
<1>5. Sn(0) = s0 /\ Sn(D) = e /\ \A d \in 0 .. D : (Sn(d) = s0 <=> d = 0) /\ (Sn(d) = e <=> d = D)
  <2>1. 0 \in 0 .. D /\ D \in 0 .. D
    BY <1>2
  <2>2. RxOffset(Sn(0)) = RxOffset(s0) /\ RxOffset(Sn(D)) = RxOffset(e)
    BY <1>1, <1>2, <1>3, <2>1
  <2>3. Sn(0) = s0 /\ Sn(D) = e
    BY <1>2, <1>3, <1>4, <2>1, <2>2
  <2>4. ASSUME NEW d \in 0 .. D
        PROVE  (Sn(d) = s0 => d = 0) /\ (Sn(d) = e => d = D)
    BY <1>1, <1>2, <1>3, <2>4
  <2> QED
    BY <2>3, <2>4
<1>6. ASSUME NEW sn \in SN, RxOffset(sn) \in RxOffset(s0) .. RxOffset(e)
      PROVE  /\ B(sn) \in GapStarts(sn)
             /\ Gap(sn, B(sn)).so_end = IF sn = e THEN m.so_end ELSE ToEnd
             /\ \A c \in GapStarts(sn) : c > B(sn) => sn = e
             /\ Gap(sn, B(sn)).sn = sn /\ Gap(sn, B(sn)).so_start = B(sn)
             /\ Gap(sn, B(sn)) \in Gaps
  <2>1. /\ B(sn) \in GapStarts(sn)
        /\ Gap(sn, B(sn)).so_end = IF sn = e THEN m.so_end ELSE ToEnd
        /\ \A c \in GapStarts(sn) : c > B(sn) => sn = e
    BY <1>6
  <2>2. Gap(sn, B(sn)).sn = sn /\ Gap(sn, B(sn)).so_start = B(sn)
    BY DEF Gap
  <2>3. RxOffset(sn) < RxOffset(rx_highest_status)
    BY <1>1, <1>2, <1>6
  <2> HIDE DEF B
  <2>4. Gap(sn, B(sn)) \in Gaps
    BY <2>1, <2>3 DEF Gaps
  <2> QED
    BY <2>1, <2>2, <2>4
<1> HIDE DEF Sn, D, s0, e
<1>7. ASSUME NEW d \in 0 .. D
      PROVE  /\ G[d].sn = Sn(d) /\ G[d] \in Gaps
             /\ G[d].so_start = IF d = 0 THEN m.so_start ELSE 0
             /\ G[d].so_end = IF d = D THEN m.so_end ELSE ToEnd
             /\ RxOffset(Sn(d)) = RxOffset(s0) + d
  <2>1. Sn(d) \in SN /\ RxOffset(Sn(d)) \in RxOffset(s0) .. RxOffset(e)
    <3>1. RxOffset(s0) + d <= RxOffset(e)
      BY <1>1, <1>2 DEF D
    <3> QED
      BY <1>1, <1>2, <1>3, <3>1
  <2>2. G[d] = Gap(Sn(d), B(Sn(d)))
    OBVIOUS
  <2>3. B(Sn(d)) = IF d = 0 THEN m.so_start ELSE 0
    BY <1>5
  <2> HIDE DEF B, G
  <2> QED
    BY <1>3, <1>5, <1>6, <2>1, <2>2, <2>3
<1>8. ASSUME NEW d \in 0 .. D
      PROVE  G[d] \in R
  <2>1. d = 0 \/ RxOffset(Sn(d)) > RxOffset(s0)
    BY <1>1, <1>2, <1>7
  <2> HIDE DEF G
  <2>2. d = 0 => G[d].sn = s0 /\ G[d].so_start = m.so_start
    BY <1>5, <1>7
  <2> QED
    BY <1>7, <2>1, <2>2 DEF GapsFrom
<1>9. ASSUME NEW g \in R
      PROVE  (\E d \in 0 .. D : g = G[d]) \/ GapBefore(G[D], g)
  <2>1. /\ g \in Gaps /\ g.sn \in SN /\ g.so_start \in GapStarts(g.sn)
        /\ g = Gap(g.sn, g.so_start) /\ g.so_start \in Nat
        /\ RxOffset(g.sn) > RxOffset(s0) \/ (g.sn = s0 /\ g.so_start >= m.so_start)
    BY GapElement DEF GapsFrom
  <2>2. D \in 0 .. D /\ G[D].sn = e
    BY <1>2, <1>5, <1>7
  <2>3. CASE RxOffset(g.sn) > RxOffset(e)
    BY <2>2, <2>3 DEF GapBefore
  <2>4. CASE ~(RxOffset(g.sn) > RxOffset(e))
    <3> DEFINE d == RxOffset(g.sn) - RxOffset(s0)
    <3>1. d \in 0 .. D /\ RxOffset(g.sn) \in RxOffset(s0) .. RxOffset(e)
      BY <1>1, <1>2, <2>1, <2>4 DEF D
    <3>2. Sn(d) = g.sn
      BY <1>1, <1>2, <1>3, <1>4, <2>1, <3>1
    <3> HIDE DEF d
    <3>3. G[d] = Gap(g.sn, B(g.sn))
      BY <3>1, <3>2
    <3>4. CASE g.so_start = B(g.sn)
      BY <2>1, <3>1, <3>3, <3>4
    <3>5. CASE g.so_start # B(g.sn)
      <4>1. g.so_start > B(g.sn)
        <5>1. CASE g.sn = s0
          <6>1. g.so_start >= m.so_start
            BY <1>1, <1>2, <2>1, <5>1
          <6>2. B(g.sn) = m.so_start
            BY <5>1
          <6> QED
            BY <2>1, <3>5, <6>1, <6>2
        <5>2. CASE g.sn # s0
          <6>1. B(g.sn) = 0
            BY <5>2
          <6> QED
            BY <2>1, <3>5, <6>1
        <5> QED
          BY <5>1, <5>2
      <4>2. g.sn = e
        BY <1>6, <2>1, <3>1, <4>1
      <4>3. d = D
        BY <1>5, <3>1, <3>2, <4>2
      <4>4. G[D].so_start = B(g.sn)
        BY <3>3, <4>3 DEF Gap
      <4> QED
        BY <2>2, <4>1, <4>2, <4>4 DEF GapBefore
    <3> QED
      BY <3>4, <3>5
  <2> QED
    BY <2>3, <2>4
<1>10. G[0].sn = s0 /\ G[D].sn = e
  BY <1>2, <1>5, <1>7
<1> HIDE DEF G
<1>11. IsInterval(m, GapsFrom(s0, m.so_start), D, G)
  BY <1>2, <1>7, <1>8, <1>9, <1>10 DEF IsInterval, s0, e
<1> QED
  BY <1>11 DEF s0

\* What the walk relies on: segments of an SDU agree on where it ends, and an SDU
\* that was delivered is listed as a whole.
Listed(q) ==
    /\ RxInv /\ ListFinite /\ SegmentsAgree /\ IsRxList(q)
    /\ \A sn \in SN : SduDelivered(rx_list, sn) => DeliveredWhole(rx_list, sn)

\* Byte so of SDU sn is missing: the entries before e end before it, those
\* from e on start behind it.
IsOpen(q, e, sn, so) ==
    /\ e \in 1 .. Len(q) + 1 /\ sn \in SN /\ so \in Nat
    /\ \A k \in 1 .. e - 1 :
          \/ RxOffset(q[k].sn) < RxOffset(sn)
          \/ q[k].sn = sn /\ q[k].so + q[k].size <= so /\ ~q[k].last
    /\ \A k \in e .. Len(q) :
          \/ RxOffset(q[k].sn) > RxOffset(sn)
          \/ q[k].sn = sn /\ q[k].so > so
    /\ so = 0 \/ \E k \in 1 .. e - 1 : q[k].sn = sn /\ q[k].so + q[k].size = so

\* What is known of the entries of such a list
LEMMA ListedEntries ==
    ASSUME NEW q, Listed(q)
    PROVE  /\ RxTypeOK /\ Len(q) \in Nat
           /\ \A i \in 1 .. Len(q) :
                 /\ q[i] \in rx_list /\ q[i].sn \in SN /\ q[i].so \in Nat
                 /\ q[i].size \in Nat \ {0} /\ q[i].last \in BOOLEAN
                 /\ RxOffset(q[i].sn) \in Nat /\ RxOffset(q[i].sn) < WindowSize
           /\ \A l \in rx_list : \E i \in 1 .. Len(q) : q[i] = l
           /\ \A i, j \in 1 .. Len(q) : i < j =>
                 /\ RxOffset(q[i].sn) <= RxOffset(q[j].sn)
                 /\ RxOffset(q[i].sn) = RxOffset(q[j].sn) => q[i].sn = q[j].sn
                 /\ q[i].sn = q[j].sn => q[i].so <= q[j].so
<1>1. RxTypeOK /\ Len(q) \in Nat /\ IsRxList(q)
  BY DEF Listed, RxInv, IsRxList
<1>2. ASSUME NEW i \in 1 .. Len(q)
      PROVE  /\ q[i] \in rx_list /\ q[i].sn \in SN /\ q[i].so \in Nat
             /\ q[i].size \in Nat \ {0} /\ q[i].last \in BOOLEAN
             /\ RxOffset(q[i].sn) \in Nat /\ RxOffset(q[i].sn) < WindowSize
  <2>1. /\ q[i] \in rx_list /\ q[i].sn \in SN /\ q[i].so \in Nat
        /\ q[i].size \in Nat \ {0} /\ q[i].last \in BOOLEAN
    BY <1>1, EntriesInOrder
  <2>2. RxOffset(q[i].sn) \in Int /\ RxOffset(q[i].sn) >= 0
    BY <1>1, <2>1, OffsetType
  <2>3. RxOffset(q[i].sn) < RxOffset(rx_next_highest) /\ RxOffset(rx_next_highest) <= WindowSize
    BY <2>1 DEF Listed, RxInv, RxWindowOrdered
  <2>4. RxOffset(rx_next_highest) \in Int
    BY <1>1, OffsetType DEF RxTypeOK
  <2> QED
    BY <2>1, <2>2, <2>3, <2>4, SnAssumption
<1>3. ASSUME NEW i \in 1 .. Len(q), NEW j \in 1 .. Len(q), i < j
      PROVE  /\ RxOffset(q[i].sn) <= RxOffset(q[j].sn)
             /\ RxOffset(q[i].sn) = RxOffset(q[j].sn) => q[i].sn = q[j].sn
             /\ q[i].sn = q[j].sn => q[i].so <= q[j].so
  <2>1. Before(q[i], q[j])
    BY <1>1, <1>3 DEF IsRxList
  <2>2. RxOffset(q[i].sn) \in Nat /\ RxOffset(q[j].sn) \in Nat
    BY <1>2
  <2>3. RxOffset(q[i].sn) <= RxOffset(q[j].sn)
    BY <2>1, <2>2 DEF Before
  <2>4. RxOffset(q[i].sn) = RxOffset(q[j].sn) => q[i].sn = q[j].sn
    BY <1>1, <1>2, ModulusInjective DEF RxOffset, RxTypeOK
  <2>5. q[i].sn = q[j].sn => q[i].so <= q[j].so
    BY <1>1, <1>3, EntriesInOrder
  <2> QED
    BY <2>3, <2>4, <2>5
<1>4. \A l \in rx_list : \E i \in 1 .. Len(q) : q[i] = l
  BY <1>1 DEF IsRxList
<1> QED
  BY <1>1, <1>2, <1>3, <1>4

\* An open byte starts a gap, which ends before the entry e if that one is of the
\* same SDU; other gaps of the SDU start behind that entry.
LEMMA OpenGap ==
    ASSUME NEW q, Listed(q), NEW e, NEW sn, NEW so, IsOpen(q, e, sn, so)
    PROVE  LET behind == e <= Len(q) /\ q[e].sn = sn
           IN /\ so \in GapStarts(sn)
              /\ Gap(sn, so).so_end = IF behind THEN q[e].so - 1 ELSE ToEnd
              /\ \A c \in GapStarts(sn) : c > so => behind /\ c >= q[e].so
<1> DEFINE segs == SegmentsOf(rx_list, sn)
           behind == e <= Len(q) /\ q[e].sn = sn
<1>1. /\ e \in 1 .. Len(q) + 1 /\ sn \in SN /\ so \in Nat /\ Len(q) \in Nat
      /\ \A k \in 1 .. e - 1 :
            \/ RxOffset(q[k].sn) < RxOffset(sn)
            \/ q[k].sn = sn /\ q[k].so + q[k].size <= so /\ ~q[k].last
      /\ \A k \in e .. Len(q) :
            \/ RxOffset(q[k].sn) > RxOffset(sn)
            \/ q[k].sn = sn /\ q[k].so > so
      /\ so = 0 \/ \E k \in 1 .. e - 1 : q[k].sn = sn /\ q[k].so + q[k].size = so
  BY ListedEntries DEF IsOpen
<1>2. ASSUME NEW l \in segs
      PROVE  \E k \in 1 .. Len(q) :
                /\ q[k] = l /\ q[k].sn = sn /\ l.so \in Nat /\ l.size \in Nat \ {0}
                /\ k < e => l.so + l.size <= so /\ ~l.last
                /\ k >= e => l.so > so /\ behind /\ q[e].so \in Nat /\ l.so >= q[e].so
  <2>1. l \in rx_list /\ l.sn = sn
    BY DEF SegmentsOf
  <2>2. PICK k \in 1 .. Len(q) : q[k] = l
    BY <2>1, ListedEntries
  <2>3. RxOffset(sn) \in Nat /\ l.so \in Nat /\ l.size \in Nat \ {0}
    BY <2>1, <2>2, ListedEntries
  <2>4. CASE k < e
    <3>1. k \in 1 .. e - 1
      BY <1>1, <2>4
    <3> QED
      BY <1>1, <2>1, <2>2, <2>3, <2>4, <3>1
  <2>5. CASE k >= e
    <3>1. k \in e .. Len(q) /\ e \in 1 .. Len(q)
      BY <1>1, <2>5
    <3>2. l.so > so
      BY <1>1, <2>1, <2>2, <2>3, <3>1
    <3>3. RxOffset(q[e].sn) \in Nat /\ q[e].so \in Nat /\ RxOffset(q[e].sn) >= RxOffset(sn)
      <4>1. RxOffset(q[e].sn) \in Nat /\ q[e].so \in Nat /\ e \in e .. Len(q)
        BY <3>1, ListedEntries
      <4> QED
        BY <1>1, <2>3, <4>1
    <3>4. q[e].sn = sn /\ l.so >= q[e].so
      <4>1. CASE k = e
        BY <2>1, <2>2, <2>3, <4>1
      <4>2. CASE e < k
        <5>1. /\ RxOffset(q[e].sn) <= RxOffset(q[k].sn)
              /\ RxOffset(q[e].sn) = RxOffset(q[k].sn) => q[e].sn = q[k].sn
              /\ q[e].sn = q[k].sn => q[e].so <= q[k].so
          BY <3>1, <4>2, ListedEntries
        <5> QED
          BY <2>1, <2>2, <2>3, <3>3, <5>1
      <4> QED
        BY <1>1, <2>5, <4>1, <4>2
    <3> QED
      BY <1>1, <2>1, <2>2, <2>3, <2>5, <3>1, <3>2, <3>3, <3>4
  <2> QED
    BY <1>1, <2>4, <2>5
<1>3. ASSUME behind
      PROVE  q[e] \in segs /\ q[e].so > so /\ q[e].so \in Nat
  <2>1. e \in 1 .. Len(q) /\ e \in e .. Len(q)
    BY <1>1, <1>3
  <2>2. q[e] \in rx_list /\ q[e].so \in Nat /\ RxOffset(sn) \in Nat
    BY <1>3, <2>1, ListedEntries
  <2> QED
    BY <1>1, <1>3, <2>1, <2>2 DEF SegmentsOf
<1> HIDE DEF behind
<1>4. so \in GapStarts(sn)
  <2>1. so \notin Covered(rx_list, sn)
    <3> SUFFICES ASSUME NEW l \in segs, so \in Bytes(l)
                 PROVE  FALSE
      BY DEF Covered
    <3>1. l.so \in Nat /\ l.size \in Nat /\ l.so <= so /\ so <= l.so + l.size - 1
      BY <1>1, <1>2 DEF Bytes
    <3>2. l.so + l.size <= so \/ l.so > so
      BY <1>1, <1>2
    <3> QED
      BY <1>1, <3>1, <3>2
  <2>2. so \in {0} \cup {l.so + l.size : l \in segs}
    <3>1. CASE so = 0
      BY <3>1
    <3>2. CASE so # 0
      <4>1. PICK k \in 1 .. e - 1 : q[k].sn = sn /\ q[k].so + q[k].size = so
        BY <1>1, <3>2
      <4>2. k \in 1 .. Len(q)
        BY <1>1
      <4>3. q[k] \in segs
        BY <4>1, <4>2, ListedEntries DEF SegmentsOf
      <4> QED
        BY <4>1, <4>3
    <3> QED
      BY <3>1, <3>2
  <2>3. ASSUME NEW l \in segs, l.last
        PROVE  so < l.so
    BY <1>1, <1>2, <2>3
  <2> QED
    BY <2>1, <2>2, <2>3 DEF GapStarts
<1>5. Gap(sn, so).so_end = IF behind THEN q[e].so - 1 ELSE ToEnd
  <2> DEFINE later == {l \in segs : l.so > so}
             A == {l.so : l \in later}
  <2>1. Gap(sn, so).so_end = IF later = {} THEN ToEnd ELSE Min(A) - 1
    BY DEF Gap
  <2>2. ASSUME ~behind
        PROVE  later = {}
    BY <1>1, <1>2, <2>2
  <2>3. ASSUME behind
        PROVE  later # {} /\ Min(A) = q[e].so
    <3>1. q[e] \in later /\ q[e].so \in A
      BY <1>3, <2>3
    <3>2. A \in SUBSET Nat /\ \A c \in A : c >= q[e].so
      BY <1>1, <1>2
    <3> HIDE DEF A
    <3>3. Min(A) \in A /\ \A c \in A : Min(A) <= c
      BY <3>1, <3>2, MinOfNumbers
    <3>4. Min(A) \in Nat /\ q[e].so \in Nat /\ Min(A) <= q[e].so /\ Min(A) >= q[e].so
      BY <1>3, <2>3, <3>1, <3>2, <3>3
    <3> QED
      BY <3>1, <3>4
  <2> HIDE DEF later, A
  <2> QED
    BY <2>1, <2>2, <2>3
<1>6. ASSUME NEW c \in GapStarts(sn), c > so
      PROVE  behind /\ c >= q[e].so
  <2>1. c \in {0} \cup {l.so + l.size : l \in segs}
    BY DEF GapStarts
  <2>2. c # 0
    BY <1>1, <1>6
  <2>3. PICK l \in segs : c = l.so + l.size
    BY <2>1, <2>2
  <2> QED
    BY <1>1, <1>2, <1>6, <2>3
<1> QED
  BY <1>4, <1>5, <1>6 DEF behind

\* If a byte is open, so is the first one of a further SDU before entry e.
LEMMA OpenFurther ==
    ASSUME NEW q, Listed(q), NEW e, NEW sn, NEW so, IsOpen(q, e, sn, so),
           NEW x \in SN, RxOffset(x) > RxOffset(sn),
           e <= Len(q) => \/ RxOffset(x) < RxOffset(q[e].sn)
                          \/ x = q[e].sn /\ q[e].so > 0
    PROVE  IsOpen(q, e, x, 0)
<1>1. /\ e \in 1 .. Len(q) + 1 /\ sn \in SN /\ so \in Nat /\ Len(q) \in Nat
      /\ \A k \in 1 .. e - 1 :
            \/ RxOffset(q[k].sn) < RxOffset(sn)
            \/ q[k].sn = sn /\ q[k].so + q[k].size <= so /\ ~q[k].last
  BY ListedEntries DEF IsOpen
<1>2. RxOffset(sn) \in Int /\ RxOffset(x) \in Int
  BY <1>1, ListedEntries, OffsetType
<1>3. ASSUME NEW k \in 1 .. e - 1
      PROVE  RxOffset(q[k].sn) < RxOffset(x)
  <2>1. RxOffset(q[k].sn) \in Nat
    <3>1. k \in 1 .. Len(q)
      BY <1>1
    <3> QED
      BY <3>1, ListedEntries
  <2> QED
    BY <1>1, <1>2, <2>1
<1>4. ASSUME NEW k \in e .. Len(q)
      PROVE  RxOffset(q[k].sn) > RxOffset(x) \/ (q[k].sn = x /\ q[k].so > 0)
  <2>1. e \in 1 .. Len(q) /\ k \in 1 .. Len(q)
    BY <1>1
  <2>2. /\ RxOffset(q[k].sn) \in Nat /\ RxOffset(q[e].sn) \in Nat /\ q[e].so \in Nat /\ q[k].so \in Nat
        /\ e < k => /\ RxOffset(q[e].sn) <= RxOffset(q[k].sn)
                    /\ RxOffset(q[e].sn) = RxOffset(q[k].sn) => q[e].sn = q[k].sn
                    /\ q[e].sn = q[k].sn => q[e].so <= q[k].so
    BY <2>1, ListedEntries
  <2>3. RxOffset(x) < RxOffset(q[e].sn) \/ (x = q[e].sn /\ q[e].so > 0)
    BY <1>1, <2>1
  <2>4. k = e \/ e < k
    BY <1>1
  <2>5. CASE k = e
    BY <1>2, <2>2, <2>3, <2>5
  <2>6. CASE e < k
    BY <1>2, <2>2, <2>3, <2>6
  <2> QED
    BY <2>4, <2>5, <2>6
<1> QED
  BY <1>1, <1>3, <1>4 DEF IsOpen

\* m is the interval G[0] .. G[D] of the first gaps of R; those behind it are
\* the gaps from the entry m.next on, and do not continue it.
IsFound(q, m, R, D, G) ==
    /\ IsInterval(m, R, D, G)
    /\ \A g \in R : GapBefore(G[D], g) =>
          /\ m.next # 0 /\ g \in GapsFrom(q[m.next].sn, q[m.next].so)
          /\ ~Joined(G[D], g)
    /\ m.next # 0 => \A g \in GapsFrom(q[m.next].sn, q[m.next].so) :
                        g \in R /\ GapBefore(G[D], g)

\* The missing interval from byte so of SDU sn on
MissingFrom(q, e, sn, so) ==
    IF e > Len(q) THEN UpToHighestStatus(sn, so) ELSE EndDifferentSdu(q, e, sn, so)

\* The two ends of an interval that starts at an open byte: before the entry e, or at
\* rx_highest_status.  Every SDU in between has one gap.
LEMMA IntervalFound ==
    ASSUME NEW q, Listed(q), NEW e, NEW sn, NEW so, IsOpen(q, e, sn, so), ~OutOfReport(sn)
    PROVE  LET m == MissingFrom(q, e, sn, so)
           IN /\ m.sn_start = sn /\ m.next \in {0, e} \cap (0 .. Len(q))
              /\ \E D, G : IsFound(q, m, GapsFrom(sn, so), D, G)
<1> DEFINE m == MissingFrom(q, e, sn, so)
           H == RxOffset(rx_highest_status)
           O(x) == RxOffset(x)
           b(x) == IF x = sn THEN so ELSE 0
           behind(x) == e <= Len(q) /\ q[e].sn = x
<1>1. RxTypeOK /\ Len(q) \in Nat /\ e \in 1 .. Len(q) + 1 /\ sn \in SN /\ so \in Nat
  BY ListedEntries DEF IsOpen
<1>2. /\ \A x \in SN : RxOffset(x) \in Nat /\ RxOffset(x) < SnModulus
      /\ H \in Nat /\ rx_next \in SN /\ rx_highest_status \in SN
  BY <1>1, OffsetType DEF RxTypeOK
<1>3. O(sn) < H
  BY <1>1, <1>2 DEF OutOfReport
<1>4. \A x, y \in SN : RxOffset(x) = RxOffset(y) => x = y
  BY <1>2, ModulusInjective DEF RxOffset
<1>5. e <= Len(q) => /\ q[e].sn \in SN /\ q[e].so \in Nat
                     /\ O(q[e].sn) > O(sn) \/ (q[e].sn = sn /\ q[e].so > so)
  <2> SUFFICES ASSUME e <= Len(q)
               PROVE  /\ q[e].sn \in SN /\ q[e].so \in Nat
                      /\ O(q[e].sn) > O(sn) \/ (q[e].sn = sn /\ q[e].so > so)
    OBVIOUS
  <2>1. e \in 1 .. Len(q) /\ e \in e .. Len(q)
    BY <1>1
  <2> QED
    BY <2>1, ListedEntries DEF IsOpen
<1>6. ASSUME NEW x \in SN, O(x) >= O(sn), e <= Len(q) => \/ O(x) < O(q[e].sn)
                                                         \/ x = q[e].sn /\ q[e].so > 0
      PROVE  /\ b(x) \in GapStarts(x)
             /\ Gap(x, b(x)).so_end = IF behind(x) THEN q[e].so - 1 ELSE ToEnd
             /\ \A c \in GapStarts(x) : c > b(x) => behind(x) /\ c >= q[e].so
  <2>1. CASE x = sn
    BY <2>1, OpenGap
  <2>2. CASE x # sn
    <3>1. O(x) > O(sn)
      BY <1>1, <1>2, <1>4, <1>6, <2>2
    <3>2. IsOpen(q, e, x, 0)
      BY <1>6, <3>1, OpenFurther
    <3>3. b(x) = 0
      BY <2>2
    <3> HIDE DEF b
    <3> QED
      BY <3>2, <3>3, OpenGap
  <2> QED
    BY <2>1, <2>2
<1> DEFINE n == q[e]
           last == IF n.so = 0 THEN SnPrev(n.sn) ELSE n.sn
<1>7. ASSUME e <= Len(q)
      PROVE  /\ last \in SN
             /\ O(last) = IF n.so = 0 THEN O(n.sn) - 1 ELSE O(n.sn)
             /\ O(last) >= O(sn)
             /\ n.so = 0 => SnNext(last) = n.sn
  <2>1. CASE n.so = 0
    <3>1. O(n.sn) > O(sn)
      BY <1>1, <1>5, <1>7, <2>1
    <3>2. O(n.sn) > 0
      BY <1>1, <1>2, <1>5, <1>7, <3>1
    <3>3. /\ SnPrev(n.sn) \in SN
          /\ RxOffset(SnPrev(n.sn)) = RxOffset(n.sn) - 1
          /\ SnNext(SnPrev(n.sn)) = n.sn
      BY <1>2, <1>5, <1>7, <3>2, PreviousSn DEF RxOffset
    <3> QED
      BY <1>1, <1>2, <1>5, <1>7, <2>1, <3>1, <3>3
  <2>2. CASE n.so # 0
    BY <1>1, <1>2, <1>5, <1>7, <2>2
  <2> QED
    BY <2>1, <2>2
<1> DEFINE top == e > Len(q) \/ OutOfReport(last)
<1>8. m = IF top THEN UpToHighestStatus(sn, so)
          ELSE [sn_start |-> sn, so_start |-> so, sn_end |-> last,
                so_end |-> IF n.so = 0 THEN ToEnd ELSE n.so - 1, next |-> e]
  <2>1. CASE e > Len(q)
    BY <2>1 DEF MissingFrom
  <2>2. CASE ~(e > Len(q))
    BY <2>2 DEF MissingFrom, EndDifferentSdu
  <2> QED
    BY <2>1, <2>2
<1> HIDE DEF m, b
<1>b. \A x : b(x) = IF x = sn THEN so ELSE 0
  BY DEF b
<1>9. CASE top
  <2> DEFINE f == SnPrev(rx_highest_status)
  <2>1. m.sn_start = sn /\ m.so_start = so /\ m.sn_end = f /\ m.so_end = ToEnd /\ m.next = 0
    BY <1>8, <1>9 DEF UpToHighestStatus
  <2>2. f \in SN /\ O(f) = H - 1
    <3>1. H > 0
      BY <1>1, <1>2, <1>3
    <3> QED
      BY <1>2, <3>1, PreviousSn DEF RxOffset
  <2>3. e <= Len(q) => O(n.sn) >= H
    <3> SUFFICES ASSUME e <= Len(q)
                 PROVE  O(n.sn) >= H
      OBVIOUS
    <3>1. OutOfReport(last)
      BY <1>1, <1>9
    <3>2. O(last) >= H
      BY <3>1 DEF OutOfReport
    <3> QED
      BY <1>2, <1>5, <1>7, <3>2
  <2> HIDE DEF last, top, f
  <2>4. ASSUME NEW x \in SN, O(x) \in O(sn) .. O(f)
        PROVE  /\ b(x) \in GapStarts(x)
               /\ Gap(x, b(x)).so_end = ToEnd
               /\ ~(\E c \in GapStarts(x) : c > b(x))
    <3>1. O(x) >= O(sn) /\ O(x) < H
      BY <1>1, <1>2, <2>2, <2>4
    <3>2. e <= Len(q) => O(x) < O(n.sn)
      BY <1>2, <1>5, <2>3, <3>1
    <3>3. ~behind(x)
      BY <1>2, <1>5, <3>2
    <3> HIDE DEF behind, n
    <3>4. /\ b(x) \in GapStarts(x)
          /\ Gap(x, b(x)).so_end = IF behind(x) THEN q[e].so - 1 ELSE ToEnd
          /\ \A c \in GapStarts(x) : c > b(x) => behind(x) /\ c >= q[e].so
      BY <1>6, <3>1, <3>2 DEF n
    <3> QED
      BY <3>3, <3>4
  <2>5. \E D, G : IsInterval(m, GapsFrom(m.sn_start, m.so_start), D, G)
    <3>1. \A x \in SN : RxOffset(x) \in RxOffset(m.sn_start) .. RxOffset(m.sn_end) =>
             LET c0 == IF x = m.sn_start THEN m.so_start ELSE 0
             IN /\ c0 \in GapStarts(x)
                /\ Gap(x, c0).so_end = IF x = m.sn_end THEN m.so_end ELSE ToEnd
                /\ \A c \in GapStarts(x) : c > c0 => x = m.sn_end
      BY <2>1, <2>4, <1>b
    <3>2. /\ m.sn_start \in SN /\ m.sn_end \in SN /\ m.so_start \in Nat
          /\ RxOffset(m.sn_start) <= RxOffset(m.sn_end)
          /\ RxOffset(m.sn_end) < RxOffset(rx_highest_status)
      BY <1>1, <1>2, <1>3, <2>1, <2>2
    <3> QED
      BY <1>1, <3>1, <3>2, IntervalIs
  <2>6. PICK D, G : IsInterval(m, GapsFrom(sn, so), D, G)
    BY <2>1, <2>5
  <2>7. ASSUME NEW g \in GapsFrom(sn, so), GapBefore(G[D], g)
        PROVE  FALSE
    <3>1. /\ D \in Nat /\ G[D].sn = f /\ D \in 0 .. D
          /\ G[D].so_start = IF D = 0 THEN so ELSE 0
          /\ D = 0 => f = sn
          /\ O(f) = O(sn) + D
      BY <2>1, <2>6 DEF IsInterval
    <3>2. g \in Gaps
      BY DEF GapsFrom
    <3>3. /\ g.sn \in SN /\ O(g.sn) < H /\ g.so_start \in GapStarts(g.sn) /\ g.so_start \in Nat
      BY <1>1, <3>2, GapElement
    <3>4. g.sn = f /\ g.so_start > G[D].so_start
      BY <1>2, <2>2, <2>7, <3>1, <3>3 DEF GapBefore
    <3>5. G[D].so_start = b(f)
      BY <1>1, <1>2, <2>2, <3>1, <1>b
    <3> QED
      BY <1>1, <1>2, <1>3, <2>2, <2>4, <3>3, <3>4, <3>5
  <2>8. IsFound(q, m, GapsFrom(sn, so), D, G)
    BY <2>1, <2>6, <2>7 DEF IsFound
  <2> QED
    BY <1>1, <2>1, <2>8 DEF m
<1>10. CASE ~top
  <2>1. e <= Len(q) /\ e \in 1 .. Len(q) /\ O(last) < H
    BY <1>1, <1>2, <1>7, <1>10 DEF OutOfReport
  <2>2. /\ m.sn_start = sn /\ m.so_start = so /\ m.sn_end = last /\ m.next = e
        /\ m.so_end = IF n.so = 0 THEN ToEnd ELSE n.so - 1
    BY <1>8, <1>10
  <2>3. /\ last \in SN /\ O(last) >= O(sn) /\ n.sn \in SN /\ n.so \in Nat
        /\ O(last) = IF n.so = 0 THEN O(n.sn) - 1 ELSE O(n.sn)
        /\ n.so = 0 => SnNext(last) = n.sn
        /\ O(n.sn) > O(sn) \/ (n.sn = sn /\ n.so > so)
    BY <1>5, <1>7, <2>1
  <2>4. \A x : behind(x) <=> n.sn = x
    BY <2>1
  <2>n. \A x \in SN : O(x) < O(n.sn) \/ (x = n.sn /\ n.so > 0) <=> O(x) <= O(last)
    <3>1. \A x \in SN : O(x) = O(n.sn) => x = n.sn
      BY <1>4, <2>3
    <3> HIDE DEF last, n
    <3> QED
      BY <1>2, <2>3, <3>1
  <2> HIDE DEF top, behind
  <2>5. ASSUME NEW x \in SN, O(x) \in O(sn) .. O(last)
        PROVE  /\ b(x) \in GapStarts(x)
               /\ Gap(x, b(x)).so_end = IF x = last THEN m.so_end ELSE ToEnd
               /\ \A c \in GapStarts(x) : c > b(x) => n.sn = x /\ x = last /\ c >= n.so
    <3>1. O(x) >= O(sn) /\ O(x) <= O(last)
      BY <1>1, <1>2, <2>3, <2>5
    <3>2. /\ b(x) \in GapStarts(x)
          /\ Gap(x, b(x)).so_end = IF behind(x) THEN q[e].so - 1 ELSE ToEnd
          /\ \A c \in GapStarts(x) : c > b(x) => behind(x) /\ c >= q[e].so
      BY <1>6, <2>n, <3>1
    <3>3. n.sn = x => x = last /\ n.so # 0
      <4> SUFFICES ASSUME n.sn = x
                   PROVE  x = last /\ n.so # 0
        OBVIOUS
      <4>1. n.so # 0
        BY <1>2, <2>3, <3>1
      <4> QED
        BY <4>1
    <3>4. x = last /\ n.so # 0 => n.sn = x
      OBVIOUS
    <3> HIDE DEF last, n
    <3> QED
      BY <2>2, <2>4, <3>2, <3>3, <3>4 DEF n
  <2>6. \E D, G : IsInterval(m, GapsFrom(m.sn_start, m.so_start), D, G)
    <3> HIDE DEF last, n
    <3>1. \A x \in SN : RxOffset(x) \in RxOffset(m.sn_start) .. RxOffset(m.sn_end) =>
             LET c0 == IF x = m.sn_start THEN m.so_start ELSE 0
             IN /\ c0 \in GapStarts(x)
                /\ Gap(x, c0).so_end = IF x = m.sn_end THEN m.so_end ELSE ToEnd
                /\ \A c \in GapStarts(x) : c > c0 => x = m.sn_end
      BY <2>2, <2>5, <1>b
    <3>2. /\ m.sn_start \in SN /\ m.sn_end \in SN /\ m.so_start \in Nat
          /\ RxOffset(m.sn_start) <= RxOffset(m.sn_end)
          /\ RxOffset(m.sn_end) < RxOffset(rx_highest_status)
      BY <1>1, <1>2, <2>1, <2>2, <2>3
    <3> QED
      BY <1>1, <3>1, <3>2, IntervalIs
  <2>7. PICK D, G : IsInterval(m, GapsFrom(sn, so), D, G)
    BY <2>2, <2>6
  <2>8. /\ D \in Nat /\ G[D].sn = last /\ D \in 0 .. D
        /\ G[D].so_start = b(last)
        /\ G[D].so_end = IF n.so = 0 THEN ToEnd ELSE n.so - 1
    <3>1. /\ D \in Nat /\ G[D].sn = last /\ D \in 0 .. D
          /\ G[D].so_start = IF D = 0 THEN so ELSE 0
          /\ O(last) = O(sn) + D
          /\ G[D].so_end = m.so_end
      BY <2>2, <2>7 DEF IsInterval
    <3>2. D = 0 <=> last = sn
      <4> HIDE DEF last
      <4> QED
        BY <1>1, <1>2, <1>4, <2>3, <3>1
    <3> QED
      BY <2>2, <3>1, <3>2, <1>b
  <2>9. ASSUME NEW g \in Gaps
        PROVE  /\ g.sn \in SN /\ g.so_start \in GapStarts(g.sn) /\ g.so_start \in Nat
               /\ GapBefore(G[D], g) <=>
                     \/ O(g.sn) > O(last)
                     \/ g.sn = last /\ g.so_start > b(last)
    BY <1>1, <2>8, GapElement DEF GapBefore
  <2>10. ASSUME NEW g \in Gaps, GapBefore(G[D], g)
         PROVE  g \in GapsFrom(n.sn, n.so) /\ ~Joined(G[D], g)
    <3>1. g \in GapsFrom(n.sn, n.so)
      <4>1. CASE O(g.sn) > O(last)
        <5>1. O(g.sn) >= O(n.sn) /\ (O(g.sn) = O(n.sn) => n.so = 0)
          BY <1>2, <2>3, <2>9, <4>1
        <5>2. O(g.sn) = O(n.sn) => g.sn = n.sn
          BY <1>4, <2>3, <2>9
        <5> HIDE DEF n
        <5> QED
          BY <1>2, <2>3, <2>9, <5>1, <5>2 DEF GapsFrom
      <4>2. CASE ~(O(g.sn) > O(last))
        <5>1. g.sn = last /\ g.so_start > b(last)
          BY <2>9, <2>10, <4>2
        <5>2. O(last) \in O(sn) .. O(last)
          BY <1>1, <1>2, <2>3
        <5>3. n.sn = last /\ g.so_start >= n.so
          BY <2>3, <2>5, <2>9, <5>1, <5>2
        <5> QED
          BY <5>1, <5>3 DEF GapsFrom
      <4> QED
        BY <4>1, <4>2
    <3>2. ASSUME Joined(G[D], g)
          PROVE  FALSE
      <4>1. n.so = 0 /\ g.sn = n.sn /\ g.so_start = 0
        BY <2>3, <2>8, <3>2 DEF Joined, ToEnd
      <4>2. 0 \notin Covered(rx_list, n.sn)
        BY <2>9, <4>1 DEF GapStarts
      <4>3. 0 \in Bytes(n) /\ n \in rx_list
        <5>1. n \in rx_list /\ n.size \in Nat \ {0}
          BY <2>1, ListedEntries
        <5> HIDE DEF n
        <5> QED
          BY <4>1, <5>1 DEF Bytes
      <4> QED
        BY <4>2, <4>3 DEF Covered, SegmentsOf
    <3> QED
      BY <3>1, <3>2
  <2>11. ASSUME NEW g \in GapsFrom(n.sn, n.so)
         PROVE  g \in GapsFrom(sn, so) /\ GapBefore(G[D], g)
    <3>1. g \in Gaps /\ (O(g.sn) > O(n.sn) \/ (g.sn = n.sn /\ g.so_start >= n.so))
      BY DEF GapsFrom
    <3>2. g.sn \in SN /\ g.so_start \in Nat
      BY <2>9, <3>1
    <3>3. g \in GapsFrom(sn, so)
      <4> HIDE DEF n, last
      <4>1. O(g.sn) > O(sn) \/ (g.sn = sn /\ g.so_start >= so)
        BY <1>1, <1>2, <2>3, <3>1, <3>2
      <4> QED
        BY <3>1, <4>1 DEF GapsFrom
    <3>4. GapBefore(G[D], g)
      <4>1. CASE n.so = 0
        <5>1. O(g.sn) > O(last)
          BY <1>2, <2>3, <3>1, <3>2, <4>1
        <5> QED
          BY <2>9, <3>1, <5>1
      <4>2. CASE n.so # 0
        <5>1. last = n.sn /\ n.so > b(last)
          BY <1>1, <1>2, <2>3, <4>2, <1>b
        <5>2. b(last) \in Nat
          BY <1>1, <1>b
        <5>3. O(g.sn) > O(last) \/ (g.sn = last /\ g.so_start > b(last))
          <6> HIDE DEF n, last
          <6> QED
            BY <2>3, <3>1, <3>2, <5>1, <5>2
        <5> QED
          BY <2>9, <3>1, <5>3
      <4> QED
        BY <4>1, <4>2
    <3> QED
      BY <3>3, <3>4
  <2>12. IsFound(q, m, GapsFrom(sn, so), D, G)
    <3>1. \A g \in GapsFrom(sn, so) : g \in Gaps
      BY DEF GapsFrom
    <3>2. m.next = e /\ e # 0
      BY <2>1, <2>2
    <3> QED
      BY <2>7, <2>10, <2>11, <3>1, <3>2 DEF IsFound
  <2>13. m.sn_start = sn /\ m.next \in {0, e} \cap (0 .. Len(q))
    BY <2>1, <2>2
  <2> QED
    BY <2>12, <2>13 DEF m
<1> QED
  BY <1>9, <1>10

\* A gap starts at a byte that was not received; before an end that was
\* received, it ends at an entry.
LEMMA GapStartIs ==
    ASSUME NEW q, Listed(q), NEW g \in Gaps
    PROVE  /\ g.sn \in SN /\ g.so_start \in Nat
           /\ g.so_start \notin Covered(rx_list, g.sn)
           /\ \A i \in 1 .. Len(q) : q[i].sn = g.sn =>
                 g.so_start < q[i].so \/ g.so_start >= q[i].so + q[i].size
           /\ (\E i \in 1 .. Len(q) : q[i].sn = g.sn /\ q[i].last) =>
                 \E i \in 1 .. Len(q) : q[i].sn = g.sn /\ g.so_start < q[i].so
<1>1. g.sn \in SN /\ g.so_start \in Nat /\ g.so_start \in GapStarts(g.sn)
  BY GapElement, ListedEntries
<1>2. g.so_start \notin Covered(rx_list, g.sn)
  BY <1>1 DEF GapStarts
<1>3. ASSUME NEW i \in 1 .. Len(q), q[i].sn = g.sn
      PROVE  g.so_start < q[i].so \/ g.so_start >= q[i].so + q[i].size
  <2>1. q[i] \in rx_list /\ q[i].so \in Nat /\ q[i].size \in Nat
    BY ListedEntries
  <2>2. g.so_start \notin Bytes(q[i])
    BY <1>2, <1>3, <2>1 DEF Covered, SegmentsOf
  <2> QED
    BY <1>1, <2>1, <2>2 DEF Bytes
<1>4. ASSUME NEW i \in 1 .. Len(q), q[i].sn = g.sn, q[i].last
      PROVE  \E j \in 1 .. Len(q) : q[j].sn = g.sn /\ g.so_start < q[j].so
  <2>1. q[i] \in SegmentsOf(rx_list, g.sn)
    BY <1>4, ListedEntries DEF SegmentsOf
  <2>2. PICK l \in SegmentsOf(rx_list, g.sn) : g.so_start < l.so
    BY <1>1, <1>4, <2>1 DEF GapStarts
  <2> QED
    BY <2>2, ListedEntries DEF SegmentsOf
<1> QED
  BY <1>1, <1>2, <1>3, <1>4

\* Nothing before the entry i reaches into it.
Unreached(q, i) ==
    /\ i \in 1 .. Len(q)
    /\ \A k \in 1 .. i - 1 : q[k].sn = q[i].sn => q[k].so + q[k].size <= q[i].so

\* What the walk from entry i has seen when it is at entry j: the end of what was
\* received of the SDU so far, whether its last segment was, and no gap.
HasSeen(q, i, j, s) ==
    /\ s.max_so \in Nat /\ s.last \in BOOLEAN
    /\ \A k \in 1 .. j : q[k].sn = q[j].sn =>
          q[k].so + q[k].size <= s.max_so + 1 /\ (q[k].last => s.last)
    /\ \E k \in 1 .. j : q[k].sn = q[j].sn /\ q[k].so + q[k].size = s.max_so + 1
    /\ s.last => \E k \in 1 .. j : q[k].sn = q[j].sn /\ q[k].last
    /\ \A g \in GapsFrom(q[i].sn, q[i].so) :
          \/ RxOffset(g.sn) > RxOffset(q[j].sn)
          \/ g.sn = q[j].sn /\ g.so_start > s.max_so

\* The walk starts with the bytes of its first entry.
LEMMA SeenFirst ==
    ASSUME NEW q, Listed(q), NEW i, Unreached(q, i)
    PROVE  HasSeen(q, i, i, SeenFrom(q[i]))
<1> DEFINE l == q[i]
           s == SeenFrom(q[i])
<1>1. /\ i \in 1 .. Len(q) /\ l.sn \in SN /\ l.so \in Nat /\ l.size \in Nat \ {0}
      /\ l.last \in BOOLEAN /\ l \in rx_list /\ Len(q) \in Nat
  BY ListedEntries DEF Unreached
<1>2. s.max_so = l.so + l.size - 1 /\ s.last = l.last
  <2>1. FurtherByte(0, l) = l.so + l.size - 1
    BY <1>1, FurtherByteIs
  <2> QED
    BY <2>1 DEF SeenFrom
<1>3. ASSUME NEW k \in 1 .. i, q[k].sn = l.sn
      PROVE  q[k].so + q[k].size <= s.max_so + 1 /\ (q[k].last => s.last)
  <2>1. CASE k = i
    BY <1>1, <1>2, <2>1
  <2>2. CASE k # i
    <3>1. k \in 1 .. i - 1 /\ k \in 1 .. Len(q)
      BY <1>1, <2>2
    <3>2. q[k].so + q[k].size <= l.so
      BY <1>3, <3>1 DEF Unreached
    <3>3. q[k] \in rx_list /\ q[k].so \in Nat /\ q[k].size \in Nat
      BY <3>1, ListedEntries
    <3>4. q[k].last => l.so + l.size <= q[k].so + q[k].size
      BY <1>1, <1>3, <3>3 DEF Listed, SegmentsAgree
    <3>5. l.so \in Nat /\ l.size \in Nat \ {0} /\ l.last \in BOOLEAN
      BY <1>1
    <3>6. s.max_so + 1 = l.so + l.size /\ s.last = l.last
      BY <1>2, <3>5
    <3> HIDE DEF l, s
    <3>7. ~q[k].last
      <4>1. ~(l.so + l.size <= q[k].so + q[k].size)
        BY <3>2, <3>3, <3>5
      <4> QED
        BY <3>4, <4>1
    <3>8. q[k].so + q[k].size <= l.so + l.size
      BY <3>2, <3>3, <3>5
    <3> QED
      BY <3>6, <3>7, <3>8
  <2> QED
    BY <2>1, <2>2
<1>4. ASSUME NEW g \in GapsFrom(l.sn, l.so)
      PROVE  RxOffset(g.sn) > RxOffset(l.sn) \/ (g.sn = l.sn /\ g.so_start > s.max_so)
  <2>1. /\ g \in Gaps
        /\ RxOffset(g.sn) > RxOffset(l.sn) \/ (g.sn = l.sn /\ g.so_start >= l.so)
    BY DEF GapsFrom
  <2>2. /\ g.so_start \in Nat
        /\ l.sn = g.sn => g.so_start < l.so \/ g.so_start >= l.so + l.size
    BY <1>1, <2>1, GapStartIs
  <2> QED
    BY <1>1, <1>2, <2>1, <2>2
<1>5. /\ s.max_so \in Nat /\ s.last \in BOOLEAN
      /\ i \in 1 .. i /\ l.so + l.size = s.max_so + 1
  BY <1>1, <1>2
<1> HIDE DEF s
<1>6. HasSeen(q, i, i, s)
  BY <1>2, <1>3, <1>4, <1>5 DEF HasSeen
<1> QED
  BY <1>6 DEF s

\* Behind the last segment of an SDU there is no gap in it.
LEMMA SeenLast ==
    ASSUME NEW q, Listed(q), NEW i, NEW j \in 1 .. Len(q), NEW s, HasSeen(q, i, j, s),
           s.last, j < Len(q) => q[j + 1].sn # q[j].sn,
           NEW g \in GapsFrom(q[i].sn, q[i].so)
    PROVE  RxOffset(g.sn) > RxOffset(q[j].sn)
<1> DEFINE l == q[j]
<1> SUFFICES ASSUME g.sn = l.sn, g.so_start > s.max_so
             PROVE  FALSE
  BY DEF HasSeen
<1>1. Len(q) \in Nat /\ j \in Nat /\ l.sn \in SN /\ RxOffset(l.sn) \in Nat
  BY ListedEntries
<1>2. /\ s.max_so \in Nat
      /\ \A k \in 1 .. j : q[k].sn = l.sn => q[k].so + q[k].size <= s.max_so + 1
      /\ \E k \in 1 .. j : q[k].sn = l.sn /\ q[k].last
  BY DEF HasSeen
<1>3. g \in Gaps
  BY DEF GapsFrom
<1>4. g.so_start \in Nat
  BY <1>3, GapStartIs
<1>5. PICK k \in 1 .. j : q[k].sn = l.sn /\ q[k].last
  BY <1>2
<1>6. k \in 1 .. Len(q)
  BY <1>1
<1>7. PICK h \in 1 .. Len(q) : q[h].sn = l.sn /\ g.so_start < q[h].so
  BY <1>3, <1>5, <1>6, GapStartIs
<1>8. q[h].so \in Nat /\ q[h].size \in Nat \ {0}
  BY ListedEntries
<1>9. CASE h \in 1 .. j
  <2>1. q[h].so + q[h].size <= s.max_so + 1
    BY <1>2, <1>7, <1>9
  <2> QED
    BY <1>2, <1>4, <1>7, <1>8, <2>1
<1>10. CASE h \notin 1 .. j
  <2>1. j + 1 \in 1 .. Len(q) /\ (h = j + 1 \/ j + 1 < h) /\ j < j + 1
    BY <1>1, <1>10
  <2>2. /\ RxOffset(l.sn) <= RxOffset(q[j + 1].sn)
        /\ RxOffset(l.sn) = RxOffset(q[j + 1].sn) => l.sn = q[j + 1].sn
        /\ RxOffset(q[j + 1].sn) \in Nat
        /\ j + 1 < h => RxOffset(q[j + 1].sn) <= RxOffset(q[h].sn)
    BY <2>1, ListedEntries
  <2> QED
    BY <1>1, <1>7, <2>1, <2>2
<1> QED
  BY <1>9, <1>10

\* Where it finds no discontinuity it goes on to the next entry.
LEMMA SeenNext ==
    ASSUME NEW q, Listed(q), NEW i, Unreached(q, i), NEW j, j \in i .. Len(q) - 1,
           NEW s, HasSeen(q, i, j, s), Continues(s, q[j], q[j + 1])
    PROVE  HasSeen(q, i, j + 1, SeenBehind(s, q[j], q[j + 1]))
<1> DEFINE l == q[j]
           n == q[j + 1]
           t == SeenBehind(s, l, n)
           R == GapsFrom(q[i].sn, q[i].so)
<1>1. /\ i \in 1 .. Len(q) /\ Len(q) \in Nat
      /\ j \in 1 .. Len(q) /\ j + 1 \in 1 .. Len(q) /\ j < j + 1 /\ j \in Nat
  BY ListedEntries DEF Unreached
<1>2. /\ l.sn \in SN /\ l.so \in Nat /\ l.size \in Nat \ {0} /\ RxOffset(l.sn) \in Nat
      /\ n.sn \in SN /\ n.so \in Nat /\ n.size \in Nat \ {0} /\ RxOffset(n.sn) \in Nat
      /\ n.last \in BOOLEAN
      /\ RxOffset(l.sn) <= RxOffset(n.sn)
  BY <1>1, ListedEntries
<1>3. /\ s.max_so \in Nat /\ s.last \in BOOLEAN
      /\ \A k \in 1 .. j : q[k].sn = l.sn =>
            q[k].so + q[k].size <= s.max_so + 1 /\ (q[k].last => s.last)
      /\ \E k \in 1 .. j : q[k].sn = l.sn /\ q[k].so + q[k].size = s.max_so + 1
      /\ s.last => \E k \in 1 .. j : q[k].sn = l.sn /\ q[k].last
      /\ \A g \in R : RxOffset(g.sn) > RxOffset(l.sn) \/ (g.sn = l.sn /\ g.so_start > s.max_so)
  BY DEF HasSeen
<1>4. \A g \in R : /\ g \in Gaps /\ g.sn \in SN /\ RxOffset(g.sn) \in Nat
                   /\ g.so_start \in Nat
                   /\ g.sn = n.sn => g.so_start < n.so \/ g.so_start >= n.so + n.size
                   /\ RxOffset(g.sn) = RxOffset(n.sn) => g.sn = n.sn
  <2> SUFFICES ASSUME NEW g \in R
               PROVE  /\ g \in Gaps /\ g.sn \in SN /\ RxOffset(g.sn) \in Nat
                      /\ g.so_start \in Nat
                      /\ g.sn = n.sn => g.so_start < n.so \/ g.so_start >= n.so + n.size
                      /\ RxOffset(g.sn) = RxOffset(n.sn) => g.sn = n.sn
    OBVIOUS
  <2>1. g \in Gaps
    BY DEF GapsFrom
  <2>2. /\ g.sn \in SN /\ g.so_start \in Nat
        /\ n.sn = g.sn => g.so_start < n.so \/ g.so_start >= n.so + n.size
    BY <1>1, <2>1, GapStartIs
  <2>3. RxOffset(g.sn) \in Nat /\ RxTypeOK
    BY <2>1, GapElement, ListedEntries
  <2>4. RxOffset(g.sn) = RxOffset(n.sn) => g.sn = n.sn
    BY <1>2, <2>2, <2>3, ModulusInjective DEF RxOffset, RxTypeOK
  <2> QED
    BY <2>1, <2>2, <2>3, <2>4
<1>5. \A k \in 1 .. j + 1 : k = j + 1 \/ k \in 1 .. j
  BY <1>1
<1>6. CASE n.sn = l.sn /\ s.max_so >= n.so - 1
  <2>1. /\ t.max_so = IF s.max_so >= n.so + n.size - 1 THEN s.max_so ELSE n.so + n.size - 1
        /\ t.last = (s.last \/ n.last)
    <3>1. FurtherByte(s.max_so, n) = IF s.max_so >= n.so + n.size - 1
                                     THEN s.max_so ELSE n.so + n.size - 1
      <4> HIDE DEF n
      <4>1. s.max_so \in Int /\ s.max_so >= -1
        BY <1>3
      <4> QED
        BY <1>2, <4>1, FurtherByteIs
    <3> QED
      BY <1>6, <3>1 DEF SeenBehind
  <2> HIDE DEF t, n, l, R
  <2>2. t.max_so \in Nat /\ t.last \in BOOLEAN /\ t.max_so >= s.max_so /\ t.max_so >= n.so + n.size - 1
    <3>1. s.max_so \in Nat /\ s.last \in BOOLEAN
      BY <1>3
    <3>2. n.so \in Nat /\ n.size \in Nat \ {0} /\ n.last \in BOOLEAN
      BY <1>2
    <3>3. t.max_so \in Nat /\ t.max_so >= s.max_so /\ t.max_so >= n.so + n.size - 1
      <4>1. CASE s.max_so >= n.so + n.size - 1
        BY <2>1, <3>1, <4>1
      <4>2. CASE ~(s.max_so >= n.so + n.size - 1)
        BY <2>1, <3>1, <3>2, <4>2
      <4> QED
        BY <4>1, <4>2
    <3> QED
      BY <2>1, <3>1, <3>2, <3>3
  <2>3. ASSUME NEW k \in 1 .. j + 1, q[k].sn = n.sn
        PROVE  q[k].so + q[k].size <= t.max_so + 1 /\ (q[k].last => t.last)
    <3>1. CASE k = j + 1
      <4>1. n.so \in Nat /\ n.size \in Nat
        BY <1>2
      <4>2. n.so + n.size <= t.max_so + 1
        BY <2>2, <4>1
      <4>3. n.last => t.last
        BY <2>1
      <4> QED
        BY <3>1, <4>2, <4>3 DEF n
    <3>2. CASE k \in 1 .. j
      <4>1. q[k].so + q[k].size <= s.max_so + 1 /\ (q[k].last => s.last)
        BY <1>3, <1>6, <2>3, <3>2
      <4>2. q[k].so \in Nat /\ q[k].size \in Nat
        BY <1>1, <3>2, ListedEntries
      <4>3. s.max_so \in Nat /\ t.max_so \in Nat /\ t.max_so >= s.max_so
        BY <1>3, <2>2
      <4>4. q[k].so + q[k].size <= t.max_so + 1
        BY <4>1, <4>2, <4>3
      <4> QED
        BY <2>1, <4>1, <4>4
    <3> QED
      BY <1>5, <3>1, <3>2
  <2>4. \E k \in 1 .. j + 1 : q[k].sn = n.sn /\ q[k].so + q[k].size = t.max_so + 1
    <3>1. CASE t.max_so = s.max_so
      BY <1>1, <1>3, <1>6, <3>1
    <3>2. CASE t.max_so # s.max_so
      <4>1. t.max_so = n.so + n.size - 1
        BY <2>1, <3>2
      <4>2. n.so + n.size = t.max_so + 1
        BY <1>2, <4>1
      <4> QED
        BY <1>1, <4>2 DEF n
    <3> QED
      BY <3>1, <3>2
  <2>5. t.last => \E k \in 1 .. j + 1 : q[k].sn = n.sn /\ q[k].last
    <3>1. s.last => \E k \in 1 .. j + 1 : q[k].sn = n.sn /\ q[k].last
      BY <1>1, <1>3, <1>6
    <3>2. n.last => \E k \in 1 .. j + 1 : q[k].sn = n.sn /\ q[k].last
      BY <1>1 DEF n
    <3> QED
      BY <2>1, <3>1, <3>2
  <2>6. ASSUME NEW g \in R
        PROVE  RxOffset(g.sn) > RxOffset(n.sn) \/ (g.sn = n.sn /\ g.so_start > t.max_so)
    <3>1. RxOffset(g.sn) > RxOffset(l.sn) \/ (g.sn = l.sn /\ g.so_start > s.max_so)
      BY <1>3
    <3>2. g.so_start \in Nat /\ (g.sn = n.sn => g.so_start < n.so \/ g.so_start >= n.so + n.size)
      BY <1>4
    <3>3. s.max_so \in Nat /\ n.so \in Nat /\ n.size \in Nat
      BY <1>2, <1>3
    <3>4. CASE g.sn = l.sn /\ g.so_start > s.max_so
      <4>1. g.sn = n.sn /\ s.max_so >= n.so - 1 /\ (g.so_start < n.so \/ g.so_start >= n.so + n.size)
        BY <1>6, <3>2, <3>4
      <4>2. g.so_start >= n.so + n.size
        BY <3>2, <3>3, <3>4, <4>1
      <4>3. CASE s.max_so >= n.so + n.size - 1
        BY <2>1, <3>4, <4>1, <4>3
      <4>4. CASE ~(s.max_so >= n.so + n.size - 1)
        <5>1. t.max_so = n.so + n.size - 1
          BY <2>1, <4>4
        <5> QED
          BY <3>2, <3>3, <4>1, <4>2, <5>1
      <4> QED
        BY <4>3, <4>4
    <3> QED
      BY <1>6, <3>1, <3>4
  <2>7. HasSeen(q, i, j + 1, t)
    BY <2>2, <2>3, <2>4, <2>5, <2>6 DEF HasSeen, n, R
  <2> QED
    BY <2>7 DEF t, n, l
<1>7. CASE n.sn # l.sn
  <2>1. n.sn = SnNext(l.sn) /\ s.last /\ n.so = 0
    BY <1>7 DEF Continues
  <2>2. t.max_so = n.size - 1 /\ t.last = n.last
    <3>1. FurtherByte(0, n) = n.so + n.size - 1
      <4> HIDE DEF n
      <4>1. n.so + n.size - 1 \in Nat
        BY <1>2
      <4>2. 0 >= n.so + n.size - 1 => n.so + n.size - 1 = 0
        BY <4>1
      <4>3. FurtherByte(0, n) = IF 0 >= n.so + n.size - 1 THEN 0 ELSE n.so + n.size - 1
        BY <1>2, FurtherByteIs
      <4> QED
        BY <4>2, <4>3
    <3>2. t = SeenFrom(n)
      BY <1>7 DEF SeenBehind
    <3> QED
      BY <1>2, <2>1, <3>1, <3>2 DEF SeenFrom
  <2>3. RxOffset(n.sn) = RxOffset(l.sn) + 1
    <3>1. rx_next \in SN /\ RxOffset(l.sn) < WindowSize
      BY <1>1, ListedEntries DEF RxTypeOK
    <3> QED
      BY <1>2, <2>1, <3>1, ModulusNext, SnAssumption DEF RxOffset
  <2>4. ASSUME NEW k \in 1 .. j
        PROVE  q[k].sn # n.sn
    <3>1. k \in 1 .. Len(q) /\ (k = j \/ k < j)
      BY <1>1
    <3>2. RxOffset(q[k].sn) \in Nat /\ RxOffset(q[k].sn) <= RxOffset(l.sn)
      BY <1>1, <1>2, <3>1, ListedEntries
    <3> QED
      BY <1>2, <2>3, <3>2
  <2>5. ASSUME NEW k \in 1 .. j + 1, q[k].sn = n.sn
        PROVE  k = j + 1
    BY <1>5, <2>4, <2>5
  <2>6. ASSUME NEW g \in R
        PROVE  RxOffset(g.sn) > RxOffset(n.sn) \/ (g.sn = n.sn /\ g.so_start > t.max_so)
    <3>1. RxOffset(g.sn) > RxOffset(l.sn)
      BY <1>1, <1>7, <2>1, SeenLast
    <3>2. g.so_start \in Nat
      BY <1>4
    <3>3. RxOffset(g.sn) > RxOffset(n.sn) \/ RxOffset(g.sn) = RxOffset(n.sn)
      BY <1>2, <1>4, <2>3, <3>1
    <3>4. RxOffset(g.sn) = RxOffset(n.sn) =>
             g.sn = n.sn /\ (g.so_start < n.so \/ g.so_start >= n.so + n.size)
      BY <1>4
    <3> HIDE DEF t, n
    <3> QED
      BY <1>2, <2>1, <2>2, <3>2, <3>3, <3>4
  <2>7. /\ t.max_so \in Nat /\ t.last \in BOOLEAN /\ n.so + n.size = t.max_so + 1
        /\ j + 1 \in 1 .. j + 1
    BY <1>1, <1>2, <2>1, <2>2
  <2>8. /\ \A k \in 1 .. j + 1 : q[k].sn = n.sn =>
              q[k].so + q[k].size <= t.max_so + 1 /\ (q[k].last => t.last)
        /\ \E k \in 1 .. j + 1 : q[k].sn = n.sn /\ q[k].so + q[k].size = t.max_so + 1
        /\ t.last => \E k \in 1 .. j + 1 : q[k].sn = n.sn /\ q[k].last
    <3>1. q[j + 1].sn = n.sn /\ q[j + 1].last = t.last /\ q[j + 1].so + q[j + 1].size = t.max_so + 1
      BY <2>2, <2>7
    <3> HIDE DEF t, n
    <3>2. ASSUME NEW k \in 1 .. j + 1, q[k].sn = n.sn
          PROVE  q[k].so + q[k].size <= t.max_so + 1 /\ (q[k].last => t.last)
      <4>1. k = j + 1
        BY <2>5, <3>2
      <4> QED
        BY <2>7, <3>1, <4>1
    <3> QED
      BY <2>7, <3>1, <3>2
  <2> HIDE DEF t, n
  <2>9. HasSeen(q, i, j + 1, t)
    BY <2>6, <2>7, <2>8 DEF HasSeen, n
  <2> QED
    BY <2>9 DEF t, n
<1>8. SnNext(l.sn) # l.sn
  BY <1>2, SnAssumption DEF SN, SnNext, SnWrap
<1> QED
  BY <1>6, <1>7, <1>8 DEF Continues

\* The walk stops at some entry, with what it has seen there.
LEMMA WalkStops ==
    ASSUME NEW q, Listed(q), NEW i, Unreached(q, i)
    PROVE  \E j \in i .. Len(q) : \E s :
              /\ HasSeen(q, i, j, s)
              /\ j = Len(q) \/ ~Continues(s, q[j], q[j + 1])
              /\ NextPdu(q, i) = Discontinuity(q, j, s)
<1> DEFINE N == Len(q)
           S == [max_so : Int, last : BOOLEAN]
           Walk(g) == g = [j \in i .. N |-> IF j = i THEN SeenFrom(q[i])
                                            ELSE SeenBehind(g[j - 1], q[j - 1], q[j])]
           w == CHOOSE g : Walk(g)
           T == {j \in i .. N : j = N \/ ~Continues(w[j], q[j], q[j + 1])}
<1>1. N \in Nat /\ i \in 1 .. N /\ i \in Nat /\ N - i \in Nat
  BY ListedEntries DEF Unreached
<1>2. NextPdu(q, i) = Discontinuity(q, Min(T), w[Min(T)])
  BY DEF NextPdu
<1>3. \A j \in 1 .. N : /\ q[j].so \in Nat /\ q[j].size \in Nat \ {0} /\ q[j].last \in BOOLEAN
                        /\ \A b \in Int : FurtherByte(b, q[j]) \in Int
  BY ListedEntries, FurtherByteType
<1> HIDE DEF N
<1>4. \A j \in 1 .. N : SeenFrom(q[j]) \in S
  BY <1>3 DEF SeenFrom
<1>5. \A j \in 1 .. N : \A l : \A s \in S : SeenBehind(s, l, q[j]) \in S
  BY <1>3, <1>4 DEF SeenBehind
<1>6. \E g : Walk(g)
  <2> DEFINE n == N - i
             init == SeenFrom(q[i])
             step == [d \in 1 .. n |-> [s \in S |-> SeenBehind(s, q[i + d - 1], q[i + d])]]
  <2>1. step \in [1 .. n -> [S -> S]]
    <3>1. \A d \in 1 .. n : i + d \in 1 .. N
      BY <1>1
    <3> QED
      BY <1>5, <3>1
  <2>2. \A d \in 1 .. n : \A s \in S : step[d][s] = SeenBehind(s, q[i + d - 1], q[i + d])
    OBVIOUS
  <2>3. IsLoop(n, S, init, step)
    BY <1>1, <1>4, <2>1 DEF IsLoop
  <2> HIDE DEF step, S
  <2>4. PICK h : Runs(h, n, S, init, step)
    BY <2>3, LoopValues
  <2>5. /\ h \in [0 .. n -> S]
        /\ h[0] = init /\ \A d \in 1 .. n : h[d] = step[d][h[d - 1]]
    BY <2>4 DEF Runs
  <2> DEFINE g == [j \in i .. N |-> h[j - i]]
  <2>6. ASSUME NEW j \in i .. N
        PROVE  g[j] = IF j = i THEN SeenFrom(q[i]) ELSE SeenBehind(g[j - 1], q[j - 1], q[j])
    <3>1. CASE j = i
      <4>1. j - i = 0
        BY <1>1, <3>1
      <4> QED
        BY <2>5, <3>1, <4>1
    <3>2. CASE j # i
      <4> DEFINE d == j - i
      <4>1. d \in 1 .. n /\ j - 1 \in i .. N /\ (j - 1) - i = d - 1 /\ i + d - 1 = j - 1 /\ i + d = j
        BY <1>1, <3>2
      <4>2. g[j] = h[d] /\ g[j - 1] = h[d - 1] /\ h[d - 1] \in S
        <5>1. d - 1 \in 0 .. n
          BY <1>1, <4>1
        <5> QED
          BY <2>5, <4>1, <5>1
      <4>3. h[d] = SeenBehind(h[d - 1], q[j - 1], q[j])
        <5> HIDE DEF d
        <5> QED
          BY <2>2, <2>5, <4>1, <4>2
      <4> QED
        BY <3>2, <4>2, <4>3
    <3> QED
      BY <3>1, <3>2
  <2>7. g = [j \in i .. N |-> g[j]]
    OBVIOUS
  <2> HIDE DEF g
  <2>8. Walk(g)
    BY <2>6, <2>7
  <2> QED
    BY <2>8
<1>7. /\ w[i] = SeenFrom(q[i])
      /\ \A j \in i + 1 .. N : w[j] = SeenBehind(w[j - 1], q[j - 1], q[j])
  <2>1. Walk(w)
    BY <1>6
  <2> HIDE DEF w
  <2>2. \A j \in i .. N : w[j] = IF j = i THEN SeenFrom(q[i])
                                 ELSE SeenBehind(w[j - 1], q[j - 1], q[j])
    BY <2>1
  <2>3. i \in i .. N /\ \A j \in i + 1 .. N : j \in i .. N /\ j # i
    BY <1>1
  <2> QED
    BY <2>2, <2>3
<1> HIDE DEF w
<1>8. T \in SUBSET Nat /\ N \in T
  BY <1>1
<1> DEFINE stop == Min(T)
<1>9. stop \in T /\ \A j \in T : stop <= j
  BY <1>8, MinOfNumbers
<1>10. stop \in i .. N /\ (stop = N \/ ~Continues(w[stop], q[stop], q[stop + 1]))
  BY <1>9
<1>11. \A j \in i .. stop - 1 : j \in i .. N - 1 /\ Continues(w[j], q[j], q[j + 1])
  <2> SUFFICES ASSUME NEW j \in i .. stop - 1
               PROVE  j \in i .. N - 1 /\ Continues(w[j], q[j], q[j + 1])
    OBVIOUS
  <2>1. j \in i .. N - 1 /\ j \in Nat /\ ~(stop <= j) /\ j # N
    BY <1>1, <1>10
  <2>2. j \notin T
    BY <1>9, <2>1
  <2> QED
    BY <1>1, <2>1, <2>2
<1> HIDE DEF T, stop
<1> DEFINE P == {d \in 0 .. stop - i : HasSeen(q, i, i + d, w[i + d])}
<1>12. 0 \in P
  BY <1>1, <1>7, <1>10, SeenFirst
<1>13. ASSUME NEW d \in 1 .. stop - i, d - 1 \in P
       PROVE  d \in P
  <2> DEFINE j == i + (d - 1)
  <2>1. j \in i .. stop - 1 /\ j + 1 = i + d /\ j + 1 \in i + 1 .. N /\ d \in 0 .. stop - i
    BY <1>1, <1>10
  <2>2. HasSeen(q, i, j, w[j])
    BY <1>13
  <2> HIDE DEF j
  <2>3. j \in i .. Len(q) - 1 /\ Continues(w[j], q[j], q[j + 1])
    BY <1>11, <2>1 DEF N
  <2>4. HasSeen(q, i, j + 1, SeenBehind(w[j], q[j], q[j + 1]))
    BY <2>2, <2>3, SeenNext
  <2>5. w[j + 1] = SeenBehind(w[j], q[j], q[j + 1])
    <3>1. (j + 1) - 1 = j
      BY <1>1, <2>1
    <3> QED
      BY <1>7, <2>1, <3>1
  <2> QED
    BY <2>1, <2>4, <2>5
<1>14. HasSeen(q, i, stop, w[stop])
  <2>1. \A d \in 1 .. stop - i : d - 1 \in P => d \in P
    BY <1>13
  <2>2. stop - i \in Nat /\ i + (stop - i) = stop
    BY <1>1, <1>10
  <2> HIDE DEF P
  <2>3. \A d \in 0 .. stop - i : d \in P
    BY <1>12, <2>1, <2>2, AllPositions
  <2>4. stop - i \in P
    BY <2>2, <2>3
  <2> QED
    BY <2>2, <2>4 DEF P
<1> QED
  BY <1>2, <1>10, <1>14 DEF N, stop

\* Where the walk stops, the next byte is open, and no gap was passed.
LEMMA StopIsOpen ==
    ASSUME NEW q, Listed(q), NEW i, Unreached(q, i), NEW j \in i .. Len(q), NEW s,
           HasSeen(q, i, j, s), j = Len(q) \/ ~Continues(s, q[j], q[j + 1])
    PROVE  LET sn == IF s.last THEN SnNext(q[j].sn) ELSE q[j].sn
               so == IF s.last THEN 0 ELSE s.max_so + 1
           IN /\ IsOpen(q, j + 1, sn, so)
              /\ GapsFrom(q[i].sn, q[i].so) = GapsFrom(sn, so)
              /\ j < Len(q) /\ q[j + 1].sn = q[j].sn => ~s.last
<1> DEFINE l == q[j]
           n == q[j + 1]
           R == GapsFrom(q[i].sn, q[i].so)
           sn == IF s.last THEN SnNext(l.sn) ELSE l.sn
           so == IF s.last THEN 0 ELSE s.max_so + 1
           O(x) == RxOffset(x)
<1>1. /\ Len(q) \in Nat /\ i \in 1 .. Len(q) /\ j \in 1 .. Len(q) /\ i <= j /\ j \in Nat
      /\ i \in 1 .. j
  BY ListedEntries DEF Unreached
<1>2. /\ s.max_so \in Nat /\ s.last \in BOOLEAN
      /\ \A k \in 1 .. j : q[k].sn = l.sn =>
            q[k].so + q[k].size <= s.max_so + 1 /\ (q[k].last => s.last)
      /\ \E k \in 1 .. j : q[k].sn = l.sn /\ q[k].so + q[k].size = s.max_so + 1
      /\ s.last => \E k \in 1 .. j : q[k].sn = l.sn /\ q[k].last
      /\ \A g \in R : O(g.sn) > O(l.sn) \/ (g.sn = l.sn /\ g.so_start > s.max_so)
  BY DEF HasSeen
<1>3. /\ l.sn \in SN /\ O(l.sn) \in Nat /\ O(l.sn) < WindowSize /\ rx_next \in SN
      /\ RxTypeOK
  BY <1>1, ListedEntries DEF RxTypeOK
<1>4. SnNext(l.sn) \in SN /\ O(SnNext(l.sn)) = O(l.sn) + 1
  BY <1>3, ModulusNext, SnAssumption DEF RxOffset
<1>5. sn \in SN /\ so \in Nat /\ O(sn) = IF s.last THEN O(l.sn) + 1 ELSE O(l.sn)
  BY <1>2, <1>3, <1>4
<1>6. ASSUME j < Len(q)
      PROVE  /\ n.sn \in SN /\ n.so \in Nat /\ n.size \in Nat \ {0} /\ O(n.sn) \in Nat
             /\ O(l.sn) <= O(n.sn) /\ (O(l.sn) = O(n.sn) => l.sn = n.sn)
             /\ n.sn = l.sn => ~s.last
             /\ O(n.sn) > O(sn) \/ (n.sn = sn /\ n.so > so)
  <2>1. j + 1 \in 1 .. Len(q) /\ j < j + 1
    BY <1>1, <1>6
  <2>2. /\ n.sn \in SN /\ n.so \in Nat /\ n.size \in Nat \ {0} /\ O(n.sn) \in Nat
        /\ O(l.sn) <= O(n.sn) /\ (O(l.sn) = O(n.sn) => l.sn = n.sn)
    BY <1>1, <2>1, ListedEntries
  <2>3. ~Continues(s, l, n)
    BY <1>1, <1>6
  <2> HIDE DEF n
  <2>4. ASSUME n.sn = l.sn
        PROVE  ~s.last /\ n.so > s.max_so + 1
    <3>1. n.so > s.max_so + 1
      BY <1>2, <2>2, <2>3, <2>4 DEF Continues
    <3>2. ASSUME s.last
          PROVE  FALSE
      <4>1. PICK k \in 1 .. j : q[k].sn = l.sn /\ q[k].last
        BY <1>2, <3>2
      <4>2. k \in 1 .. Len(q)
        BY <1>1
      <4>3. q[k] \in rx_list /\ n \in rx_list /\ q[k].so \in Nat /\ q[k].size \in Nat
        BY <2>1, <4>2, ListedEntries DEF n
      <4>4. n.so + n.size <= q[k].so + q[k].size
        BY <2>4, <4>1, <4>3 DEF Listed, SegmentsAgree
      <4>5. q[k].so + q[k].size <= s.max_so + 1
        BY <1>2, <4>1
      <4>6. n.so \in Nat /\ n.size \in Nat /\ s.max_so \in Nat
        BY <1>2, <2>2
      <4> HIDE DEF l
      <4>7. n.so + n.size <= s.max_so + 1
        BY <4>3, <4>4, <4>5, <4>6
      <4> QED
        BY <3>1, <4>6, <4>7
    <3> QED
      BY <3>1, <3>2
  <2>5. O(n.sn) > O(sn) \/ (n.sn = sn /\ n.so > so)
    <3>1. CASE n.sn = l.sn
      BY <2>4, <3>1
    <3>2. CASE n.sn # l.sn
      <4>1. O(n.sn) >= O(l.sn) + 1
        BY <1>3, <2>2, <3>2
      <4>2. CASE ~s.last
        BY <1>3, <1>5, <2>2, <4>1, <4>2
      <4>3. CASE s.last
        <5>1. n.sn = sn => n.so # 0
          BY <2>3, <4>3 DEF Continues
        <5>2. O(n.sn) = O(sn) => n.sn = sn
          BY <1>3, <1>5, <2>2, ModulusInjective DEF RxOffset
        <5>3. so = 0 /\ O(sn) = O(l.sn) + 1
          BY <1>5, <4>3
        <5> HIDE DEF sn, so
        <5> QED
          BY <1>3, <2>2, <4>1, <5>1, <5>2, <5>3
      <4> QED
        BY <1>2, <4>2, <4>3
    <3> QED
      BY <3>1, <3>2
  <2> QED
    BY <2>2, <2>4, <2>5
<1>7. ASSUME NEW k \in 1 .. j
      PROVE  O(q[k].sn) < O(sn) \/ (q[k].sn = sn /\ q[k].so + q[k].size <= so /\ ~q[k].last)
  <2>1. k \in 1 .. Len(q) /\ (k = j \/ k < j)
    BY <1>1
  <2>2. /\ O(q[k].sn) \in Nat /\ O(q[k].sn) <= O(l.sn)
        /\ O(q[k].sn) = O(l.sn) => q[k].sn = l.sn
    BY <1>1, <1>3, <2>1, ListedEntries
  <2>3. CASE s.last
    BY <1>3, <1>5, <2>2, <2>3
  <2>4. CASE ~s.last
    <3>1. q[k].sn = l.sn => q[k].so + q[k].size <= s.max_so + 1 /\ ~q[k].last
      BY <1>2, <2>4
    <3> QED
      BY <1>3, <1>5, <2>2, <2>4, <3>1
  <2> QED
    BY <1>2, <2>3, <2>4
<1>8. ASSUME NEW k \in j + 1 .. Len(q)
      PROVE  O(q[k].sn) > O(sn) \/ (q[k].sn = sn /\ q[k].so > so)
  <2>1. j < Len(q) /\ j + 1 \in 1 .. Len(q) /\ k \in 1 .. Len(q) /\ (k = j + 1 \/ j + 1 < k)
    BY <1>1
  <2>2. /\ O(q[k].sn) \in Nat /\ q[k].so \in Nat
        /\ j + 1 < k => /\ O(n.sn) <= O(q[k].sn)
                        /\ O(n.sn) = O(q[k].sn) => n.sn = q[k].sn
                        /\ n.sn = q[k].sn => n.so <= q[k].so
    BY <2>1, ListedEntries
  <2>3. /\ n.so \in Nat /\ O(n.sn) \in Nat
        /\ O(n.sn) > O(sn) \/ (n.sn = sn /\ n.so > so)
    BY <1>6, <2>1
  <2>4. O(sn) \in Nat /\ so \in Nat
    BY <1>3, <1>5
  <2>5. CASE k = j + 1
    BY <2>3, <2>5
  <2>6. CASE j + 1 < k
    <3> HIDE DEF n, sn, so
    <3> QED
      BY <2>2, <2>3, <2>4, <2>6
  <2> QED
    BY <2>1, <2>5, <2>6
<1>9. IsOpen(q, j + 1, sn, so)
  <2>1. so = 0 \/ \E k \in 1 .. (j + 1) - 1 : q[k].sn = sn /\ q[k].so + q[k].size = so
    BY <1>1, <1>2
  <2>2. j + 1 \in 1 .. Len(q) + 1 /\ (j + 1) - 1 = j
    BY <1>1
  <2> HIDE DEF sn, so
  <2> QED
    BY <1>5, <1>7, <1>8, <2>1, <2>2 DEF IsOpen
<1>10. ASSUME NEW g \in R
       PROVE  g \in GapsFrom(sn, so)
  <2>1. g \in Gaps /\ (O(g.sn) > O(l.sn) \/ (g.sn = l.sn /\ g.so_start > s.max_so))
    BY <1>2 DEF GapsFrom
  <2>2. g.sn \in SN /\ O(g.sn) \in Nat /\ g.so_start \in Nat /\ g \in Gaps
    BY <1>3, <2>1, GapElement
  <2>3. O(g.sn) = O(sn) => g.sn = sn
    BY <1>3, <1>5, <2>2, ModulusInjective DEF RxOffset
  <2>4. CASE ~s.last
    <3>1. sn = l.sn /\ so = s.max_so + 1
      BY <2>4
    <3> HIDE DEF sn, so
    <3>2. O(g.sn) > O(sn) \/ (g.sn = sn /\ g.so_start >= so)
      BY <1>2, <2>1, <2>2, <3>1
    <3> QED
      BY <2>2, <3>2 DEF GapsFrom
  <2>5. CASE s.last
    <3>1. O(g.sn) > O(l.sn)
      BY <1>1, <1>6, <2>5, SeenLast
    <3>2. so = 0 /\ O(sn) = O(l.sn) + 1
      BY <1>5, <2>5
    <3> HIDE DEF sn, so
    <3>3. O(g.sn) > O(sn) \/ (g.sn = sn /\ g.so_start >= so)
      BY <1>3, <2>2, <2>3, <3>1, <3>2
    <3> QED
      BY <2>2, <3>3 DEF GapsFrom
  <2> QED
    BY <1>2, <2>4, <2>5
<1>11. ASSUME NEW g \in GapsFrom(sn, so)
       PROVE  g \in R
  <2> DEFINE f == q[i]
  <2>1. g \in Gaps /\ (O(g.sn) > O(sn) \/ (g.sn = sn /\ g.so_start >= so))
    BY DEF GapsFrom
  <2>2. g.sn \in SN /\ O(g.sn) \in Nat /\ g.so_start \in Nat
    BY <1>3, <2>1, GapElement
  <2>3. f.so \in Nat /\ f.size \in Nat /\ O(f.sn) \in Nat
    BY <1>1, ListedEntries
  <2>4. O(f.sn) < O(sn) \/ (f.sn = sn /\ f.so + f.size <= so)
    BY <1>1, <1>7
  <2> HIDE DEF f, sn, so
  <2>5. O(sn) \in Nat /\ so \in Nat
    BY <1>3, <1>5
  <2>6. O(g.sn) > O(f.sn) \/ (g.sn = f.sn /\ g.so_start >= f.so)
    BY <2>1, <2>2, <2>3, <2>4, <2>5
  <2> QED
    BY <2>1, <2>6 DEF GapsFrom, f
<1> QED
  BY <1>6, <1>9, <1>10, <1>11

\* What next_missing returns for an open byte
Outcome(q, e, sn, so) ==
    IF OutOfReport(sn) THEN NothingMissing ELSE MissingFrom(q, e, sn, so)

\* From an entry that nothing reaches into, label next_pdu finds the first gap
\* behind it.
LEMMA NextPduIs ==
    ASSUME NEW q, Listed(q), NEW i, Unreached(q, i)
    PROVE  \E e, sn, so :
              /\ IsOpen(q, e, sn, so) /\ e > i
              /\ GapsFrom(q[i].sn, q[i].so) = GapsFrom(sn, so)
              /\ NextPdu(q, i) = Outcome(q, e, sn, so)
<1>0. PICK j \in i .. Len(q) : \E s :
         /\ HasSeen(q, i, j, s)
         /\ j = Len(q) \/ ~Continues(s, q[j], q[j + 1])
         /\ NextPdu(q, i) = Discontinuity(q, j, s)
  BY WalkStops
<1>1. PICK s :
         /\ HasSeen(q, i, j, s)
         /\ j = Len(q) \/ ~Continues(s, q[j], q[j + 1])
         /\ NextPdu(q, i) = Discontinuity(q, j, s)
  BY <1>0
<1> DEFINE l == q[j]
           n == q[j + 1]
           sn == IF s.last THEN SnNext(l.sn) ELSE l.sn
           so == IF s.last THEN 0 ELSE s.max_so + 1
<1>2. /\ IsOpen(q, j + 1, sn, so)
      /\ GapsFrom(q[i].sn, q[i].so) = GapsFrom(sn, so)
      /\ j < Len(q) /\ n.sn = l.sn => ~s.last
  BY <1>1, StopIsOpen
<1>3. /\ Len(q) \in Nat /\ i \in 1 .. Len(q) /\ j \in 1 .. Len(q) /\ j \in Nat
      /\ j = Len(q) \/ j < Len(q)
  BY ListedEntries DEF Unreached
<1>4. Discontinuity(q, j, s) =
         IF j = Len(q)
         THEN LET start == IF l.data THEN sn ELSE SnNext(l.sn)
              IN IF OutOfReport(start) THEN NothingMissing
                 ELSE UpToHighestStatus(start, IF l.data THEN so ELSE 0)
         ELSE IF n.sn = l.sn
         THEN IF OutOfReport(l.sn) THEN NothingMissing
              ELSE [sn_start |-> l.sn, so_start |-> s.max_so + 1,
                    sn_end |-> l.sn, so_end |-> n.so - 1, next |-> j + 1]
         ELSE IF OutOfReport(sn) THEN NothingMissing
         ELSE EndDifferentSdu(q, j + 1, sn, so)
  BY DEF Discontinuity
<1>5. Discontinuity(q, j, s) = Outcome(q, j + 1, sn, so)
  <2>1. CASE j = Len(q)
    <3>1. ~l.data => s.last
      <4> SUFFICES ASSUME ~l.data
                   PROVE  s.last
        OBVIOUS
      <4>1. l \in rx_list /\ l.sn \in SN
        BY <1>3, ListedEntries
      <4>2. SduDelivered(rx_list, l.sn)
        BY <4>1 DEF SduDelivered, SegmentsOf
      <4>3. PICK h \in SegmentsOf(rx_list, l.sn) : h.last
        BY <4>1, <4>2 DEF Listed, DeliveredWhole
      <4>4. PICK k \in 1 .. Len(q) : q[k] = h
        BY ListedEntries DEF SegmentsOf
      <4>5. k \in 1 .. j /\ q[k].sn = l.sn /\ q[k].last
        BY <2>1, <4>3, <4>4 DEF SegmentsOf
      <4> QED
        BY <1>1, <4>5 DEF HasSeen
    <3>2. (IF l.data THEN sn ELSE SnNext(l.sn)) = sn /\ (IF l.data THEN so ELSE 0) = so
      BY <3>1
    <3>3. j + 1 > Len(q)
      BY <1>3, <2>1
    <3> HIDE DEF sn, so, l, n
    <3> QED
      BY <1>4, <2>1, <3>2, <3>3 DEF Outcome, MissingFrom
  <2>2. CASE j < Len(q) /\ n.sn = l.sn
    <3>1. sn = l.sn /\ so = s.max_so + 1
      BY <1>2, <2>2
    <3>2. n.so # 0
      <4>1. j + 1 \in 1 .. Len(q) /\ j + 1 \in j + 1 .. Len(q)
        BY <1>3, <2>2
      <4>2. so \in Nat /\ RxOffset(sn) \in Nat /\ n.so \in Nat
        BY <1>2, <1>3, <3>1, <4>1, ListedEntries DEF IsOpen
      <4>3. RxOffset(n.sn) > RxOffset(sn) \/ (n.sn = sn /\ n.so > so)
        BY <1>2, <4>1 DEF IsOpen
      <4> HIDE DEF n, sn, so
      <4> QED
        BY <2>2, <3>1, <4>2, <4>3
    <3>3. ~(j + 1 > Len(q)) /\ j # Len(q)
      BY <1>3, <2>2
    <3>4. ~OutOfReport(l.sn) =>
             EndDifferentSdu(q, j + 1, sn, so) =
                [sn_start |-> l.sn, so_start |-> s.max_so + 1,
                 sn_end |-> l.sn, so_end |-> n.so - 1, next |-> j + 1]
      BY <2>2, <3>1, <3>2 DEF EndDifferentSdu
    <3> HIDE DEF sn, so, l, n
    <3> QED
      BY <1>4, <2>2, <3>1, <3>3, <3>4 DEF Outcome, MissingFrom
  <2>3. CASE j < Len(q) /\ n.sn # l.sn
    <3>1. ~(j + 1 > Len(q)) /\ j # Len(q)
      BY <1>3, <2>3
    <3> HIDE DEF sn, so, l, n
    <3> QED
      BY <1>4, <2>3, <3>1 DEF Outcome, MissingFrom
  <2> QED
    BY <1>3, <2>1, <2>2, <2>3
<1>6. j + 1 > i
  BY <1>3
<1> HIDE DEF sn, so
<1> QED
  BY <1>1, <1>2, <1>5, <1>6

\* The gaps that next_missing has still to return, when it is called for entry c
Ahead(q, c, check_head) == IF check_head THEN Gaps ELSE GapsFrom(q[c].sn, q[c].so)

\* next_missing returns the first missing interval, or that there is none.
LEMMA NextMissingIs ==
    ASSUME NEW q, Listed(q), NEW c, Unreached(q, c), NEW h \in BOOLEAN, h => c = 1
    PROVE  LET m == NextMissing(q, c, h)
           IN \/ m.sn_start = -1 /\ Ahead(q, c, h) = {}
              \/ /\ m.sn_start # -1 /\ m.next \in 0 .. Len(q)
                 /\ m.next # 0 => Unreached(q, m.next) /\ (m.next > c \/ (h /\ m.next >= c))
                 /\ \E D, G : IsFound(q, m, Ahead(q, c, h), D, G)
<1> DEFINE O(x) == RxOffset(x)
<1>1. /\ Len(q) \in Nat /\ c \in 1 .. Len(q) /\ RxTypeOK
      /\ rx_next \in SN /\ O(rx_next) = 0
  BY ListedEntries, SnAssumption DEF Unreached, RxTypeOK, RxOffset, Modulus, SN
<1>2. \A x \in SN : O(x) \in Nat /\ (O(x) = 0 => x = rx_next)
  BY <1>1, OffsetType, ModulusType DEF RxOffset
<1>3. \A g \in Gaps : g.sn \in SN /\ O(g.sn) \in Nat /\ g.so_start \in Nat
  BY <1>1, GapElement
<1>4. GapsFrom(rx_next, 0) = Gaps
  <2>1. \A g \in Gaps : O(g.sn) > O(rx_next) \/ (g.sn = rx_next /\ g.so_start >= 0)
    BY <1>1, <1>2, <1>3
  <2> QED
    BY <2>1 DEF GapsFrom
<1>5. \E e, sn, so : /\ IsOpen(q, e, sn, so) /\ (e > c \/ (h /\ e >= c))
                     /\ Ahead(q, c, h) = GapsFrom(sn, so)
                     /\ NextMissing(q, c, h) = Outcome(q, e, sn, so)
  <2>1. CASE ~h
    <3>1. NextMissing(q, c, h) = NextPdu(q, c) /\ Ahead(q, c, h) = GapsFrom(q[c].sn, q[c].so)
      BY <2>1 DEF NextMissing, Ahead
    <3> QED
      BY <3>1, NextPduIs
  <2>2. CASE h /\ q[1].sn = rx_next /\ q[1].so = 0
    <3>1. c = 1 /\ NextMissing(q, c, h) = NextPdu(q, c)
      BY <2>2 DEF NextMissing
    <3>2. Ahead(q, c, h) = GapsFrom(q[c].sn, q[c].so)
      BY <1>4, <2>2, <3>1 DEF Ahead
    <3> QED
      BY <3>1, <3>2, NextPduIs
  <2>3. CASE h /\ ~(q[1].sn = rx_next /\ q[1].so = 0)
    <3>1. c = 1 /\ 1 \in 1 .. Len(q)
      BY <1>1, <2>3
    <3>2. NextMissing(q, c, h) = Outcome(q, 1, rx_next, 0)
      <4>1. ~(1 > Len(q))
        BY <3>1
      <4> QED
        BY <2>3, <3>1, <4>1 DEF NextMissing, Outcome, MissingFrom
    <3>3. IsOpen(q, 1, rx_next, 0)
      <4>1. ASSUME NEW k \in 1 .. Len(q)
            PROVE  O(q[k].sn) > O(rx_next) \/ (q[k].sn = rx_next /\ q[k].so > 0)
        <5>1. /\ q[1].sn \in SN /\ q[k].sn \in SN /\ q[1].so \in Nat /\ q[k].so \in Nat
              /\ 1 < k => /\ O(q[1].sn) <= O(q[k].sn)
                          /\ q[1].sn = q[k].sn => q[1].so <= q[k].so
          BY <3>1, ListedEntries
        <5>2. CASE O(q[k].sn) = 0
          <6>1. q[k].sn = rx_next
            BY <1>2, <5>1, <5>2
          <6>2. q[1].sn = rx_next /\ q[1].so <= q[k].so
            <7>1. O(q[1].sn) \in Nat /\ O(q[1].sn) <= 0
              BY <1>2, <5>1, <5>2
            <7>2. q[1].sn = rx_next
              BY <1>2, <5>1, <7>1
            <7> QED
              BY <5>1, <6>1, <7>2
          <6> QED
            BY <2>3, <5>1, <6>1, <6>2
        <5>3. CASE O(q[k].sn) # 0
          BY <1>1, <1>2, <5>1, <5>3
        <5> QED
          BY <5>2, <5>3
      <4>2. 1 \in 1 .. Len(q) + 1 /\ 0 \in Nat /\ 1 .. 1 - 1 = {}
        BY <1>1
      <4> QED
        BY <1>1, <4>1, <4>2 DEF IsOpen
    <3>4. Ahead(q, c, h) = GapsFrom(rx_next, 0)
      BY <1>4, <2>3 DEF Ahead
    <3>5. h /\ 1 >= c
      BY <2>3, <3>1
    <3> QED
      BY <3>2, <3>3, <3>4, <3>5
  <2> QED
    BY <2>1, <2>2, <2>3
<1>6. PICK e, sn, so : /\ IsOpen(q, e, sn, so) /\ (e > c \/ (h /\ e >= c))
                       /\ Ahead(q, c, h) = GapsFrom(sn, so)
                       /\ NextMissing(q, c, h) = Outcome(q, e, sn, so)
  BY <1>5
<1> DEFINE m == NextMissing(q, c, h)
<1>7. sn \in SN /\ so \in Nat /\ e \in 1 .. Len(q) + 1
  BY <1>6 DEF IsOpen
<1>8. CASE OutOfReport(sn)
  <2>1. m.sn_start = -1
    BY <1>6, <1>8 DEF Outcome, NothingMissing
  <2>2. ASSUME NEW g \in GapsFrom(sn, so)
        PROVE  FALSE
    <3>1. g \in Gaps /\ (O(g.sn) > O(sn) \/ g.sn = sn)
      BY DEF GapsFrom
    <3>2. O(g.sn) < O(rx_highest_status) /\ O(g.sn) \in Nat
      BY <1>1, <3>1, GapElement
    <3>3. O(rx_highest_status) <= O(sn) /\ O(rx_highest_status) \in Nat
      BY <1>1, <1>2, <1>8 DEF OutOfReport, RxTypeOK
    <3> QED
      BY <1>2, <1>7, <3>1, <3>2, <3>3
  <2> QED
    BY <1>6, <2>1, <2>2
<1>9. CASE ~OutOfReport(sn)
  <2>1. m = MissingFrom(q, e, sn, so)
    BY <1>6, <1>9 DEF Outcome
  <2>2. /\ m.sn_start = sn /\ m.next \in {0, e} \cap (0 .. Len(q))
        /\ \E D, G : IsFound(q, m, GapsFrom(sn, so), D, G)
    BY <1>6, <1>9, <2>1, IntervalFound
  <2>3. m.sn_start # -1
    BY <1>7, <2>2, SnAssumption DEF SN
  <2>4. e <= Len(q) => Unreached(q, e)
    <3> SUFFICES ASSUME e <= Len(q), NEW k \in 1 .. e - 1, q[k].sn = q[e].sn
                 PROVE  q[k].so + q[k].size <= q[e].so
      BY <1>1, <1>7 DEF Unreached
    <3>1. e \in e .. Len(q) /\ e \in 1 .. Len(q) /\ k \in 1 .. Len(q)
      BY <1>1, <1>7
    <3>2. /\ O(q[k].sn) < O(sn) \/ (q[k].sn = sn /\ q[k].so + q[k].size <= so)
          /\ O(q[e].sn) > O(sn) \/ (q[e].sn = sn /\ q[e].so > so)
      BY <1>6, <3>1 DEF IsOpen
    <3>3. /\ q[k].so \in Nat /\ q[k].size \in Nat /\ q[e].so \in Nat
          /\ O(q[k].sn) \in Nat /\ O(sn) \in Nat
      BY <1>2, <1>7, <3>1, ListedEntries
    <3> QED
      BY <1>7, <3>2, <3>3
  <2>5. m.next # 0 => m.next = e /\ e <= Len(q)
    BY <1>1, <1>7, <2>2
  <2> HIDE DEF m
  <2>6. m.next # 0 => Unreached(q, m.next) /\ (m.next > c \/ (h /\ m.next >= c))
    BY <1>6, <2>4, <2>5
  <2>7. \E D, G : IsFound(q, m, Ahead(q, c, h), D, G)
    BY <1>6, <2>2
  <2>8. m.next \in 0 .. Len(q)
    BY <2>2
  <2> QED
    BY <2>3, <2>6, <2>7, <2>8 DEF m
<1> QED
  BY <1>8, <1>9

-----------------------------------------------------------------------------
(* The blocks of an interval *)

\* The gaps a .. b of the list are the interval m, and cut into blocks from a on.
LiesAt(gaps, m, a, b) ==
    /\ b - a = Modulus(m.sn_start, m.sn_end)
    /\ m.sn_start \in SN /\ m.sn_end \in SN
    /\ \A d \in 0 .. b - a :
          /\ gaps[a + d].sn = SnWrap(m.sn_start + d)
          /\ gaps[a + d].sn = m.sn_start <=> d = 0
          /\ gaps[a + d].so_start = IF d = 0 THEN m.so_start ELSE 0
          /\ gaps[a + d].so_end = IF d = b - a THEN m.so_end ELSE ToEnd
    /\ a \in BlockStarts(gaps)
    /\ \A s \in BlockStarts(gaps) : s \in a .. b =>
          BlockEnd(gaps, s) = IF s + NackRange - 1 <= b THEN s + NackRange - 1 ELSE b

\* The interval m is the gaps from p on, up to some gap b; the entry m.next, if
\* there is one, stands before those behind it.
LiesNext(q, n, gaps, p, m) ==
    \E b \in p .. n :
       /\ LiesAt(gaps, m, p, b)
       /\ b < n => ~Joined(gaps[b], gaps[b + 1])
       /\ m.next = 0 => b = n
       /\ m.next # 0 => GapsFrom(q[m.next].sn, q[m.next].so) = {gaps[x] : x \in b + 1 .. n}

\* An interval that next_missing returns lies next in the list of gaps.
LEMMA IntervalLiesNext ==
    ASSUME RxTypeOK, NEW n, NEW gaps, SortedGaps(gaps, n), NEW p \in 0 .. n,
           0 < p /\ p < n => ~Joined(gaps[p], gaps[p + 1]),
           NEW q, NEW m, NEW R, NEW D, NEW G, IsFound(q, m, R, D, G),
           R = {gaps[x] : x \in p + 1 .. n}
    PROVE  LiesNext(q, n, gaps, p + 1, m)
<1>1. n \in Nat /\ gaps \in [1 .. n -> Gaps] /\ p \in Nat
  BY DEF SortedGaps, GapList
<1>2. /\ D \in Nat /\ D = Modulus(m.sn_start, m.sn_end)
      /\ m.sn_start \in SN /\ m.sn_end \in SN /\ G[0].sn = m.sn_start
      /\ \A d \in 0 .. D :
            /\ G[d] \in R
            /\ RxOffset(G[d].sn) = RxOffset(m.sn_start) + d
            /\ G[d].so_start = IF d = 0 THEN m.so_start ELSE 0
            /\ G[d].so_end = IF d = D THEN m.so_end ELSE ToEnd
      /\ \A g \in R : (\E d \in 0 .. D : g = G[d]) \/ GapBefore(G[D], g)
  BY DEF IsFound, IsInterval
<1>3. /\ \A g \in R : GapBefore(G[D], g) =>
            /\ m.next # 0 /\ g \in GapsFrom(q[m.next].sn, q[m.next].so)
            /\ ~Joined(G[D], g)
      /\ m.next # 0 => \A g \in GapsFrom(q[m.next].sn, q[m.next].so) :
                          g \in R /\ GapBefore(G[D], g)
  BY DEF IsFound
<1>4. /\ p + 1 + D \in p + 1 .. n
      /\ \A d \in 0 .. D : gaps[p + 1 + d] = G[d]
      /\ \A x \in p + 1 .. n : x > p + 1 + D <=> GapBefore(G[D], gaps[x])
  <2>1. \A d \in 0 .. D : \E x \in p + 1 .. n : gaps[x] = G[d]
    BY <1>2
  <2>2. \A d \in 0 .. D : RxOffset(G[d].sn) = RxOffset(G[0].sn) + d
    BY <1>2
  <2>3. \A x \in p + 1 .. n : (\E d \in 0 .. D : gaps[x] = G[d]) \/ GapBefore(G[D], gaps[x])
    BY <1>2
  <2>4. \A d \in 0 .. D : /\ \E x \in p + 1 .. n : gaps[x] = G[d]
                          /\ RxOffset(G[d].sn) = RxOffset(G[0].sn) + d
    BY <2>1, <2>2
  <2>5. D \in Nat
    BY <1>2
  <2> QED
    BY <2>3, <2>4, <2>5, NextGaps
<1> DEFINE a == p + 1
           b == p + 1 + D
<1>5. a \in 1 .. n /\ b \in a .. n /\ b - a = D /\ D \in 0 .. D
  BY <1>1, <1>2, <1>4
<1>6. ASSUME NEW d \in 0 .. D
      PROVE  /\ G[d].sn \in SN /\ G[d].sn = SnWrap(m.sn_start + d)
             /\ G[d].sn = m.sn_start <=> d = 0
  <2>1. G[d] \in Gaps
    <3>1. G[d] \in R
      BY <1>2
    <3>2. PICK x \in p + 1 .. n : G[d] = gaps[x]
      BY <3>1
    <3>3. x \in 1 .. n
      BY <1>1
    <3> QED
      BY <1>1, <3>2, <3>3
  <2>2. G[d].sn \in SN
    BY <2>1, GapElement
  <2>3. RxOffset(m.sn_start) \in Int /\ rx_next \in SN
    BY <1>2, OffsetType DEF RxTypeOK
  <2>4. G[d].sn = SnWrap(m.sn_start + d)
    BY <1>2, <2>2, <2>3, WrapIs DEF RxOffset
  <2>5. G[d].sn = m.sn_start => d = 0
    BY <1>2, <2>3
  <2>6. d = 0 => G[d].sn = m.sn_start
    BY <1>2
  <2> QED
    BY <2>2, <2>4, <2>5, <2>6
<1>7. ASSUME NEW j \in a + 1 .. b
      PROVE  Joined(gaps[j - 1], gaps[j])
  <2> DEFINE d == j - a
  <2>1. d \in 1 .. D /\ d \in 0 .. D /\ d - 1 \in 0 .. D /\ d # 0 /\ d - 1 # D
        /\ p + 1 + d = j /\ p + 1 + (d - 1) = j - 1
    BY <1>1, <1>2, <1>5
  <2> HIDE DEF d
  <2>2. gaps[j] = G[d] /\ gaps[j - 1] = G[d - 1]
    BY <1>4, <2>1
  <2>3. G[d].so_start = 0 /\ G[d - 1].so_end = ToEnd
    BY <1>2, <2>1
  <2>4. G[d].sn = SnNext(G[d - 1].sn)
    <3>1. G[d].sn \in SN /\ G[d - 1].sn \in SN /\ rx_next \in SN
      BY <1>6, <2>1 DEF RxTypeOK
    <3>2. /\ RxOffset(G[d].sn) \in Int /\ RxOffset(G[d].sn) < SnModulus
          /\ RxOffset(G[d - 1].sn) \in Int /\ RxOffset(m.sn_start) \in Int
      BY <1>2, <3>1, OffsetType
    <3>3. RxOffset(G[d].sn) = RxOffset(m.sn_start) + d /\ RxOffset(G[d - 1].sn) = RxOffset(m.sn_start) + (d - 1)
      BY <1>2, <2>1
    <3>4. RxOffset(G[d].sn) = RxOffset(G[d - 1].sn) + 1
      BY <2>1, <3>2, <3>3
    <3>5. /\ SnNext(G[d - 1].sn) \in SN
          /\ RxOffset(SnNext(G[d - 1].sn)) = RxOffset(G[d - 1].sn) + 1
      BY <3>1, <3>2, <3>4, ModulusNext, SnAssumption DEF RxOffset
    <3> QED
      BY <3>1, <3>4, <3>5, ModulusInjective DEF RxOffset
  <2> QED
    BY <2>2, <2>3, <2>4 DEF Joined
<1>8. b < n => /\ GapBefore(G[D], gaps[b + 1]) /\ gaps[b + 1] \in R
               /\ ~Joined(gaps[b], gaps[b + 1])
  <2> SUFFICES ASSUME b < n
               PROVE  /\ GapBefore(G[D], gaps[b + 1]) /\ gaps[b + 1] \in R
                      /\ ~Joined(gaps[b], gaps[b + 1])
    OBVIOUS
  <2>1. b + 1 \in p + 1 .. n /\ b + 1 > b
    BY <1>1, <1>5
  <2>2. GapBefore(G[D], gaps[b + 1]) /\ gaps[b + 1] \in R
    BY <1>4, <2>1
  <2>3. gaps[b] = G[D]
    BY <1>4, <1>5
  <2> QED
    BY <1>3, <2>2, <2>3
<1>9. LiesAt(gaps, m, a, b)
  <2>1. a = 1 \/ ~Joined(gaps[a - 1], gaps[a])
    <3>1. CASE p = 0
      BY <3>1
    <3>2. CASE p # 0
      <4>1. 0 < p /\ p < n /\ a - 1 = p
        BY <1>1, <1>5, <3>2
      <4> QED
        BY <4>1
    <3> QED
      BY <3>1, <3>2
  <2>2. b = n \/ ~Joined(gaps[b], gaps[b + 1])
    BY <1>1, <1>5, <1>8
  <2>3. /\ a \in BlockStarts(gaps)
        /\ \A s \in BlockStarts(gaps) : s \in a .. b =>
              BlockEnd(gaps, s) = IF s + NackRange - 1 <= b THEN s + NackRange - 1 ELSE b
    <3> HIDE DEF a, b
    <3> QED
      BY <1>1, <1>5, <1>7, <2>1, <2>2, BlocksOfInterval
  <2>4. \A d \in 0 .. b - a :
          /\ gaps[a + d].sn = SnWrap(m.sn_start + d)
          /\ gaps[a + d].sn = m.sn_start <=> d = 0
          /\ gaps[a + d].so_start = IF d = 0 THEN m.so_start ELSE 0
          /\ gaps[a + d].so_end = IF d = b - a THEN m.so_end ELSE ToEnd
    BY <1>2, <1>4, <1>5, <1>6
  <2> QED
    BY <1>2, <1>5, <2>3, <2>4 DEF LiesAt
<1>10. m.next = 0 => b = n
  <2> SUFFICES ASSUME m.next = 0, b < n
               PROVE  FALSE
    BY <1>1, <1>5
  <2> QED
    BY <1>3, <1>8
<1>11. ASSUME m.next # 0
       PROVE  GapsFrom(q[m.next].sn, q[m.next].so) = {gaps[x] : x \in b + 1 .. n}
  <2>1. ASSUME NEW g \in GapsFrom(q[m.next].sn, q[m.next].so)
        PROVE  \E x \in b + 1 .. n : g = gaps[x]
    <3>1. g \in R /\ GapBefore(G[D], g)
      BY <1>3, <1>11
    <3>2. PICK x \in p + 1 .. n : g = gaps[x]
      BY <3>1
    <3>3. x > b
      BY <1>4, <3>1, <3>2
    <3> QED
      BY <1>1, <1>5, <3>2, <3>3
  <2>2. ASSUME NEW x \in b + 1 .. n
        PROVE  gaps[x] \in GapsFrom(q[m.next].sn, q[m.next].so)
    <3>1. x \in p + 1 .. n /\ x > b
      BY <1>1, <1>5
    <3>2. gaps[x] \in R /\ GapBefore(G[D], gaps[x])
      BY <1>4, <3>1
    <3> QED
      BY <1>3, <3>2
  <2> QED
    BY <2>1, <2>2
<1> HIDE DEF b
<1>12. \E e \in a .. n :
         /\ LiesAt(gaps, m, a, e)
         /\ e < n => ~Joined(gaps[e], gaps[e + 1])
         /\ m.next = 0 => e = n
         /\ m.next # 0 => GapsFrom(q[m.next].sn, q[m.next].so) = {gaps[x] : x \in e + 1 .. n}
  BY <1>5, <1>8, <1>9, <1>10, <1>11
<1> QED
  BY <1>12 DEF LiesNext

\* Where block k + 1 starts in the list of n gaps, or n + 1 behind the last one
BlockPos(n, K, order, k) == IF k < K THEN order[k + 1] ELSE n + 1

\* A block starts where the one before it has ended.
LEMMA NextBlock ==
    ASSUME NEW n, NEW gaps, GapList(gaps, n), NEW K, NEW order, IsBlockOrder(gaps, K, order)
    PROVE  /\ BlockPos(n, K, order, 0) = 1 /\ BlockPos(n, K, order, K) = n + 1
           /\ \A k \in 0 .. K : BlockPos(n, K, order, k) \in 1 .. n + 1
           /\ \A k \in 0 .. K - 1 :
                 LET s == BlockPos(n, K, order, k)
                 IN /\ s \in 1 .. n /\ s \in BlockStarts(gaps)
                    /\ BlockEnd(gaps, s) \in s .. n
                    /\ BlockPos(n, K, order, k + 1) = BlockEnd(gaps, s) + 1
                    /\ NackBlocks[k + 1] = NackBlock(gaps, s)
<1> DEFINE B == BlockStarts(gaps)
           P(k) == BlockPos(n, K, order, k)
<1>1. n \in Nat /\ gaps \in [1 .. n -> Gaps]
  BY DEF GapList
<1>2. /\ K \in Nat /\ order \in [1 .. K -> B]
      /\ NackBlocks = [k \in 1 .. K |-> NackBlock(gaps, order[k])]
      /\ \A s \in B : \E k \in 1 .. K : order[k] = s
      /\ \A j, k \in 1 .. K : j < k => order[j] < order[k]
  BY DEF IsBlockOrder
<1>3. /\ B \in SUBSET (1 .. n)
      /\ n >= 1 => 1 \in B
      /\ \A s \in B : /\ BlockEnd(gaps, s) \in s .. n
                      /\ \A i \in B : i > s => i > BlockEnd(gaps, s)
                      /\ BlockEnd(gaps, s) < n => BlockEnd(gaps, s) + 1 \in B
  BY <1>1, BlockIs
<1> HIDE DEF B
<1>4. ASSUME NEW k \in 0 .. K - 1
      PROVE  P(k) = order[k + 1] /\ k + 1 \in 1 .. K /\ P(k) \in B /\ P(k) \in 1 .. n
  <2>1. k + 1 \in 1 .. K /\ k < K
    BY <1>2
  <2>2. P(k) = order[k + 1]
    BY <2>1 DEF BlockPos
  <2>3. order[k + 1] \in B
    BY <1>2, <2>1
  <2>4. order[k + 1] \in 1 .. n
    BY <1>3, <2>3
  <2> QED
    BY <2>1, <2>2, <2>3, <2>4
<1>5. P(K) = n + 1
  BY <1>2 DEF BlockPos
<1>6. ASSUME NEW k \in 0 .. K
      PROVE  P(k) \in 1 .. n + 1
  <2>1. k = K \/ k \in 0 .. K - 1
    BY <1>2
  <2> QED
    BY <1>1, <1>4, <1>5, <2>1
<1>7. P(0) = 1
  <2>1. CASE K = 0
    <3>1. n = 0
      BY <1>1, <1>2, <1>3, <2>1
    <3> QED
      BY <1>5, <2>1, <3>1
  <2>2. CASE K # 0
    <3>1. P(0) = order[1] /\ 1 \in 1 .. K /\ order[1] \in 1 .. n
      <4>1. 0 \in 0 .. K - 1
        BY <1>2, <2>2
      <4> QED
        BY <1>4, <4>1
    <3>2. PICK j \in 1 .. K : order[j] = 1
      BY <1>1, <1>2, <1>3, <3>1
    <3>3. ~(1 < j)
      BY <1>2, <3>1, <3>2
    <3> QED
      BY <1>2, <3>1, <3>2, <3>3
  <2> QED
    BY <2>1, <2>2
<1>8. ASSUME NEW k \in 0 .. K - 1
      PROVE  P(k + 1) = BlockEnd(gaps, P(k)) + 1
  <2> DEFINE s == P(k)
             t == BlockEnd(gaps, s)
  <2>1. /\ s = order[k + 1] /\ k + 1 \in 1 .. K /\ s \in B /\ s \in 1 .. n
        /\ t \in s .. n /\ \A i \in B : i > s => i > t
    BY <1>3, <1>4
  <2>2. t < n => t + 1 \in B
    BY <1>3, <2>1
  <2>3. k + 1 < K => P(k + 1) = order[k + 2] /\ k + 2 \in 1 .. K /\ order[k + 2] \in B
    <3> SUFFICES ASSUME k + 1 < K
                 PROVE  P(k + 1) = order[k + 2] /\ k + 2 \in 1 .. K /\ order[k + 2] \in B
      OBVIOUS
    <3>1. k + 1 \in 0 .. K - 1 /\ (k + 1) + 1 = k + 2
      BY <1>2
    <3> QED
      BY <1>4, <3>1
  <2> HIDE DEF s, t
  <2>4. CASE t = n
    <3>1. ~(k + 1 < K)
      <4> SUFFICES ASSUME k + 1 < K
                   PROVE  FALSE
        OBVIOUS
      <4>1. order[k + 1] < order[k + 2]
        BY <1>2, <2>1, <2>3
      <4>2. order[k + 2] > t /\ order[k + 2] \in 1 .. n
        BY <1>3, <2>1, <2>3, <4>1
      <4> QED
        BY <1>1, <2>4, <4>2
    <3>2. k + 1 = K
      BY <1>2, <3>1
    <3> QED
      BY <1>5, <2>4, <3>2 DEF s, t
  <2>5. CASE t # n
    <3>1. t + 1 \in B /\ t + 1 > s
      BY <1>1, <2>1, <2>2, <2>5
    <3>2. PICK j \in 1 .. K : order[j] = t + 1
      BY <1>2, <3>1
    <3>3. j > k + 1
      <4>1. j # k + 1
        BY <2>1, <3>1, <3>2
      <4>2. ~(j < k + 1)
        <5> SUFFICES ASSUME j < k + 1
                     PROVE  FALSE
          OBVIOUS
        <5>1. order[j] < order[k + 1]
          BY <1>2, <2>1
        <5> QED
          BY <2>1, <3>1, <3>2, <5>1
      <4> QED
        BY <4>1, <4>2
    <3>4. k + 1 < K
      BY <1>2, <3>3
    <3>5. order[k + 2] > t
      <4>1. order[k + 1] < order[k + 2]
        BY <1>2, <2>1, <2>3, <3>4
      <4> QED
        BY <1>3, <2>1, <2>3, <3>4, <4>1
    <3>6. ~(k + 2 < j)
      <4> SUFFICES ASSUME k + 2 < j
                   PROVE  FALSE
        OBVIOUS
      <4>1. order[k + 2] < order[j] /\ order[k + 2] \in 1 .. n
        BY <1>2, <1>3, <2>3, <3>4
      <4> QED
        BY <2>1, <3>2, <3>5, <4>1
    <3>7. j = k + 2
      BY <3>3, <3>6
    <3> QED
      BY <2>3, <3>2, <3>4, <3>7 DEF s, t
  <2> QED
    BY <2>4, <2>5
<1>9. ASSUME NEW k \in 0 .. K - 1
      PROVE  /\ BlockEnd(gaps, P(k)) \in P(k) .. n
             /\ NackBlocks[k + 1] = NackBlock(gaps, P(k))
  BY <1>2, <1>3, <1>4
<1> QED
  BY <1>4, <1>5, <1>6, <1>7, <1>8, <1>9 DEF B

\* The size of a report grows with each block by the size of that block.
LEMMA StatusSizeIs ==
    ASSUME NEW blocks, NEW K \in Nat, DOMAIN blocks = 1 .. K
    PROVE  /\ StatusSize(blocks, 0) = StatusHeader
           /\ \A k \in 0 .. K : StatusSize(blocks, k) \in Nat
           /\ \A k \in 0 .. K - 1 :
                 /\ NackSize(blocks[k + 1]) \in Nat
                 /\ StatusSize(blocks, k + 1) = StatusSize(blocks, k) + NackSize(blocks[k + 1])
           /\ \A j, k \in 0 .. K : j <= k => StatusSize(blocks, j) <= StatusSize(blocks, k)
<1> DEFINE f == [i \in DOMAIN blocks |-> NackSize(blocks[i])]
<1>1. \A k : StatusSize(blocks, k) = StatusHeader + SumFunctionOnSet(f, 1 .. k)
  BY DEF StatusSize
<1>2. \A i \in 1 .. K : f[i] \in Nat /\ f[i] = NackSize(blocks[i])
  BY PduAssumption DEF NackSize
<1> HIDE DEF f
<1>3. \A k \in 0 .. K : IsFiniteSet(1 .. k)
  BY FS_Interval
<1>4. \A k \in 0 .. K : SumFunctionOnSet(f, 1 .. k) \in Nat
  <2> TAKE k \in 0 .. K
  <2>1. \A i \in 1 .. k : f[i] \in Nat
    BY <1>2
  <2> QED
    BY <1>3, <2>1, SumType
<1>5. \A k \in 0 .. K : StatusSize(blocks, k) \in Nat
  BY <1>1, <1>4 DEF StatusHeader
<1>6. StatusSize(blocks, 0) = StatusHeader
  <2>1. 1 .. 0 = {}
    OBVIOUS
  <2>2. SumFunctionOnSet(f, {}) = 0
    BY SumEmpty
  <2> QED
    BY <1>1, <2>1, <2>2 DEF StatusHeader
<1>7. ASSUME NEW k \in 0 .. K - 1
      PROVE  /\ NackSize(blocks[k + 1]) \in Nat
             /\ StatusSize(blocks, k + 1) = StatusSize(blocks, k) + NackSize(blocks[k + 1])
  <2>1. /\ k \in 0 .. K /\ k + 1 \in 0 .. K /\ k + 1 \in 1 .. K
        /\ 1 .. k + 1 = (1 .. k) \cup {k + 1} /\ k + 1 \notin 1 .. k
    OBVIOUS
  <2>2. \A i \in (1 .. k) \cup {k + 1} : f[i] \in Nat
    BY <1>2
  <2>3. SumFunctionOnSet(f, (1 .. k) \cup {k + 1}) = f[k + 1] + SumFunctionOnSet(f, 1 .. k)
    BY <1>3, <2>1, <2>2, SumAdd
  <2>4. SumFunctionOnSet(f, 1 .. k + 1) = f[k + 1] + SumFunctionOnSet(f, 1 .. k)
    BY <2>1, <2>3
  <2>5. f[k + 1] \in Nat /\ f[k + 1] = NackSize(blocks[k + 1])
    BY <1>2, <2>1
  <2>6. SumFunctionOnSet(f, 1 .. k) \in Nat
    BY <1>4, <2>1
  <2>7. StatusSize(blocks, k + 1) = StatusHeader + SumFunctionOnSet(f, 1 .. k + 1)
    BY <1>1
  <2>8. StatusSize(blocks, k) = StatusHeader + SumFunctionOnSet(f, 1 .. k)
    BY <1>1
  <2> QED
    BY <2>4, <2>5, <2>6, <2>7, <2>8 DEF StatusHeader
<1>8. ASSUME NEW j \in 0 .. K
      PROVE  \A k \in 0 .. K : j <= k => StatusSize(blocks, j) <= StatusSize(blocks, k)
  <2> DEFINE Q == {k \in 0 .. K : j <= k => StatusSize(blocks, j) <= StatusSize(blocks, k)}
  <2>1. 0 \in Q
    <3>1. j <= 0 => j = 0
      OBVIOUS
    <3> QED
      BY <1>5, <3>1
  <2>2. ASSUME NEW k \in 1 .. K, k - 1 \in Q
        PROVE  k \in Q
    <3>1. /\ k - 1 \in 0 .. K - 1 /\ k - 1 \in 0 .. K /\ k \in 0 .. K /\ (k - 1) + 1 = k
          /\ j <= k - 1 => StatusSize(blocks, j) <= StatusSize(blocks, k - 1)
      BY <2>2
    <3>2. /\ StatusSize(blocks, j) \in Nat /\ StatusSize(blocks, k - 1) \in Nat
          /\ StatusSize(blocks, k) \in Nat
          /\ StatusSize(blocks, k - 1) <= StatusSize(blocks, k)
      BY <1>5, <1>7, <3>1
    <3>3. CASE j = k
      BY <3>1, <3>2, <3>3
    <3>4. CASE j # k
      BY <3>1, <3>2, <3>4
    <3> QED
      BY <3>3, <3>4
  <2>3. \A k \in 1 .. K : k - 1 \in Q => k \in Q
    BY <2>2
  <2> HIDE DEF Q
  <2>4. \A k \in 0 .. K : k \in Q
    BY <2>1, <2>3, AllPositions
  <2> QED
    BY <2>4 DEF Q
<1> QED
  BY <1>5, <1>6, <1>7, <1>8

-----------------------------------------------------------------------------
(* generate_missing *)

\* A report with the first k blocks, cut or not
ReportOf(k, cut) ==
    [nacks |-> [x \in 1 .. k |-> NackBlocks[x]],
     byte |-> StatusSize(NackBlocks, k), cut |-> cut]

\* generate_missing has put k blocks; the next gap is gap p, of the gaps a .. b.
MissingState(m, a, b, p, k, cut) ==
    [sn_count |-> b + 1 - p, sn_start |-> SnWrap(m.sn_start + (p - a)), out |-> ReportOf(k, cut)]

\* The context of generate_missing: it is called for the gaps a .. b, when k0
\* blocks have been put.
Generates(n, gaps, K, order, size, m, k0, a, b) ==
    /\ GapList(gaps, n) /\ IsBlockOrder(gaps, K, order) /\ size \in Nat
    /\ k0 \in 0 .. K /\ a = BlockPos(n, K, order, k0) /\ b \in a .. n
    /\ LiesAt(gaps, m, a, b)
    /\ StatusSize(NackBlocks, k0) <= size

\* One turn of its loop, when it has put k blocks, puts one more if it fits.
PutsNack(n, K, order, size, m, a, b, k) ==
    LET p == BlockPos(n, K, order, k)
        next == BlockPos(n, K, order, k + 1)
        C(x, j, cut) == MissingState(m, a, b, x, j, cut)
    IN /\ PutNack(m, size, C(p, k, TRUE)) = C(p, k, TRUE)
       /\ p = b + 1 => PutNack(m, size, C(p, k, FALSE)) = C(p, k, FALSE)
       /\ p <= b =>
             /\ k < K /\ next \in p + 1 .. b + 1
             /\ PutNack(m, size, C(p, k, FALSE)) =
                   IF StatusSize(NackBlocks, k + 1) > size THEN C(p, k, TRUE)
                   ELSE C(next, k + 1, FALSE)

\* That is what every turn does, wherever the loop is.
LEMMA PutNackIs ==
    ASSUME NEW n, NEW gaps, NEW K, NEW order, NEW size, NEW m, NEW k0, NEW a, NEW b,
           Generates(n, gaps, K, order, size, m, k0, a, b),
           NEW k \in 0 .. K, BlockPos(n, K, order, k) \in a .. b + 1
    PROVE  PutsNack(n, K, order, size, m, a, b, k)
<1> DEFINE p == BlockPos(n, K, order, k)
           next == BlockPos(n, K, order, k + 1)
           C(x, j, cut) == MissingState(m, a, b, x, j, cut)
<1>1. /\ n \in Nat /\ K \in Nat /\ size \in Nat /\ a \in Int /\ b \in Int /\ a >= 1 /\ b <= n
      /\ DOMAIN NackBlocks = 1 .. K /\ GapList(gaps, n) /\ IsBlockOrder(gaps, K, order)
  <2>1. GapList(gaps, n) /\ IsBlockOrder(gaps, K, order)
    BY DEF Generates
  <2>2. n \in Nat /\ K \in Nat /\ size \in Nat /\ DOMAIN NackBlocks = 1 .. K
    BY DEF Generates, GapList, IsBlockOrder
  <2>3. a \in 1 .. n + 1
    BY <2>1, NextBlock DEF Generates
  <2>4. b \in a .. n
    BY DEF Generates
  <2> QED
    BY <2>1, <2>2, <2>3, <2>4
<1>2. /\ BlockPos(n, K, order, K) = n + 1
      /\ \A j \in 0 .. K - 1 :
             /\ BlockPos(n, K, order, j) \in BlockStarts(gaps)
             /\ BlockPos(n, K, order, j + 1) = BlockEnd(gaps, BlockPos(n, K, order, j)) + 1
             /\ NackBlocks[j + 1] = NackBlock(gaps, BlockPos(n, K, order, j))
  BY <1>1, NextBlock
<1>3. PutNack(m, size, C(p, k, TRUE)) = C(p, k, TRUE)
  BY DEF PutNack, MissingState, ReportOf
<1>4. ASSUME p = b + 1
      PROVE  PutNack(m, size, C(p, k, FALSE)) = C(p, k, FALSE)
  <2>1. b + 1 - p = 0
    BY <1>1, <1>4
  <2> QED
    BY <2>1 DEF PutNack, MissingState
<1>5. ASSUME p <= b
      PROVE  /\ k < K /\ next \in p + 1 .. b + 1
             /\ PutNack(m, size, C(p, k, FALSE)) =
                   IF StatusSize(NackBlocks, k + 1) > size THEN C(p, k, TRUE)
                   ELSE C(next, k + 1, FALSE)
  <2> DEFINE d == p - a
             sn_count == b + 1 - p
             count == IF sn_count <= NackRange THEN sn_count ELSE NackRange
             block == NackBlocks[k + 1]
  <2>1. k \in 0 .. K - 1 /\ p \in a .. b
    <3>1. k # K
      BY <1>1, <1>2, <1>5
    <3> QED
      BY <1>1, <1>5, <3>1
  <2>2. /\ p \in BlockStarts(gaps) /\ next = BlockEnd(gaps, p) + 1
        /\ block = NackBlock(gaps, p)
    BY <1>2, <2>1
  <2> HIDE DEF p, next
  <2>3. BlockEnd(gaps, p) = IF p + NackRange - 1 <= b THEN p + NackRange - 1 ELSE b
    BY <2>1, <2>2 DEF Generates, LiesAt
  <2>4. NackRange \in Nat /\ NackRange > 0
    BY StatusAssumption
  <2>5. /\ sn_count \in Nat \ {0} /\ count \in 1 .. sn_count
        /\ BlockEnd(gaps, p) = p + count - 1 /\ next = p + count
        /\ d \in Nat /\ d \in 0 .. b - a /\ a + d = p
        /\ d = p - a /\ sn_count = b + 1 - p /\ p \in Int
    BY <1>1, <2>1, <2>2, <2>3, <2>4
  <2>6. Min({sn_count, NackRange}) = count
    <3>1. {sn_count, NackRange} \in SUBSET Nat /\ {sn_count, NackRange} # {}
      BY <2>4, <2>5
    <3>2. \E A : A = {sn_count, NackRange}
      OBVIOUS
    <3>3. PICK A : A = {sn_count, NackRange}
      BY <3>2
    <3>4. Min(A) \in A /\ \A x \in A : Min(A) <= x
      BY <3>1, <3>3, MinOfNumbers
    <3> HIDE DEF sn_count
    <3> QED
      BY <2>4, <2>5, <3>3, <3>4
  <2> HIDE DEF d, sn_count, count, block
  <2>7. /\ b - a = Modulus(m.sn_start, m.sn_end)
        /\ m.sn_start \in SN /\ m.sn_end \in SN
        /\ \A e \in 0 .. b - a :
              /\ gaps[a + e].sn = SnWrap(m.sn_start + e)
              /\ gaps[a + e].sn = m.sn_start <=> e = 0
              /\ gaps[a + e].so_start = IF e = 0 THEN m.so_start ELSE 0
              /\ gaps[a + e].so_end = IF e = b - a THEN m.so_end ELSE ToEnd
    BY DEF Generates, LiesAt
  <2>8. b - a \in 0 .. SnModulus - 1
    BY <2>7, ModulusType
  <2>9. block = [sn |-> SnWrap(m.sn_start + d),
                 so_start |-> IF SnWrap(m.sn_start + d) = m.sn_start THEN m.so_start ELSE 0,
                 so_end |-> IF count = sn_count THEN m.so_end ELSE ToEnd,
                 range |-> count]
    <3>1. block = [sn |-> gaps[p].sn, so_start |-> gaps[p].so_start,
                   so_end |-> gaps[p + count - 1].so_end,
                   range |-> (p + count - 1) - p + 1]
      BY <2>2, <2>5 DEF NackBlock
    <3>2. gaps[p].sn = SnWrap(m.sn_start + d) /\ (gaps[p].sn = m.sn_start <=> d = 0)
          /\ gaps[p].so_start = IF d = 0 THEN m.so_start ELSE 0
      BY <2>5, <2>7
    <3>3. gaps[p + count - 1].so_end = IF count = sn_count THEN m.so_end ELSE ToEnd
      <4> DEFINE e == d + count - 1
      <4>1. e \in 0 .. b - a /\ a + e = p + count - 1 /\ (e = b - a <=> count = sn_count)
        BY <1>1, <2>1, <2>5
      <4> HIDE DEF e
      <4> QED
        BY <2>7, <4>1
    <3>4. (p + count - 1) - p + 1 = count
      BY <1>1, <2>1, <2>5
    <3> QED
      BY <3>1, <3>2, <3>3, <3>4
  <2>10. /\ NackSize(block) \in Nat
         /\ StatusSize(NackBlocks, k + 1) = StatusSize(NackBlocks, k) + NackSize(block)
    BY <1>1, <2>1, StatusSizeIs DEF block
  <2> DEFINE nacks == [x \in 1 .. k |-> NackBlocks[x]]
  <2>11. C(p, k, FALSE) = [sn_count |-> sn_count, sn_start |-> SnWrap(m.sn_start + d),
                           out |-> [nacks |-> nacks,
                                    byte |-> StatusSize(NackBlocks, k), cut |-> FALSE]]
    BY DEF MissingState, ReportOf, d, sn_count, nacks
  <2>12. C(p, k, TRUE) = [sn_count |-> sn_count, sn_start |-> SnWrap(m.sn_start + d),
                          out |-> [nacks |-> nacks,
                                   byte |-> StatusSize(NackBlocks, k), cut |-> TRUE]]
    BY DEF MissingState, ReportOf, d, sn_count, nacks
  <2>13. C(next, k + 1, FALSE) =
            [sn_count |-> sn_count - count, sn_start |-> SnWrap(SnWrap(m.sn_start + d) + count),
             out |-> [nacks |-> Append(nacks, block),
                      byte |-> StatusSize(NackBlocks, k) + NackSize(block), cut |-> FALSE]]
    <3>1. b + 1 - next = sn_count - count /\ next - a = d + count
      BY <1>1, <2>5
    <3>2. SnWrap(m.sn_start + (d + count)) = SnWrap(SnWrap(m.sn_start + d) + count)
      <4>1. d + count <= SnModulus /\ count \in Nat
        BY <1>1, <2>1, <2>5, <2>8, SnAssumption
      <4> QED
        BY <2>5, <2>7, <4>1, SnWrapTwice
    <3>3. [x \in 1 .. k + 1 |-> NackBlocks[x]] = Append(nacks, block)
      BY <2>1, AppendNext DEF block, nacks
    <3> QED
      BY <2>10, <3>1, <3>2, <3>3 DEF MissingState, ReportOf
  <2> HIDE DEF C, nacks
  <2>14. PutNack(m, size, C(p, k, FALSE)) =
            IF StatusSize(NackBlocks, k) + NackSize(block) > size THEN C(p, k, TRUE)
            ELSE C(next, k + 1, FALSE)
    <3>1. \E s : s = C(p, k, FALSE)
      OBVIOUS
    <3>2. PICK s : s = C(p, k, FALSE)
      BY <3>1
    <3> DEFINE out == [nacks |-> nacks, byte |-> StatusSize(NackBlocks, k), cut |-> FALSE]
               done == [nacks |-> nacks, byte |-> StatusSize(NackBlocks, k), cut |-> TRUE]
    <3>3. s.sn_count = sn_count /\ s.sn_start = SnWrap(m.sn_start + d) /\ s.out = out
      <4>1. s = [sn_count |-> sn_count, sn_start |-> SnWrap(m.sn_start + d), out |-> out]
        BY <2>11, <3>2
      <4> HIDE DEF out
      <4> QED
        BY <4>1
    <3>4. /\ s.out.nacks = nacks
          /\ s.out.byte = StatusSize(NackBlocks, k) /\ s.out.cut = FALSE
      BY <3>3
    <3>5. Min({s.sn_count, NackRange}) = count
      BY <2>6, <3>3, Zenon
    <3>6. block = [sn |-> s.sn_start,
                   so_start |-> IF s.sn_start = m.sn_start THEN m.so_start ELSE 0,
                   so_end |-> IF count = s.sn_count THEN m.so_end ELSE ToEnd,
                   range |-> count]
      BY <2>9, <3>3
    <3>7. [s EXCEPT !.out.cut = TRUE] = C(p, k, TRUE)
      <4>1. s = [sn_count |-> sn_count, sn_start |-> SnWrap(m.sn_start + d), out |-> out]
        BY <2>11, <3>2
      <4>2. [s.out EXCEPT !.cut = TRUE] = done
        <5>1. \E yes, no : yes = TRUE /\ no = FALSE
          OBVIOUS
        <5>2. PICK yes, no : yes = TRUE /\ no = FALSE
          BY <5>1
        <5>3. [[nacks |-> nacks, byte |-> StatusSize(NackBlocks, k), cut |-> no] EXCEPT !.cut = yes] =
                 [nacks |-> nacks, byte |-> StatusSize(NackBlocks, k), cut |-> yes]
          OBVIOUS
        <5>4. [out EXCEPT !.cut = TRUE] = done
          BY <5>2, <5>3, Zenon
        <5> HIDE DEF out, done
        <5> QED
          BY <3>3, <5>4
      <4>3. [s EXCEPT !.out.cut = TRUE] = [s EXCEPT !.out = [s.out EXCEPT !.cut = TRUE]]
        BY <4>1
      <4>4. C(p, k, TRUE) = [sn_count |-> sn_count, sn_start |-> SnWrap(m.sn_start + d), out |-> done]
        BY <2>12
      <4> HIDE DEF out, done
      <4>5. [s EXCEPT !.out = done] =
               [sn_count |-> sn_count, sn_start |-> SnWrap(m.sn_start + d), out |-> done]
        BY <4>1
      <4> QED
        BY <4>2, <4>3, <4>4, <4>5
    <3>8. [sn_count |-> s.sn_count - count, sn_start |-> SnWrap(s.sn_start + count),
           out |-> [nacks |-> Append(s.out.nacks, block),
                    byte |-> s.out.byte + NackSize(block), cut |-> FALSE]] = C(next, k + 1, FALSE)
      BY <2>13, <3>3, <3>4
    <3>9. s.sn_count # 0 /\ ~s.out.cut
      BY <2>5, <3>3, <3>4
    <3>10. PutNack(m, size, s) =
              IF s.sn_count = 0 \/ s.out.cut THEN s
              ELSE IF s.out.byte + NackSize(block) > size THEN [s EXCEPT !.out.cut = TRUE]
              ELSE [sn_count |-> s.sn_count - count, sn_start |-> SnWrap(s.sn_start + count),
                    out |-> [nacks |-> Append(s.out.nacks, block),
                             byte |-> s.out.byte + NackSize(block), cut |-> FALSE]]
      BY <3>5, <3>6, Zenon DEF PutNack
    <3> QED
      BY <3>2, <3>4, <3>7, <3>8, <3>9, <3>10
  <2>15. k < K /\ next \in p + 1 .. b + 1
    <3>1. next = p + count /\ count \in 1 .. sn_count /\ p \in a .. b
      BY <2>1, <2>5
    <3>2. sn_count = b + 1 - p
      BY <2>5
    <3> QED
      BY <1>1, <2>1, <3>1, <3>2
  <2> QED
    BY <2>10, <2>14, <2>15
<1> QED
  BY <1>3, <1>4, <1>5 DEF PutsNack

\* generate_missing, called when k0 blocks have been put, puts the next ones: up to
\* the end of the gap b, or as many as fit.
PutsMissing(n, K, order, size, m, k0, b) ==
    \E k \in 0 .. K : \E cut \in BOOLEAN :
       /\ GenerateMissing(m, size, ReportOf(k0, FALSE)) = ReportOf(k, cut)
       /\ StatusSize(NackBlocks, k) <= size
       /\ cut => k < K /\ StatusSize(NackBlocks, k + 1) > size
       /\ ~cut => BlockPos(n, K, order, k) = b + 1

\* That is what it does for the gaps of an interval.
LEMMA MissingBlocks ==
    ASSUME NEW n, NEW gaps, NEW K, NEW order, NEW size, NEW m, NEW k0, NEW a, NEW b,
           Generates(n, gaps, K, order, size, m, k0, a, b)
    PROVE  PutsMissing(n, K, order, size, m, k0, b)
<1> DEFINE N == Modulus(m.sn_start, m.sn_end) + 1
           P(k) == BlockPos(n, K, order, k)
           C(k, cut) == MissingState(m, a, b, P(k), k, cut)
           Ok(k, cut) == /\ P(k) \in a .. b + 1 /\ StatusSize(NackBlocks, k) <= size
                         /\ cut => k < K /\ StatusSize(NackBlocks, k + 1) > size
           S == {s \in {C(k, cut) : k \in 0 .. K, cut \in BOOLEAN} :
                    \E k \in 0 .. K : \E cut \in BOOLEAN : s = C(k, cut) /\ Ok(k, cut)}
           init == [sn_count |-> N, sn_start |-> m.sn_start, out |-> ReportOf(k0, FALSE)]
           Walk(g) == g = [k \in 0 .. N |-> IF k = 0 THEN init ELSE PutNack(m, size, g[k - 1])]
           w == CHOOSE g : Walk(g)
<1>1. /\ n \in Nat /\ K \in Nat /\ size \in Nat /\ k0 \in 0 .. K /\ a \in 1 .. n + 1
      /\ b \in a .. n /\ P(k0) = a /\ StatusSize(NackBlocks, k0) <= size
      /\ m.sn_start \in SN /\ m.sn_end \in SN /\ N = b - a + 1 /\ DOMAIN NackBlocks = 1 .. K
  <2>1. GapList(gaps, n) /\ IsBlockOrder(gaps, K, order)
    BY DEF Generates
  <2>2. n \in Nat /\ K \in Nat /\ size \in Nat /\ k0 \in 0 .. K /\ DOMAIN NackBlocks = 1 .. K
    BY <2>1 DEF Generates, GapList, IsBlockOrder
  <2>3. a = P(k0) /\ a \in 1 .. n + 1
    BY <2>1, <2>2, NextBlock DEF Generates
  <2> QED
    BY <2>2, <2>3 DEF Generates, LiesAt
<1>2. GenerateMissing(m, size, ReportOf(k0, FALSE)) = w[N].out
  BY DEF GenerateMissing
<1>3. \A k \in 0 .. K : StatusSize(NackBlocks, k) \in Nat
  BY <1>1, StatusSizeIs
<1>4. init = C(k0, FALSE) /\ Ok(k0, FALSE)
  <2>1. b + 1 - a = N /\ a - a = 0 /\ m.sn_start + 0 = m.sn_start /\ SnWrap(m.sn_start) = m.sn_start
    <3>1. b + 1 - a = N /\ a - a = 0
      <4> HIDE DEF N
      <4> QED
        BY <1>1
    <3>2. m.sn_start + 0 = m.sn_start /\ SnWrap(m.sn_start) = m.sn_start
      <4>1. m.sn_start \in SN
        BY <1>1
      <4> QED
        BY <4>1, SnAssumption DEF SN, SnWrap
    <3> QED
      BY <3>1, <3>2
  <2>2. C(k0, FALSE) = [sn_count |-> N, sn_start |-> m.sn_start, out |-> ReportOf(k0, FALSE)]
    <3> HIDE DEF N
    <3> QED
      BY <1>1, <2>1 DEF MissingState
  <2>3. a \in a .. b + 1
    BY <1>1
  <2> QED
    BY <1>1, <2>2, <2>3
<1>5. ASSUME NEW k \in 0 .. K, NEW cut \in BOOLEAN, Ok(k, cut)
      PROVE  \/ PutNack(m, size, C(k, cut)) = C(k, cut) /\ (cut \/ P(k) = b + 1)
             \/ PutNack(m, size, C(k, cut)) = C(k, TRUE) /\ Ok(k, TRUE)
             \/ /\ ~cut /\ k + 1 \in 0 .. K /\ PutNack(m, size, C(k, cut)) = C(k + 1, FALSE)
                /\ Ok(k + 1, FALSE) /\ P(k + 1) >= P(k) + 1
  <2>1. /\ PutNack(m, size, C(k, TRUE)) = C(k, TRUE)
        /\ P(k) = b + 1 => PutNack(m, size, C(k, FALSE)) = C(k, FALSE)
        /\ P(k) <= b =>
              /\ k < K /\ P(k + 1) \in P(k) + 1 .. b + 1
              /\ PutNack(m, size, C(k, FALSE)) =
                    IF StatusSize(NackBlocks, k + 1) > size THEN C(k, TRUE) ELSE C(k + 1, FALSE)
    <3>1. BlockPos(n, K, order, k) \in a .. b + 1
      BY <1>5
    <3>2. PutsNack(n, K, order, size, m, a, b, k)
      BY <3>1, PutNackIs
    <3> QED
      BY <3>2 DEF PutsNack
  <2>2. P(k) \in a .. b + 1 /\ StatusSize(NackBlocks, k) <= size
    BY <1>5
  <2> HIDE DEF P, C
  <2>3. CASE cut
    BY <2>1, <2>3
  <2>4. CASE ~cut /\ P(k) = b + 1
    <3>1. cut = FALSE
      BY <2>4
    <3> QED
      BY <2>1, <2>4, <3>1
  <2>5. CASE ~cut /\ P(k) # b + 1
    <3>1. P(k) <= b /\ P(k) \in Int /\ cut = FALSE
      BY <1>1, <2>2, <2>5
    <3>2. /\ k < K /\ k + 1 \in 0 .. K /\ P(k + 1) \in a .. b + 1 /\ P(k + 1) >= P(k) + 1
      BY <1>1, <2>1, <2>2, <3>1
    <3>3. CASE StatusSize(NackBlocks, k + 1) > size
      BY <2>1, <2>2, <3>1, <3>2, <3>3
    <3>4. CASE ~(StatusSize(NackBlocks, k + 1) > size)
      <4>1. StatusSize(NackBlocks, k + 1) <= size
        BY <1>1, <1>3, <3>2, <3>4
      <4>2. PutNack(m, size, C(k, FALSE)) = C(k + 1, FALSE)
        BY <2>1, <3>1, <3>4
      <4> QED
        BY <2>5, <3>1, <3>2, <4>1, <4>2
    <3> QED
      BY <3>3, <3>4
  <2> QED
    BY <2>3, <2>4, <2>5
<1>6. \A k \in 0 .. K : \A cut \in BOOLEAN : Ok(k, cut) => C(k, cut) \in S
  OBVIOUS
<1>7. \A s \in S : \E k \in 0 .. K : \E cut \in BOOLEAN : s = C(k, cut) /\ Ok(k, cut)
  OBVIOUS
<1> HIDE DEF S, C, Ok, P
<1>8. \A s \in S : PutNack(m, size, s) \in S
  <2> SUFFICES ASSUME NEW s \in S
               PROVE  PutNack(m, size, s) \in S
    OBVIOUS
  <2>1. PICK k \in 0 .. K, cut \in BOOLEAN : s = C(k, cut) /\ Ok(k, cut)
    BY <1>7
  <2> QED
    BY <1>5, <1>6, <2>1
<1>9. N \in Nat
  BY <1>1
<1>10. init \in S
  BY <1>1, <1>4, <1>6
<1> HIDE DEF N, init
<1>11. \E g : Walk(g) /\ g \in [0 .. N -> S]
  <2> DEFINE step == [i \in 1 .. N |-> [s \in S |-> PutNack(m, size, s)]]
  <2>1. step \in [1 .. N -> [S -> S]]
    BY <1>8
  <2>2. \A i \in 1 .. N : \A s \in S : step[i][s] = PutNack(m, size, s)
    OBVIOUS
  <2>3. IsLoop(N, S, init, step)
    BY <1>9, <1>10, <2>1 DEF IsLoop
  <2> HIDE DEF step
  <2>4. PICK g : Runs(g, N, S, init, step)
    BY <2>3, LoopValues
  <2>5. /\ g \in [0 .. N -> S]
        /\ g[0] = init /\ \A i \in 1 .. N : g[i] = step[i][g[i - 1]]
    BY <2>4 DEF Runs
  <2>6. \A i \in 0 .. N : i # 0 => i \in 1 .. N /\ g[i - 1] \in S
    BY <1>9, <2>5
  <2>7. \A i \in 0 .. N : g[i] = IF i = 0 THEN init ELSE PutNack(m, size, g[i - 1])
    BY <2>2, <2>5, <2>6
  <2>8. g = [i \in 0 .. N |-> g[i]]
    BY <2>5
  <2>9. Walk(g)
    BY <2>7, <2>8
  <2> QED
    BY <2>5, <2>9
<1>12. /\ w[0] = init
       /\ \A i \in 1 .. N : w[i] = PutNack(m, size, w[i - 1])
  <2>1. Walk(w)
    BY <1>11
  <2> HIDE DEF w
  <2>2. \A i \in 0 .. N : w[i] = IF i = 0 THEN init ELSE PutNack(m, size, w[i - 1])
    BY <2>1
  <2>3. 0 \in 0 .. N /\ \A i \in 1 .. N : i \in 0 .. N /\ i # 0
    BY <1>9
  <2> QED
    BY <2>2, <2>3
<1> HIDE DEF w
<1> DEFINE At(i, k, cut) == /\ w[i] = C(k, cut) /\ Ok(k, cut)
                            /\ cut \/ P(k) = b + 1 \/ b + 1 - P(k) <= N - i
           Q == {i \in 0 .. N : \E k \in 0 .. K : \E cut \in BOOLEAN : At(i, k, cut)}
<1>13. 0 \in Q
  <2>1. At(0, k0, FALSE)
    <3>1. b + 1 - P(k0) <= N - 0
      BY <1>1 DEF N
    <3> QED
      BY <1>4, <1>12, <3>1
  <2> HIDE DEF At
  <2>2. 0 \in 0 .. N /\ k0 \in 0 .. K /\ FALSE \in BOOLEAN
    BY <1>1, <1>9
  <2> QED
    BY <2>1, <2>2
<1>14. ASSUME NEW i \in 1 .. N, i - 1 \in Q
       PROVE  i \in Q
  <2>1. PICK k \in 0 .. K, cut \in BOOLEAN : At(i - 1, k, cut)
    BY <1>14
  <2>2. /\ w[i] = PutNack(m, size, C(k, cut)) /\ Ok(k, cut)
        /\ cut \/ P(k) = b + 1 \/ b + 1 - P(k) <= N - (i - 1)
    BY <1>12, <2>1
  <2>3. i \in 0 .. N
    BY <1>9
  <2>4. CASE PutNack(m, size, C(k, cut)) = C(k, cut) /\ (cut \/ P(k) = b + 1)
    <3>1. At(i, k, cut)
      BY <2>2, <2>4
    <3> QED
      BY <2>3, <3>1
  <2>5. CASE PutNack(m, size, C(k, cut)) = C(k, TRUE) /\ Ok(k, TRUE)
    <3>1. At(i, k, TRUE)
      BY <2>2, <2>5
    <3> QED
      BY <2>3, <3>1
  <2>6. CASE /\ ~cut /\ k + 1 \in 0 .. K /\ PutNack(m, size, C(k, cut)) = C(k + 1, FALSE)
             /\ Ok(k + 1, FALSE) /\ P(k + 1) >= P(k) + 1
    <3>1. P(k) \in a .. b + 1 /\ P(k + 1) \in a .. b + 1
      BY <2>2, <2>6 DEF Ok
    <3>2. b + 1 - P(k + 1) <= N - i
      BY <1>1, <1>9, <2>2, <2>3, <2>6, <3>1
    <3>3. At(i, k + 1, FALSE)
      BY <2>2, <2>6, <3>2
    <3> HIDE DEF At
    <3> QED
      BY <2>3, <2>6, <3>3
  <2> QED
    BY <1>5, <2>2, <2>4, <2>5, <2>6
<1>15. N \in Q
  <2>1. \A i \in 1 .. N : i - 1 \in Q => i \in Q
    BY <1>14
  <2> HIDE DEF Q
  <2>2. \A i \in 0 .. N : i \in Q
    BY <1>9, <1>13, <2>1, AllPositions
  <2> QED
    BY <1>9, <2>2
<1>16. PICK k \in 0 .. K, cut \in BOOLEAN : At(N, k, cut)
  BY <1>15
<1>17. w[N].out = ReportOf(k, cut)
  BY <1>16 DEF C, MissingState
<1>18. StatusSize(NackBlocks, k) <= size
  BY <1>16 DEF Ok
<1>19. /\ cut => k < K /\ StatusSize(NackBlocks, k + 1) > size
       /\ ~cut => P(k) = b + 1
  <2>1. CASE cut
    BY <1>16, <2>1 DEF Ok
  <2>2. CASE ~cut
    <3>1. P(k) \in a .. b + 1 /\ (P(k) = b + 1 \/ b + 1 - P(k) <= N - N)
      BY <1>16, <2>2 DEF Ok
    <3> QED
      BY <1>1, <1>9, <2>2, <3>1
  <2> QED
    BY <2>1, <2>2
<1> QED
  BY <1>2, <1>17, <1>18, <1>19 DEF P, PutsMissing

-----------------------------------------------------------------------------
(* generate_status *)

\* The loop of generate_status has put k blocks and is at the entry cur of the list.
BlocksState(cur, check_head, k, cut) ==
    [cur |-> cur, check_head |-> check_head, out |-> ReportOf(k, cut)]

\* It is at its end: all the blocks have been put, or the next one does not fit.
BlocksDone(K, size, k, cut) ==
    IF cut THEN k < K /\ StatusSize(NackBlocks, k + 1) > size ELSE k = K

\* Otherwise next_missing goes on at the entry cur, with the first gap that has
\* not been reported.
GoesOn(q, n, gaps, p, cur, check_head) ==
    /\ Unreached(q, cur) /\ (check_head => cur = 1)
    /\ Ahead(q, cur, check_head) = {gaps[x] : x \in p .. n}
    /\ 1 < p /\ p <= n => ~Joined(gaps[p - 1], gaps[p])

BlocksOk(q, n, gaps, K, order, size, cur, check_head, k, cut) ==
    /\ StatusSize(NackBlocks, k) <= size
    /\ cur = 0 => BlocksDone(K, size, k, cut)
    /\ cur # 0 => ~cut /\ GoesOn(q, n, gaps, BlockPos(n, K, order, k), cur, check_head)

\* One turn of the loop leads to its end, or to an entry further on.
TurnsTo(q, n, gaps, K, order, size, c, h, k, cut) ==
    \E c2 \in 0 .. Len(q), h2 \in BOOLEAN, k2 \in 0 .. K, cut2 \in BOOLEAN :
       /\ PutMissing(q, size, BlocksState(c, h, k, cut)) = BlocksState(c2, h2, k2, cut2)
       /\ BlocksOk(q, n, gaps, K, order, size, c2, h2, k2, cut2)
       /\ c2 # 0 => c # 0 /\ ~h2 /\ (c2 > c \/ (h /\ c2 >= c))

\* Every turn does, for next_missing returns the gaps in their order.
LEMMA PutMissingIs ==
    ASSUME NEW q, Listed(q), NEW n, NEW gaps, GapList(gaps, n), q # <<>> => SortedGaps(gaps, n),
           NEW K, NEW order, IsBlockOrder(gaps, K, order), NEW size \in Nat,
           NEW c \in 0 .. Len(q), NEW h \in BOOLEAN, NEW k \in 0 .. K, NEW cut \in BOOLEAN,
           BlocksOk(q, n, gaps, K, order, size, c, h, k, cut)
    PROVE  TurnsTo(q, n, gaps, K, order, size, c, h, k, cut)
<1> DEFINE P(j) == BlockPos(n, K, order, j)
           s == BlocksState(c, h, k, cut)
<1>1. /\ n \in Nat /\ K \in Nat /\ Len(q) \in Nat /\ RxTypeOK /\ gaps \in [1 .. n -> Gaps]
      /\ P(K) = n + 1 /\ P(k) \in 1 .. n + 1
      /\ \A j \in 0 .. K - 1 : P(j) \in 1 .. n
  <2>1. n \in Nat /\ K \in Nat /\ Len(q) \in Nat /\ RxTypeOK /\ gaps \in [1 .. n -> Gaps]
    BY ListedEntries DEF GapList, IsBlockOrder
  <2>2. P(K) = n + 1 /\ P(k) \in 1 .. n + 1 /\ \A j \in 0 .. K - 1 : P(j) \in 1 .. n
    BY NextBlock
  <2> QED
    BY <2>1, <2>2
<1>2. s.cur = c /\ s.check_head = h /\ s.out = ReportOf(k, cut)
  BY DEF BlocksState
<1>3. CASE c = 0
  <2>1. PutMissing(q, size, s) = s
    BY <1>2, <1>3 DEF PutMissing
  <2> QED
    BY <1>3, <2>1 DEF TurnsTo
<1>4. CASE c # 0
  <2>0. SortedGaps(gaps, n)
    <3>1. q = <<>> => Len(q) = 0
      OBVIOUS
    <3> QED
      BY <1>1, <1>4, <3>1
  <2> DEFINE m == NextMissing(q, c, h)
             put == GenerateMissing(m, size, ReportOf(k, FALSE))
  <2>1. /\ cut = FALSE /\ Unreached(q, c) /\ (h => c = 1)
        /\ Ahead(q, c, h) = {gaps[x] : x \in P(k) .. n}
        /\ 1 < P(k) /\ P(k) <= n => ~Joined(gaps[P(k) - 1], gaps[P(k)])
        /\ StatusSize(NackBlocks, k) <= size
    BY <1>4 DEF BlocksOk, GoesOn
  <2>2. s = [cur |-> c, check_head |-> h, out |-> ReportOf(k, FALSE)]
    BY <2>1 DEF BlocksState
  <2>3. PutMissing(q, size, s) =
           IF m.sn_start = -1 THEN [s EXCEPT !.cur = 0]
           ELSE [cur |-> IF put.cut THEN 0 ELSE m.next, check_head |-> FALSE, out |-> put]
    <3>1. s.out = ReportOf(k, FALSE)
      BY <1>2, <2>1
    <3> HIDE DEF s
    <3> QED
      BY <1>2, <1>4, <3>1 DEF PutMissing
  <2>4. \/ m.sn_start = -1 /\ Ahead(q, c, h) = {}
        \/ /\ m.sn_start # -1 /\ m.next \in 0 .. Len(q)
           /\ m.next # 0 => Unreached(q, m.next) /\ (m.next > c \/ (h /\ m.next >= c))
           /\ \E D, G : IsFound(q, m, Ahead(q, c, h), D, G)
    BY <2>1, NextMissingIs
  <2> HIDE DEF m, put, s, P
  <2>5. CASE m.sn_start = -1 /\ Ahead(q, c, h) = {}
    <3>1. PutMissing(q, size, s) = BlocksState(0, h, k, FALSE)
      <4>1. [s EXCEPT !.cur = 0] = [cur |-> 0, check_head |-> h, out |-> ReportOf(k, FALSE)]
        <5>1. \E head : head = h
          OBVIOUS
        <5>2. PICK head : head = h
          BY <5>1
        <5>3. \E out : out = ReportOf(k, FALSE)
          OBVIOUS
        <5>4. PICK out : out = ReportOf(k, FALSE)
          BY <5>3
        <5>5. [[cur |-> c, check_head |-> head, out |-> out] EXCEPT !.cur = 0] =
                 [cur |-> 0, check_head |-> head, out |-> out]
          OBVIOUS
        <5> QED
          BY <2>2, <5>2, <5>4, <5>5, Zenon
      <4> QED
        BY <2>3, <2>5, <4>1 DEF BlocksState
    <3>2. k = K
      <4> SUFFICES ASSUME k # K
                   PROVE  FALSE
        OBVIOUS
      <4>1. k \in 0 .. K - 1
        BY <1>1
      <4>2. P(k) \in P(k) .. n
        BY <1>1, <4>1
      <4> QED
        BY <2>1, <2>5, <4>2
    <3>3. BlocksOk(q, n, gaps, K, order, size, 0, h, k, FALSE)
      BY <2>1, <3>2 DEF BlocksOk, BlocksDone
    <3>4. 0 \in 0 .. Len(q)
      BY <1>1
    <3> QED
      BY <1>4, <3>1, <3>3, <3>4 DEF s, TurnsTo
  <2>6. CASE /\ m.sn_start # -1 /\ m.next \in 0 .. Len(q)
             /\ m.next # 0 => Unreached(q, m.next) /\ (m.next > c \/ (h /\ m.next >= c))
             /\ \E D, G : IsFound(q, m, Ahead(q, c, h), D, G)
    <3> DEFINE p == P(k) - 1
    <3>1. p \in 0 .. n /\ p + 1 = P(k) /\ (0 < p /\ p < n => ~Joined(gaps[p], gaps[p + 1]))
      BY <1>1, <2>1
    <3>2. PICK D, G : IsFound(q, m, Ahead(q, c, h), D, G)
      BY <2>6
    <3>3. Ahead(q, c, h) = {gaps[x] : x \in p + 1 .. n}
      BY <2>1, <3>1
    <3> HIDE DEF p
    <3>4. PICK b \in p + 1 .. n :
             /\ LiesAt(gaps, m, p + 1, b)
             /\ b < n => ~Joined(gaps[b], gaps[b + 1])
             /\ m.next = 0 => b = n
             /\ m.next # 0 => GapsFrom(q[m.next].sn, q[m.next].so) = {gaps[x] : x \in b + 1 .. n}
      <4>1. \E R : R = Ahead(q, c, h)
        OBVIOUS
      <4>2. PICK R : R = Ahead(q, c, h)
        BY <4>1
      <4>3. IsFound(q, m, R, D, G) /\ R = {gaps[x] : x \in p + 1 .. n}
        BY <3>2, <3>3, <4>2
      <4>4. LiesNext(q, n, gaps, p + 1, m)
        BY <1>1, <2>0, <3>1, <4>3, IntervalLiesNext
      <4> QED
        BY <4>4 DEF LiesNext
    <3>5. Generates(n, gaps, K, order, size, m, k, P(k), b)
      BY <2>1, <3>1, <3>4 DEF Generates, P
    <3>6. PICK k2 \in 0 .. K, cut2 \in BOOLEAN :
             /\ put = ReportOf(k2, cut2) /\ StatusSize(NackBlocks, k2) <= size
             /\ cut2 => k2 < K /\ StatusSize(NackBlocks, k2 + 1) > size
             /\ ~cut2 => P(k2) = b + 1
      <4>1. \E a : a = P(k)
        OBVIOUS
      <4>2. PICK a : a = P(k)
        BY <4>1
      <4>3. Generates(n, gaps, K, order, size, m, k, a, b)
        BY <3>5, <4>2
      <4>4. PutsMissing(n, K, order, size, m, k, b)
        BY <4>3, MissingBlocks
      <4> QED
        BY <4>4 DEF put, P, PutsMissing
    <3> DEFINE c2 == IF cut2 THEN 0 ELSE m.next
    <3>7. PutMissing(q, size, s) = BlocksState(c2, FALSE, k2, cut2)
      <4>1. put.cut = cut2
        BY <3>6 DEF ReportOf
      <4> QED
        BY <2>3, <2>6, <3>6, <4>1 DEF BlocksState
    <3>8. c2 \in 0 .. Len(q) /\ (c2 # 0 => c2 > c \/ (h /\ c2 >= c))
      BY <1>1, <2>6
    <3>9. BlocksOk(q, n, gaps, K, order, size, c2, FALSE, k2, cut2)
      <4>1. CASE cut2
        <5>1. c2 = 0
          BY <4>1
        <5>2. BlocksDone(K, size, k2, cut2)
          BY <3>6, <4>1 DEF BlocksDone
        <5> HIDE DEF c2
        <5> QED
          BY <3>6, <5>1, <5>2 DEF BlocksOk
      <4>2. CASE ~cut2 /\ m.next = 0
        <5>1. c2 = 0 /\ P(k2) = n + 1
          BY <3>4, <3>6, <4>2
        <5>2. k2 = K
          <6> SUFFICES ASSUME k2 # K
                       PROVE  FALSE
            OBVIOUS
          <6>1. k2 \in 0 .. K - 1
            BY <1>1
          <6>2. P(k2) \in 1 .. n
            BY <1>1, <6>1
          <6> QED
            BY <1>1, <5>1, <6>2
        <5>3. BlocksDone(K, size, k2, cut2)
          BY <4>2, <5>2 DEF BlocksDone
        <5> HIDE DEF c2
        <5> QED
          BY <3>6, <5>1, <5>3 DEF BlocksOk
      <4>3. CASE ~cut2 /\ m.next # 0
        <5>1. c2 = m.next /\ c2 # 0 /\ Unreached(q, c2) /\ P(k2) = b + 1
          BY <2>6, <3>6, <4>3
        <5>2. Ahead(q, c2, FALSE) = {gaps[x] : x \in P(k2) .. n}
          BY <3>4, <4>3, <5>1 DEF Ahead
        <5>3. 1 < P(k2) /\ P(k2) <= n => ~Joined(gaps[P(k2) - 1], gaps[P(k2)])
          <6>1. b \in Int /\ P(k2) = b + 1
            BY <1>1, <3>1, <3>4, <5>1
          <6>2. (b + 1) - 1 = b /\ (b + 1 <= n => b < n)
            BY <1>1, <6>1
          <6> QED
            BY <3>4, <6>1, <6>2
        <5>4. GoesOn(q, n, gaps, P(k2), c2, FALSE)
          BY <5>1, <5>2, <5>3 DEF GoesOn
        <5> HIDE DEF c2
        <5> QED
          BY <3>6, <4>3, <5>1, <5>4 DEF BlocksOk, P
      <4> QED
        BY <4>1, <4>2, <4>3
    <3> HIDE DEF c2
    <3> QED
      BY <1>4, <3>7, <3>8, <3>9 DEF s, TurnsTo
  <2> QED
    BY <2>4, <2>5, <2>6
<1> QED
  BY <1>3, <1>4

\* generate_status puts the blocks of the report, as many as fit.
BlocksPut(q, K, size) ==
    \E k \in 0 .. K : \E cut \in BOOLEAN :
       /\ GenerateBlocks(q, size) = ReportOf(k, cut)
       /\ StatusSize(NackBlocks, k) <= size
       /\ BlocksDone(K, size, k, cut)

\* So it does, for each turn but the first starts further on in the list.
LEMMA PutBlocks ==
    ASSUME NEW q, Listed(q), NEW n, NEW gaps, GapList(gaps, n),
           IF q = <<>> THEN n = 0 ELSE SortedGaps(gaps, n),
           NEW K, NEW order, IsBlockOrder(gaps, K, order),
           NEW size \in Nat, size >= StatusHeader
    PROVE  BlocksPut(q, K, size)
<1> DEFINE L == Len(q)
           N == L + 1
           C(c, h, k, cut) == BlocksState(c, h, k, cut)
           Ok(c, h, k, cut) == BlocksOk(q, n, gaps, K, order, size, c, h, k, cut)
           S == {s \in {C(c, h, k, cut) : c \in 0 .. L, h \in BOOLEAN,
                                          k \in 0 .. K, cut \in BOOLEAN} :
                    \E c \in 0 .. L, h \in BOOLEAN, k \in 0 .. K, cut \in BOOLEAN :
                       s = C(c, h, k, cut) /\ Ok(c, h, k, cut)}
           init == [cur |-> IF q = <<>> THEN 0 ELSE 1, check_head |-> TRUE,
                    out |-> [nacks |-> <<>>, byte |-> StatusHeader, cut |-> FALSE]]
           Walk(g) == g = [k \in 0 .. N |-> IF k = 0 THEN init
                                            ELSE PutMissing(q, size, g[k - 1])]
           w == CHOOSE g : Walk(g)
           c0 == IF q = <<>> THEN 0 ELSE 1
<1>1. /\ n \in Nat /\ K \in Nat /\ L \in Nat /\ N \in Nat /\ RxTypeOK
      /\ DOMAIN NackBlocks = 1 .. K
  BY ListedEntries DEF GapList, IsBlockOrder
<1>2. GenerateBlocks(q, size) = w[N].out
  BY DEF GenerateBlocks
<1>3. c0 \in 0 .. L /\ 0 \in 0 .. K
  <2>1. q # <<>> => L # 0
    <3>1. q \in [1 .. L -> rx_list]
      BY DEF Listed, IsRxList
    <3>2. L = 0 => q = <<>>
      BY <3>1
    <3> QED
      BY <3>2
  <2> QED
    BY <1>1, <2>1
<1>4. init = C(c0, TRUE, 0, FALSE)
  <2>1. [x \in 1 .. 0 |-> NackBlocks[x]] = <<>>
    OBVIOUS
  <2>2. StatusSize(NackBlocks, 0) = StatusHeader
    BY <1>1, StatusSizeIs
  <2> QED
    BY <2>1, <2>2 DEF BlocksState, ReportOf
<1>5. Ok(c0, TRUE, 0, FALSE)
  <2>1. StatusSize(NackBlocks, 0) <= size
    BY <1>1, StatusSizeIs
  <2>2. BlockPos(n, K, order, 0) = 1 /\ BlockPos(n, K, order, K) = n + 1
        /\ \A j \in 0 .. K - 1 : BlockPos(n, K, order, j) \in 1 .. n
    BY NextBlock
  <2>3. CASE q = <<>>
    <3>1. n = 0
      BY <2>3
    <3>2. K = 0
      <4> SUFFICES ASSUME K # 0
                   PROVE  FALSE
        OBVIOUS
      <4>1. 0 \in 0 .. K - 1
        BY <1>1
      <4>2. BlockPos(n, K, order, 0) \in 1 .. n
        BY <2>2, <4>1
      <4> QED
        BY <3>1, <4>2
    <3> QED
      BY <2>1, <2>3, <3>2 DEF BlocksOk, BlocksDone
  <2>4. CASE q # <<>>
    <3>1. SortedGaps(gaps, n) /\ c0 = 1 /\ 1 \in 1 .. L
      BY <1>3, <2>4
    <3>2. Unreached(q, 1)
      <4>1. 1 .. 1 - 1 = {}
        OBVIOUS
      <4> QED
        BY <3>1, <4>1 DEF Unreached
    <3>3. Gaps = {gaps[x] : x \in 1 .. n}
      BY <3>1 DEF SortedGaps, GapList
    <3>4. Ahead(q, 1, TRUE) = {gaps[x] : x \in 1 .. n}
      BY <3>3 DEF Ahead
    <3>5. GoesOn(q, n, gaps, 1, 1, TRUE)
      <4>1. ~(1 < 1)
        OBVIOUS
      <4> QED
        BY <3>2, <3>4, <4>1, Zenon DEF GoesOn
    <3>6. GoesOn(q, n, gaps, BlockPos(n, K, order, 0), c0, TRUE)
      BY <2>2, <3>1, <3>5
    <3>7. c0 # 0 /\ ~FALSE
      BY <3>1
    <3> HIDE DEF c0
    <3> QED
      BY <2>1, <3>6, <3>7, Zenon DEF BlocksOk
  <2> QED
    BY <2>3, <2>4
<1>6. ASSUME NEW c \in 0 .. L, NEW h \in BOOLEAN, NEW k \in 0 .. K, NEW cut \in BOOLEAN,
             Ok(c, h, k, cut)
      PROVE  \E c2 \in 0 .. L, h2 \in BOOLEAN, k2 \in 0 .. K, cut2 \in BOOLEAN :
                /\ PutMissing(q, size, C(c, h, k, cut)) = C(c2, h2, k2, cut2)
                /\ Ok(c2, h2, k2, cut2)
                /\ c2 # 0 => c # 0 /\ ~h2 /\ (c2 > c \/ (h /\ c2 >= c))
  <2>1. TurnsTo(q, n, gaps, K, order, size, c, h, k, cut)
    BY <1>6, PutMissingIs
  <2> QED
    BY <2>1 DEF TurnsTo
<1>7. \A c \in 0 .. L, h \in BOOLEAN, k \in 0 .. K, cut \in BOOLEAN :
         Ok(c, h, k, cut) => C(c, h, k, cut) \in S
  OBVIOUS
<1>8. \A s \in S : \E c \in 0 .. L, h \in BOOLEAN, k \in 0 .. K, cut \in BOOLEAN :
                      s = C(c, h, k, cut) /\ Ok(c, h, k, cut)
  OBVIOUS
<1> HIDE DEF S, C, Ok, c0
<1>9. \A s \in S : PutMissing(q, size, s) \in S
  <2> SUFFICES ASSUME NEW s \in S
               PROVE  PutMissing(q, size, s) \in S
    OBVIOUS
  <2>1. PICK c \in 0 .. L, h \in BOOLEAN, k \in 0 .. K, cut \in BOOLEAN :
                s = C(c, h, k, cut) /\ Ok(c, h, k, cut)
    BY <1>8
  <2>2. PICK c2 \in 0 .. L, h2 \in BOOLEAN, k2 \in 0 .. K, cut2 \in BOOLEAN :
                /\ PutMissing(q, size, C(c, h, k, cut)) = C(c2, h2, k2, cut2)
                /\ Ok(c2, h2, k2, cut2)
    BY <1>6, <2>1
  <2> QED
    BY <1>7, <2>1, <2>2
<1>10. init \in S
  BY <1>3, <1>4, <1>5, <1>7
<1> HIDE DEF N, init
<1>11. \E g : Walk(g) /\ g \in [0 .. N -> S]
  <2> DEFINE step == [i \in 1 .. N |-> [s \in S |-> PutMissing(q, size, s)]]
  <2>1. step \in [1 .. N -> [S -> S]]
    BY <1>9
  <2>2. \A i \in 1 .. N : \A s \in S : step[i][s] = PutMissing(q, size, s)
    OBVIOUS
  <2>3. IsLoop(N, S, init, step)
    BY <1>1, <1>10, <2>1 DEF IsLoop
  <2> HIDE DEF step
  <2>4. PICK g : Runs(g, N, S, init, step)
    BY <2>3, LoopValues
  <2>5. /\ g \in [0 .. N -> S]
        /\ g[0] = init /\ \A i \in 1 .. N : g[i] = step[i][g[i - 1]]
    BY <2>4 DEF Runs
  <2>6. \A i \in 0 .. N : i # 0 => i \in 1 .. N /\ g[i - 1] \in S
    BY <1>1, <2>5
  <2>7. \A i \in 0 .. N : g[i] = IF i = 0 THEN init ELSE PutMissing(q, size, g[i - 1])
    BY <2>2, <2>5, <2>6
  <2>8. g = [i \in 0 .. N |-> g[i]]
    BY <2>5
  <2>9. Walk(g)
    BY <2>7, <2>8
  <2> QED
    BY <2>5, <2>9
<1>12. /\ w[0] = init
       /\ \A i \in 1 .. N : w[i] = PutMissing(q, size, w[i - 1])
  <2>1. Walk(w)
    BY <1>11
  <2> HIDE DEF w
  <2>2. \A i \in 0 .. N : w[i] = IF i = 0 THEN init ELSE PutMissing(q, size, w[i - 1])
    BY <2>1
  <2>3. 0 \in 0 .. N /\ \A i \in 1 .. N : i \in 0 .. N /\ i # 0
    BY <1>1
  <2> QED
    BY <2>2, <2>3
<1> HIDE DEF w
<1> DEFINE At(i, c, h, k, cut) == /\ w[i] = C(c, h, k, cut) /\ Ok(c, h, k, cut)
                                  /\ c = 0 \/ (c >= i /\ (i > 0 => ~h))
           Q == {i \in 0 .. N : \E c \in 0 .. L, h \in BOOLEAN, k \in 0 .. K, cut \in BOOLEAN :
                                   At(i, c, h, k, cut)}
<1>13. 0 \in Q
  <2>1. At(0, c0, TRUE, 0, FALSE)
    <3>1. c0 = 0 \/ (c0 >= 0 /\ (0 > 0 => ~TRUE))
      BY <1>1, <1>3
    <3>2. w[0] = C(c0, TRUE, 0, FALSE)
      BY <1>4, <1>12
    <3> QED
      BY <1>5, <3>1, <3>2, Zenon
  <2> HIDE DEF At
  <2>2. 0 \in 0 .. N
    BY <1>1
  <2> QED
    BY <1>3, <2>1, <2>2
<1>14. ASSUME NEW i \in 1 .. N, i - 1 \in Q
       PROVE  i \in Q
  <2>1. PICK c \in 0 .. L, h \in BOOLEAN, k \in 0 .. K, cut \in BOOLEAN : At(i - 1, c, h, k, cut)
    BY <1>14
  <2>2. PICK c2 \in 0 .. L, h2 \in BOOLEAN, k2 \in 0 .. K, cut2 \in BOOLEAN :
                /\ PutMissing(q, size, C(c, h, k, cut)) = C(c2, h2, k2, cut2)
                /\ Ok(c2, h2, k2, cut2)
                /\ c2 # 0 => c # 0 /\ ~h2 /\ (c2 > c \/ (h /\ c2 >= c))
    BY <1>6, <2>1
  <2>3. w[i] = C(c2, h2, k2, cut2)
    BY <1>12, <2>1, <2>2
  <2>4. c2 = 0 \/ (c2 >= i /\ (i > 0 => ~h2))
    <3>1. c = 0 \/ (c >= i - 1 /\ (i - 1 > 0 => ~h))
      BY <2>1
    <3>2. CASE c2 = 0
      BY <3>2
    <3>3. CASE c2 # 0
      <4>1. c # 0 /\ ~h2 /\ (c2 > c \/ (h /\ c2 >= c))
        BY <2>2, <3>3
      <4>2. CASE i = 1
        BY <1>1, <4>1, <4>2
      <4>3. CASE i # 1
        BY <1>1, <3>1, <4>1, <4>3
      <4> QED
        BY <4>2, <4>3
    <3> QED
      BY <3>2, <3>3
  <2>5. At(i, c2, h2, k2, cut2)
    BY <2>2, <2>3, <2>4
  <2> HIDE DEF At
  <2>6. i \in 0 .. N
    BY <1>1
  <2> QED
    BY <2>5, <2>6
<1>15. N \in Q
  <2>1. \A i \in 1 .. N : i - 1 \in Q => i \in Q
    BY <1>14
  <2> HIDE DEF Q
  <2>2. \A i \in 0 .. N : i \in Q
    BY <1>1, <1>13, <2>1, AllPositions
  <2> QED
    BY <1>1, <2>2
<1>16. PICK c \in 0 .. L, h \in BOOLEAN, k \in 0 .. K, cut \in BOOLEAN : At(N, c, h, k, cut)
  BY <1>15
<1>17. c = 0
  BY <1>1, <1>16 DEF N
<1>18. w[N].out = ReportOf(k, cut)
  BY <1>16 DEF C, BlocksState
<1>19. StatusSize(NackBlocks, k) <= size /\ BlocksDone(K, size, k, cut)
  BY <1>16, <1>17 DEF Ok, BlocksOk
<1> QED
  BY <1>2, <1>18, <1>19 DEF BlocksPut

\* With all the blocks that fit, the report is the one that the sets of missing
\* bytes say.
LEMMA WalkReportIs ==
    ASSUME NEW q, Listed(q), NEW size \in Nat, size >= StatusHeader
    PROVE  GenerateStatusWalk(q, size) = StatusReport(size)
<1>1. RxTypeOK /\ ListFinite /\ IsRxList(q) /\ Len(q) \in Nat
  BY ListedEntries DEF Listed
<1>2. PICK n : /\ GapList(MissingGaps, n)
               /\ rx_list = {} => n = 0
               /\ rx_list # {} =>
                     /\ \A g \in Gaps : \E i \in 1 .. n : MissingGaps[i] = g
                     /\ \A i, j \in 1 .. n :
                           i < j => GapBefore(MissingGaps[i], MissingGaps[j])
  BY <1>1, MissingGapsAre
<1>3. PICK gaps : gaps = MissingGaps
  OBVIOUS
<1>4. GapList(gaps, n)
  BY <1>2, <1>3
<1>5. PICK K, order : IsBlockOrder(gaps, K, order)
  BY <1>3, <1>4, BlocksAre
<1>6. IF q = <<>> THEN n = 0 ELSE SortedGaps(gaps, n)
  <2>1. CASE q = <<>>
    <3>1. rx_list = {}
      BY <1>1, <2>1 DEF IsRxList
    <3> QED
      BY <1>2, <2>1, <3>1
  <2>2. CASE q # <<>>
    <3>1. rx_list # {}
      <4> SUFFICES ASSUME rx_list = {}
                   PROVE  FALSE
        OBVIOUS
      <4>1. q \in [1 .. Len(q) -> {}]
        BY <1>1 DEF IsRxList
      <4>2. Len(q) = 0
        BY <1>1, <4>1
      <4> QED
        BY <2>2, <4>1, <4>2
    <3>2. SortedGaps(gaps, n)
      BY <1>2, <1>3, <1>4, <3>1 DEF SortedGaps
    <3> QED
      BY <2>2, <3>2
  <2> QED
    BY <2>1, <2>2
<1>7. BlocksPut(q, K, size)
  BY <1>4, <1>5, <1>6, PutBlocks
<1> DEFINE blocks == NackBlocks
<1>8. PICK k \in 0 .. K, cut \in BOOLEAN :
         /\ GenerateBlocks(q, size) = ReportOf(k, cut)
         /\ StatusSize(blocks, k) <= size /\ BlocksDone(K, size, k, cut)
  BY <1>7 DEF BlocksPut
<1>9. K \in Nat /\ Len(blocks) = K /\ DOMAIN blocks = 1 .. K
  BY <1>5 DEF IsBlockOrder
<1>10. cut <=> k < K
  BY <1>8, <1>9 DEF BlocksDone
<1>11. Fit(blocks, size) = k
  <2> DEFINE A == {j \in 0 .. K : StatusSize(blocks, j) <= size}
  <2>1. /\ \A j \in 0 .. K : StatusSize(blocks, j) \in Nat
        /\ \A i, j \in 0 .. K : i <= j => StatusSize(blocks, i) <= StatusSize(blocks, j)
    BY <1>9, StatusSizeIs
  <2>2. A \in SUBSET Nat /\ k \in A /\ k \in Nat
    BY <1>8, <1>9
  <2>3. ASSUME NEW j \in A
        PROVE  j <= k
    <3> SUFFICES ASSUME j > k
                 PROVE  FALSE
      BY <1>9
    <3>1. k < K /\ k + 1 \in 0 .. K /\ j \in 0 .. K /\ k + 1 <= j
      BY <1>9
    <3>2. StatusSize(blocks, k + 1) > size
      <4>1. cut
        BY <1>10, <3>1
      <4> QED
        BY <1>8, <4>1 DEF BlocksDone
    <3>3. StatusSize(blocks, k + 1) <= StatusSize(blocks, j) /\ StatusSize(blocks, j) <= size
      BY <2>1, <3>1
    <3> HIDE DEF blocks
    <3> QED
      BY <2>1, <3>1, <3>2, <3>3
  <2>4. Fit(blocks, size) = Max(A)
    BY <1>9 DEF Fit
  <2> HIDE DEF A
  <2>5. Max(A) \in A /\ \A j \in A : j <= Max(A)
    BY <2>2, <2>3, MaxOfNumbers
  <2>6. Max(A) \in Nat /\ Max(A) <= k /\ k <= Max(A)
    BY <2>2, <2>3, <2>5
  <2> QED
    BY <2>2, <2>4, <2>6
<1> DEFINE nacks == [x \in 1 .. k |-> blocks[x]]
           r == [x \in 1 .. k |-> IF k < K /\ x = k /\ HasSo(blocks[x])
                                  THEN [blocks[x] EXCEPT !.so_end = ToEnd] ELSE blocks[x]]
<1>12. /\ GenerateBlocks(q, size).nacks = nacks
       /\ GenerateBlocks(q, size).cut = cut
       /\ Len(nacks) = k
  <2>1. GenerateBlocks(q, size).nacks = nacks /\ GenerateBlocks(q, size).cut = cut
    BY <1>8 DEF ReportOf
  <2>2. nacks \in [1 .. k -> {blocks[x] : x \in 1 .. k}]
    OBVIOUS
  <2>3. k \in Nat
    BY <1>9
  <2> HIDE DEF nacks
  <2>4. Len(nacks) = k
    BY <2>2, <2>3, SeqLen
  <2> QED
    BY <1>10, <2>1, <2>4
<1>13. StatusReport(size) = [nacks |-> r, ack_sn |-> IF k = 0 THEN rx_next ELSE SnNext(LastSn(r[k]))]
  <2> DEFINE R(fit, len) == [x \in 1 .. fit |->
                                IF fit < len /\ x = fit /\ HasSo(blocks[x])
                                THEN [blocks[x] EXCEPT !.so_end = ToEnd] ELSE blocks[x]]
             F(fit, len) == [nacks |-> R(fit, len),
                             ack_sn |-> IF fit = 0 THEN rx_next ELSE SnNext(LastSn(R(fit, len)[fit]))]
  <2>1. StatusReport(size) = F(Fit(blocks, size), Len(blocks))
    BY Zenon DEF StatusReport
  <2> HIDE DEF F
  <2>2. StatusReport(size) = F(k, K)
    BY <1>9, <1>11, <2>1, Zenon
  <2> QED
    BY <2>2, Zenon DEF F
<1> DEFINE forced == IF k < K /\ k > 0 /\ HasSo(nacks[k])
                     THEN [nacks EXCEPT ![k].so_end = ToEnd] ELSE nacks
<1>14. GenerateStatusWalk(q, size) =
          [nacks |-> forced, ack_sn |-> IF k = 0 THEN rx_next ELSE SnNext(LastSn(forced[k]))]
  <2> DEFINE G(list, c, n2) ==
                LET all == IF c /\ n2 > 0 /\ HasSo(list[n2])
                           THEN [list EXCEPT ![n2].so_end = ToEnd] ELSE list
                IN [nacks |-> all, ack_sn |-> IF n2 = 0 THEN rx_next ELSE SnNext(LastSn(all[n2]))]
             out == GenerateBlocks(q, size)
  <2>1. GenerateStatusWalk(q, size) = G(out.nacks, out.cut, Len(out.nacks))
    BY Zenon DEF GenerateStatusWalk
  <2> HIDE DEF G, nacks
  <2>2. GenerateStatusWalk(q, size) = G(nacks, cut, k)
    BY <1>12, <2>1, Zenon
  <2>3. CASE cut
    BY <1>10, <2>2, <2>3, Zenon DEF G
  <2>4. CASE ~cut
    BY <1>10, <2>2, <2>4, Zenon DEF G
  <2> QED
    BY <2>3, <2>4
<1>15. forced = r
  <2>1. k \in Nat
    BY <1>9
  <2>2. CASE k < K /\ k > 0 /\ HasSo(nacks[k])
    <3>1. forced = [nacks EXCEPT ![k] = [nacks[k] EXCEPT !.so_end = ToEnd]]
      BY <2>2
    <3>2. k \in 1 .. k
      BY <2>1, <2>2
    <3> HIDE DEF forced
    <3>3. forced \in [1 .. k -> {forced[x] : x \in 1 .. k}]
          /\ \A x \in 1 .. k : forced[x] = IF x = k THEN [nacks[k] EXCEPT !.so_end = ToEnd] ELSE nacks[x]
      BY <3>1
    <3>4. \A x \in 1 .. k : forced[x] = r[x]
      BY <2>2, <3>2, <3>3
    <3>5. forced = [x \in 1 .. k |-> forced[x]] /\ r = [x \in 1 .. k |-> r[x]]
      BY <3>3
    <3> QED
      BY <3>4, <3>5
  <2>3. CASE ~(k < K /\ k > 0 /\ HasSo(nacks[k]))
    <3>1. forced = nacks
      BY <2>3
    <3>2. \A x \in 1 .. k : r[x] = nacks[x]
      BY <2>1, <2>3
    <3> QED
      BY <3>1, <3>2
  <2> QED
    BY <2>2, <2>3
<1> HIDE DEF forced, r
<1> QED
  BY <1>13, <1>14, <1>15

\* That is said of every buffer MAC offers.
LEMMA StatusWalks ==
    ASSUME Listed(RxList)
    PROVE  StatusWalkAgrees
<1>1. \A size \in ReportGrants : size \in Nat /\ size >= StatusHeader
  BY RxAssumption DEF ReportGrants
<1> QED
  BY <1>1, WalkReportIs DEF StatusWalkAgrees

\* In every state of the receiving entity, whatever segments of its SDUs it has
\* received in whatever order, and for every size of the buffer MAC offers, the
\* report that generate_status writes by walking over rx_list, with
\* generate_missing and next_missing under it, is the one that the sets of
\* missing bytes define: the walk lists every missing byte below
\* rx_highest_status and no other, in order, as far as the blocks fit.  The
\* segments have to agree on where their SDUs end: next_missing takes an SDU
\* for complete at its last segment, and does not look behind it.
THEOREM RxStatusWalkAgrees == RxSpec /\ []SegmentsAgree => []StatusWalkAgrees
<1>1. ASSUME RxInv, ListFinite, EntriesDistinct(rx_list), HeldInv, SegmentsAgree
      PROVE  StatusWalkAgrees
  <2>1. IsRxList(RxList)
    BY <1>1, RxListIs DEF RxInv, ListFinite
  <2>2. \A sn \in SN : SduDelivered(rx_list, sn) => DeliveredWhole(rx_list, sn)
    BY <1>1 DEF HeldInv
  <2>3. Listed(RxList)
    BY <1>1, <2>1, <2>2 DEF Listed
  <2> QED
    BY <2>3, StatusWalks
<1> QED
  BY <1>1, RxInvariant, RxListIsFinite, RxEntries, RxHeldInvariant, PTL
=============================================================================
