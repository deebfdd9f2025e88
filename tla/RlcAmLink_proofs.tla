-------------------------- MODULE RlcAmLink_proofs --------------------------
(***************************************************************************)
(* The two RLC AM entities and the MAC between them, for every window      *)
(* size, any SDUs, buffers, grants and thresholds: no byte is lost, no     *)
(* report acknowledges what was not received, the counters and the lists   *)
(* of the sender agree, and the link implements its service - as long as   *)
(* tx_next_ack is what the comment of process_control_pdu says it is.      *)
(*                                                                         *)
(* SNs wrap and their order is relative to tx_next_ack and rx_next, which  *)
(* move.  The proof measures every SN by its age, its distance below       *)
(* tx_next, and compares ages with the numbers of the SDUs, which do not   *)
(* wrap.                                                                   *)
(***************************************************************************)
EXTENDS RlcAmLink, RlcAmStatus_proofs

\* How many SNs ago sn was given away: 1 for the last one
Age(sn) == Modulus(sn, tx_next)

Segment == [sdu : AllSdus, sn : SN \cup {NoSn}, so : Nat, size : Nat \ {0}, last : BOOLEAN]

\* A part of its SDU, marked last when it is
Fits(x) ==
    /\ x.so + x.size <= SduSize[x.sdu]
    /\ x.last <=> x.so + x.size = SduSize[x.sdu]

\* The order of SDU and byte
Less(s, t) == s.sdu < t.sdu \/ (s.sdu = t.sdu /\ s.so < t.so)

Sorted(list) == \A i, j \in 1 .. Len(list) : i < j => Less(list[i], list[j])

Apart(s, t) == s.sdu = t.sdu => s.so + s.size <= t.so \/ t.so + t.size <= s.so

\* A segment that was never sent is a whole SDU, or the rest of the last one sent
Fresh(s) == s.sn = NoSn /\ s.so = 0 /\ s.last /\ s.sdu > last_sent
IsRest(s) == s.sn \in SN /\ Age(s.sn) = 1 /\ s.so > 0 /\ s.last /\ s.sdu = last_sent

Unsent == Range(tx_list)
Waiting == Range(wait_list)
Again == Range(retransmit_list)

EndOf(list) == IF list = <<>> THEN NoSegment ELSE Last(list)

\* The lists of the sender
ListInv ==
    /\ tx_list \in Seq(Segment) /\ Sorted(tx_list) /\ tx_end = EndOf(tx_list)
    /\ wait_list \in Seq(Segment) /\ Sorted(wait_list) /\ wait_end = EndOf(wait_list)
    /\ retransmit_list \in Seq(Segment) /\ Sorted(retransmit_list)

\* The segments in them
SegmentInv ==
    /\ \A s \in Segments : Fits(s) /\ s.sdu <= offered
    /\ \A s \in Unsent : Fresh(s) \/ IsRest(s)
    /\ \A s \in Waiting \cup Again : s.sn \in SN
    /\ \A s, t \in Segments : s = t \/ Apart(s, t)
    /\ Unsent \cap Waiting = {} /\ Unsent \cap Again = {} /\ Waiting \cap Again = {}

PduSizes == [s \in Segment |-> PduSize(s)]

SizeOfSegments(S) == SumFunctionOnSet(PduSizes, S)

Of(S, id) == {s \in S : s.sdu = id}

Counters == [retx_count : Int, ref_count : Int, free_count : Int]

\* The counters of the sender
AccountInv ==
    /\ sdu \in [DOMAIN sdu -> Counters]
    /\ DOMAIN sdu = {s.sdu : s \in Segments}
    /\ \A id \in DOMAIN sdu :
          sdu[id].ref_count - sdu[id].free_count = Cardinality(Of(Segments, id))
    /\ tx_size = SumFunctionOnSet(SduSize, DOMAIN sdu)
    /\ bstatus = [tx_size |-> SizeOfSegments(Unsent), retx_size |-> SizeOfSegments(Again)]

\* What happened to the SDUs
FateInv ==
    /\ offered \in 0 .. Len(SduSize)
    /\ last_sent \in 0 .. offered
    /\ 1 .. offered = DOMAIN sdu \cup confirmed \cup dropped
    /\ DOMAIN sdu \cap (confirmed \cup dropped) = {}
    /\ confirmed \cap dropped = {}
    /\ delivered \in [AllSdus -> {0, 1}]
    /\ \A id \in AllSdus : delivered[id] = 1 => id <= last_sent
    /\ \A id \in confirmed : delivered[id] = 1

Numbered == {s \in Segments : s.sn # NoSn}
Seen == Numbered \cup data_air \cup rx_list

\* SNs and the numbers of the SDUs that have them are in the same order
SnInv ==
    /\ tx_next \in SN /\ tx_next_ack \in SN /\ poll_sn \in SN
    /\ Age(tx_next_ack) <= WindowSize
    /\ \A x \in Seen :
          /\ x.sn \in SN /\ x.sdu \in AllSdus
          /\ 1 <= Age(x.sn) /\ Age(x.sn) <= WindowSize
          /\ x.sdu + Age(x.sn) <= last_sent + 1
          /\ x.sdu \notin dropped
          /\ Fits(x)
    /\ \A x, y \in Seen : x.sdu < y.sdu <=> Age(y.sn) < Age(x.sn)

\* The receiver follows the sender, and has what the sender has forgotten
ReceiverInv ==
    /\ data_air \subseteq Pdus
    /\ Age(rx_next) <= Age(tx_next_ack)
    /\ RxOffset(rx_next_highest) <= Age(rx_next)
    /\ \A sn \in SN : ~SduFull(rx_list, sn)
    /\ \A l \in rx_list : ~l.data => delivered[l.sdu] = 1
    /\ \A x \in Seen : Age(rx_next) < Age(x.sn) => delivered[x.sdu] = 1
    /\ \A x \in Seen : Age(x.sn) <= Age(rx_next) /\ delivered[x.sdu] = 1
                          => SduDelivered(rx_list, x.sn)
    /\ \A sn \in SN : 1 <= Age(sn) /\ Age(sn) <= Age(rx_next) =>
          SduDelivered(rx_list, sn) \/ \E s \in Numbered : s.sn = sn
    /\ NoByteLost
    /\ NothingGarbled

\* A report in flight still tells the truth, and was made not long ago
Honest(report) ==
    \A s \in Numbered : \A b \in SegBytes(s) :
        Age(report.ack_sn) < Age(s.sn) /\ ~Nacks(report, s.sn, b, b) => HasReceived(s.sdu, b)

ReportInv ==
    \A r \in status_air :
        /\ r.report.ack_sn \in SN
        /\ r.born \in Nat /\ r.born <= last_sent /\ last_sent < r.born + WindowSize
        /\ Age(r.report.ack_sn) <= WindowSize + last_sent - r.born
        /\ NackedParts(r.report.nacks, r.report.ack_sn) = {}
        /\ \A sn \in SN : \A part \in NackedParts(r.report.nacks, sn) :
              part.so_start \in Int /\ part.so_end \in Int
        /\ Honest(r.report)

LinkInv ==
    /\ RxInv /\ ListFinite
    /\ ListInv /\ SegmentInv /\ AccountInv /\ FateInv
    /\ SnInv /\ ReceiverInv /\ ReportInv

-----------------------------------------------------------------------------
(* Ages *)

LEMMA AgeType ==
    ASSUME NEW next \in SN, NEW a \in SN
    PROVE  /\ Modulus(a, next) \in 0 .. SnModulus - 1
           /\ Modulus(a, next) = 0 <=> a = next
BY SnAssumption DEF SN, Modulus

LEMMA AgeInjective ==
    ASSUME NEW next \in SN, NEW a \in SN, NEW b \in SN, Modulus(a, next) = Modulus(b, next)
    PROVE  a = b
BY SnAssumption DEF SN, Modulus

\* The distance of an SN from a base, of which both ages are known
LEMMA AgeOffset ==
    ASSUME NEW next \in SN, NEW base \in SN, NEW a \in SN
    PROVE  Modulus(base, a) =
              IF Modulus(a, next) <= Modulus(base, next)
              THEN Modulus(base, next) - Modulus(a, next)
              ELSE Modulus(base, next) - Modulus(a, next) + SnModulus
BY SnAssumption DEF SN, Modulus

-----------------------------------------------------------------------------
(* The order of segments *)

LEMMA LessOrder ==
    ASSUME NEW r \in Segment, NEW s \in Segment, NEW t \in Segment
    PROVE  /\ ~Less(s, s)
           /\ Less(s, t) => ~Less(t, s)
           /\ Less(r, s) /\ Less(s, t) => Less(r, t)
           /\ Apart(s, t) => Less(s, t) \/ Less(t, s)
<1>1. AllSdus \subseteq Int
  BY TxAssumption DEF AllSdus
<1>2. /\ r.sdu \in Int /\ r.so \in Nat /\ r.size \in Nat \ {0}
      /\ s.sdu \in Int /\ s.so \in Nat /\ s.size \in Nat \ {0}
      /\ t.sdu \in Int /\ t.so \in Nat /\ t.size \in Nat \ {0}
  BY <1>1 DEF Segment
<1> QED
  BY <1>2 DEF Less, Apart

\* No entry is listed twice.
LEMMA SortedInjective ==
    ASSUME NEW list \in Seq(Segment), Sorted(list),
           NEW i \in 1 .. Len(list), NEW j \in 1 .. Len(list), list[i] = list[j]
    PROVE  i = j
<1>1. list[i] \in Segment /\ ~Less(list[i], list[i])
  BY ElementOfSeq, LessOrder
<1> QED
  BY <1>1 DEF Sorted

\* The end of a list is its highest entry.
LEMMA EndIsHighest ==
    ASSUME NEW list \in Seq(Segment), Sorted(list), list # <<>>
    PROVE  /\ EndOf(list) = list[Len(list)] /\ Len(list) \in 1 .. Len(list)
           /\ EndOf(list) \in Range(list)
           /\ \A s \in Range(list) : s = EndOf(list) \/ Less(s, EndOf(list))
           /\ EndOf(list) # NoSegment
<1>1. Len(list) \in Nat \ {0} /\ Len(list) \in 1 .. Len(list)
  BY EmptySeq, LenProperties
<1>2. EndOf(list) = list[Len(list)]
  BY DEF EndOf, Last
<1>3. Range(list) = {list[i] : i \in 1 .. Len(list)}
  BY RangeIs
<1>4. list[Len(list)] \in Segment
  BY <1>1, ElementOfSeq
<1>5. list[Len(list)] # NoSegment
  BY <1>4 DEF Segment, NoSegment
<1>6. ASSUME NEW i \in 1 .. Len(list)
      PROVE  list[i] = list[Len(list)] \/ Less(list[i], list[Len(list)])
  BY <1>1 DEF Sorted
<1> QED
  BY <1>1, <1>2, <1>3, <1>5, <1>6

LEMMA HighestIsEnd ==
    ASSUME NEW list \in Seq(Segment), Sorted(list), NEW e \in Range(list),
           \A s \in Range(list) : s = e \/ Less(s, e)
    PROVE  EndOf(list) = e /\ list # <<>>
<1>1. list # <<>> /\ e \in Segment
  BY RangeIs
<1>2. /\ EndOf(list) \in Range(list) /\ EndOf(list) \in Segment
      /\ e = EndOf(list) \/ Less(e, EndOf(list))
  BY <1>1, EndIsHighest, RangeIs
<1> QED
  BY <1>1, <1>2, LessOrder

\* A segment above all others goes to the end.
LEMMA AppendSorted ==
    ASSUME NEW list \in Seq(Segment), Sorted(list), NEW seg \in Segment,
           \A s \in Range(list) : Less(s, seg)
    PROVE  LET new == Append(list, seg)
           IN /\ new \in Seq(Segment) /\ Sorted(new)
              /\ Range(new) = Range(list) \cup {seg}
              /\ EndOf(new) = seg
<1> DEFINE new == Append(list, seg)
<1>1. /\ new \in Seq(Segment) /\ Len(new) = Len(list) + 1 /\ Len(list) \in Nat
      /\ \A i \in 1 .. Len(list) : new[i] = list[i]
      /\ new[Len(list) + 1] = seg
  BY AppendProperties, LenProperties
<1> HIDE DEF new
<1>2. Range(list) = {list[i] : i \in 1 .. Len(list)} /\ Range(new) = {new[i] : i \in 1 .. Len(new)}
  BY <1>1, RangeIs
<1>3. Range(new) = Range(list) \cup {seg}
  <2>1. \A i \in 1 .. Len(new) : i \in 1 .. Len(list) \/ i = Len(list) + 1
    BY <1>1
  <2>2. \A i \in 1 .. Len(list) : i \in 1 .. Len(new)
    BY <1>1
  <2>3. Len(list) + 1 \in 1 .. Len(new)
    BY <1>1
  <2> QED
    BY <1>1, <1>2, <2>1, <2>2, <2>3
<1>4. Sorted(new)
  <2> SUFFICES ASSUME NEW i \in 1 .. Len(new), NEW j \in 1 .. Len(new), i < j
               PROVE  Less(new[i], new[j])
    BY DEF Sorted
  <2>1. i \in 1 .. Len(list) /\ new[i] = list[i]
    BY <1>1
  <2>2. CASE j = Len(list) + 1
    BY <1>1, <1>2, <2>1, <2>2
  <2>3. CASE j # Len(list) + 1
    BY <1>1, <2>1, <2>3 DEF Sorted
  <2> QED
    BY <2>2, <2>3
<1>5. EndOf(new) = seg
  BY <1>1, <1>3, <1>4, HighestIsEnd
<1> QED
  BY <1>1, <1>3, <1>4, <1>5 DEF new

\* nr_rlc_sdu_segment_list_append does that when the end it is given is the end.
LEMMA AppendIs ==
    ASSUME NEW list \in Seq(Segment), Sorted(list), NEW seg \in Segment
    PROVE  ListAppend(list, EndOf(list), seg) = Append(list, seg)
<1>1. CASE list = <<>>
  BY <1>1 DEF ListAppend
<1>2. CASE list # <<>>
  <2>1. EndOf(list) = list[Len(list)] /\ Len(list) \in 1 .. Len(list) /\ DOMAIN list = 1 .. Len(list)
    BY <1>2, EndIsHighest, RangeIs
  <2>2. PICK i : i = CHOOSE k \in DOMAIN list : list[k] = EndOf(list)
    OBVIOUS
  <2>3. i \in DOMAIN list /\ list[i] = EndOf(list)
    BY <2>1, <2>2
  <2>4. i = Len(list)
    BY <2>1, <2>3, SortedInjective
  <2>5. SubSeq(list, 1, Len(list)) = list
    OBVIOUS
  <2> QED
    BY <1>2, <2>2, <2>4, <2>5 DEF ListAppend
<1> QED
  BY <1>1, <1>2

\* Segments that the test of nr_rlc_tx_sdu_segment_list_add puts in their order
Comparable(S) ==
    \A s, t \in S : /\ After(s, t) <=> Less(t, s)
                    /\ s = t \/ Less(s, t) \/ Less(t, s)

\* nr_rlc_tx_sdu_segment_list_add keeps a list sorted.
LEMMA AddIs ==
    ASSUME NEW list \in Seq(Segment), Sorted(list), NEW seg \in Segment, seg \notin Range(list),
           Comparable(Range(list) \cup {seg})
    PROVE  LET new == ListAdd(list, seg)
           IN /\ new \in Seq(Segment) /\ Sorted(new)
              /\ Range(new) = Range(list) \cup {seg}
<1> DEFINE later == {i \in DOMAIN list : After(list[i], seg)}
<1>1. /\ DOMAIN list = 1 .. Len(list) /\ Len(list) \in Nat
      /\ Range(list) = {list[i] : i \in 1 .. Len(list)}
  BY RangeIs
<1>2. /\ \A i \in 1 .. Len(list) : list[i] \in Segment /\ list[i] \in Range(list)
      /\ \A i \in 1 .. Len(list) : i \in later <=> Less(seg, list[i])
      /\ \A i \in 1 .. Len(list) : i \notin later => Less(list[i], seg)
  BY <1>1, ElementOfSeq DEF Comparable
<1>3. CASE later = {}
  <2>1. \A s \in Range(list) : Less(s, seg)
    BY <1>1, <1>2, <1>3
  <2> QED
    BY <1>3, <2>1, AppendSorted DEF ListAdd
<1>4. CASE later # {}
  <2> DEFINE m == Min(later)
             new == InsertAt(list, m, seg)
  <2>1. later \in SUBSET Nat
    BY <1>1
  <2>2. ListAdd(list, seg) = new
    BY <1>4 DEF ListAdd
  <2> HIDE DEF later
  <2>3. m \in later /\ \A i \in later : m <= i
    BY <1>4, <2>1, MinOfNumbers
  <2>4. m \in 1 .. Len(list)
    BY <1>1, <2>3 DEF later
  <2> HIDE DEF m
  <2>5. \A i \in 1 .. Len(list) : i < m => Less(list[i], seg)
    BY <1>1, <1>2, <2>3, <2>4
  <2>6. \A i \in 1 .. Len(list) : m <= i => Less(seg, list[i])
    <3> SUFFICES ASSUME NEW i \in 1 .. Len(list), m <= i, i # m
                 PROVE  Less(seg, list[i])
      BY <1>2, <2>3, <2>4
    <3>1. Less(seg, list[m]) /\ Less(list[m], list[i])
      BY <1>2, <2>3, <2>4 DEF Sorted
    <3> QED
      BY <1>2, <2>4, <3>1, LessOrder
  <2>7. /\ new \in Seq(Segment) /\ Len(new) = Len(list) + 1
        /\ \A k \in 1 .. Len(list) + 1 :
              new[k] = IF k < m THEN list[k] ELSE IF k = m THEN seg ELSE list[k - 1]
    BY <2>4, InsertAtIs
  <2> HIDE DEF new
  <2>8. Sorted(new)
    <3> SUFFICES ASSUME NEW i \in 1 .. Len(new), NEW j \in 1 .. Len(new), i < j
                 PROVE  Less(new[i], new[j])
      BY DEF Sorted
    <3>1. CASE j < m
      <4>1. i \in 1 .. Len(list) /\ j \in 1 .. Len(list) /\ new[i] = list[i] /\ new[j] = list[j]
        BY <1>1, <2>4, <2>7, <3>1
      <4> QED
        BY <4>1 DEF Sorted
    <3>2. CASE j = m
      <4>1. i \in 1 .. Len(list) /\ new[i] = list[i] /\ new[j] = seg
        BY <1>1, <2>4, <2>7, <3>2
      <4> QED
        BY <2>5, <3>2, <4>1
    <3>3. CASE j > m
      <4>1. j - 1 \in 1 .. Len(list) /\ new[j] = list[j - 1] /\ m <= j - 1
        BY <1>1, <2>4, <2>7, <3>3
      <4>2. CASE i < m
        <5>1. i \in 1 .. Len(list) /\ new[i] = list[i] /\ i < j - 1
          BY <1>1, <2>4, <2>7, <3>3, <4>2
        <5> QED
          BY <4>1, <5>1 DEF Sorted
      <4>3. CASE i = m
        <5>1. new[i] = seg
          BY <2>7, <4>3
        <5> QED
          BY <2>6, <4>1, <5>1
      <4>4. CASE i > m
        <5>1. i - 1 \in 1 .. Len(list) /\ new[i] = list[i - 1] /\ i - 1 < j - 1
          BY <1>1, <2>4, <2>7, <4>4
        <5> QED
          BY <4>1, <5>1 DEF Sorted
      <4> QED
        BY <2>4, <4>2, <4>3, <4>4
    <3> QED
      BY <2>4, <3>1, <3>2, <3>3
  <2>9. Range(new) = Range(list) \cup {seg}
    <3>1. Range(new) = {new[k] : k \in 1 .. Len(new)}
      BY <2>7, RangeIs
    <3>2. ASSUME NEW k \in 1 .. Len(new)
          PROVE  new[k] = seg \/ \E i \in 1 .. Len(list) : new[k] = list[i]
      <4>1. CASE k < m
        <5>1. k \in 1 .. Len(list) /\ new[k] = list[k]
          BY <1>1, <2>4, <2>7, <4>1
        <5> QED
          BY <5>1
      <4>2. CASE k = m
        BY <2>7, <4>2
      <4>3. CASE k > m
        <5>1. k - 1 \in 1 .. Len(list) /\ new[k] = list[k - 1]
          BY <1>1, <2>4, <2>7, <4>3
        <5> QED
          BY <5>1
      <4> QED
        BY <2>4, <4>1, <4>2, <4>3
    <3>3. m \in 1 .. Len(new) /\ new[m] = seg
      BY <1>1, <2>4, <2>7
    <3>4. ASSUME NEW i \in 1 .. Len(list)
          PROVE  \E k \in 1 .. Len(new) : new[k] = list[i]
      <4>1. CASE i < m
        <5>1. i \in 1 .. Len(new) /\ new[i] = list[i]
          BY <1>1, <2>7, <4>1
        <5> QED
          BY <5>1
      <4>2. CASE i >= m
        <5>1. i + 1 \in 1 .. Len(new) /\ new[i + 1] = list[(i + 1) - 1] /\ (i + 1) - 1 = i
          BY <1>1, <2>4, <2>7, <4>2
        <5> QED
          BY <5>1
      <4> QED
        BY <2>4, <4>1, <4>2
    <3> QED
      BY <1>1, <3>1, <3>2, <3>3, <3>4
  <2> QED
    BY <2>2, <2>7, <2>8, <2>9
<1> QED
  BY <1>3, <1>4

\* Adding one segment after the other keeps it sorted too.
LEMMA AddAllIs ==
    ASSUME NEW list \in Seq(Segment), Sorted(list), NEW segs \in Seq(Segment), Sorted(segs),
           Range(list) \cap Range(segs) = {}, Comparable(Range(list) \cup Range(segs))
    PROVE  LET new == ListAddAll(list, segs)
           IN /\ new \in Seq(Segment) /\ Sorted(new)
              /\ Range(new) = Range(list) \cup Range(segs)
<1> DEFINE n == Len(segs)
           Adds(g, k) == g = [i \in 0 .. k |-> IF i = 0 THEN list ELSE ListAdd(g[i - 1], segs[i])]
           Bad == {k \in Nat : ~\E g : Adds(g, k)}
           First(k) == {segs[i] : i \in 1 .. k}
<1>1. n \in Nat /\ Range(segs) = First(n)
  BY RangeIs
<1>2. Bad = {}
  <2> SUFFICES ASSUME Bad # {}
               PROVE  FALSE
    OBVIOUS
  <2>1. PICK k \in Bad : \A m \in Bad : k <= m
    BY LeastNumber
  <2>2. CASE k = 0
    <3>1. Adds([i \in 0 .. 0 |-> list], 0)
      OBVIOUS
    <3> QED
      BY <2>2, <3>1
  <2>3. CASE k # 0
    <3>1. k - 1 \in Nat /\ k - 1 \notin Bad
      <4>1. k \in Nat
        OBVIOUS
      <4> HIDE DEF Bad
      <4>2. k - 1 \in Nat /\ ~(k <= k - 1)
        BY <2>3, <4>1
      <4> QED
        BY <2>1, <4>2
    <3>2. PICK g : Adds(g, k - 1)
      BY <3>1
    <3> DEFINE h == [i \in 0 .. k |-> IF i = 0 THEN list ELSE ListAdd(g[i - 1], segs[i])]
    <3>3. \A i \in 0 .. k - 1 : h[i] = g[i]
      <4>1. \A i \in 0 .. k - 1 : g[i] = IF i = 0 THEN list ELSE ListAdd(g[i - 1], segs[i])
        BY <3>2
      <4>2. \A i \in 0 .. k - 1 : i \in 0 .. k
        OBVIOUS
      <4> QED
        BY <4>1, <4>2
    <3>4. \A i \in 0 .. k : i # 0 => i - 1 \in 0 .. k - 1
      OBVIOUS
    <3>5. \A i \in 0 .. k : h[i] = IF i = 0 THEN list ELSE ListAdd(h[i - 1], segs[i])
      BY <3>3, <3>4
    <3>6. h = [i \in 0 .. k |-> h[i]]
      OBVIOUS
    <3> HIDE DEF h
    <3>7. Adds(h, k)
      BY <3>5, <3>6
    <3> QED
      BY <3>7
  <2> QED
    BY <2>2, <2>3
<1>3. PICK added : Adds(added, n) /\ ListAddAll(list, segs) = added[n]
  <2> DEFINE added == CHOOSE g : Adds(g, n)
  <2>1. \E g : Adds(g, n)
    BY <1>1, <1>2
  <2>2. Adds(added, n)
    BY <2>1
  <2>3. ListAddAll(list, segs) = added[n]
    BY DEF ListAddAll
  <2> QED
    BY <2>2, <2>3
<1>4. /\ added[0] = list
      /\ \A i \in 1 .. n : added[i] = ListAdd(added[i - 1], segs[i])
  <2>1. \A i \in 0 .. n : added[i] = IF i = 0 THEN list ELSE ListAdd(added[i - 1], segs[i])
    BY <1>3
  <2>2. 0 \in 0 .. n /\ \A i \in 1 .. n : i \in 0 .. n /\ i # 0
    BY <1>1
  <2> QED
    BY <2>1, <2>2
<1> DEFINE Good(k) == /\ added[k] \in Seq(Segment) /\ Sorted(added[k])
                      /\ Range(added[k]) = Range(list) \cup First(k)
           Worse == {k \in 0 .. n : ~Good(k)}
<1>5. Worse = {}
  <2> SUFFICES ASSUME Worse # {}
               PROVE  FALSE
    OBVIOUS
  <2>1. PICK k \in Worse : \A m \in Worse : k <= m
    <3>1. Worse \in SUBSET Nat
      BY <1>1
    <3> QED
      BY <3>1, LeastNumber
  <2>2. k \in 0 .. n /\ ~Good(k) /\ k # 0
    BY <1>4
  <2>3. k - 1 \in 0 .. n /\ Good(k - 1)
    <3>1. k - 1 \in 0 .. n /\ ~(k <= k - 1)
      BY <1>1, <2>2
    <3> HIDE DEF Good
    <3> QED
      BY <2>1, <3>1
  <2>4. k \in 1 .. n /\ added[k] = ListAdd(added[k - 1], segs[k])
    BY <1>1, <1>4, <2>2
  <2>5. segs[k] \in Segment /\ segs[k] \in Range(segs) /\ First(k - 1) \subseteq Range(segs)
    <3>1. \A i \in 1 .. k - 1 : i \in 1 .. n
      BY <1>1, <2>4
    <3> QED
      BY <1>1, <2>4, <3>1, ElementOfSeq
  <2>6. segs[k] \notin Range(list) \cup First(k - 1)
    <3>1. \A i \in 1 .. k - 1 : i \in 1 .. n /\ i # k
      BY <1>1, <2>4
    <3>2. \A i \in 1 .. k - 1 : segs[i] # segs[k]
      BY <2>4, <3>1, SortedInjective
    <3> QED
      BY <2>5, <3>2
  <2>7. Comparable(Range(added[k - 1]) \cup {segs[k]})
    <3>1. Range(added[k - 1]) \cup {segs[k]} \subseteq Range(list) \cup Range(segs)
      BY <2>3, <2>5
    <3> HIDE DEF Good
    <3> QED
      BY <3>1 DEF Comparable
  <2>8. /\ added[k] \in Seq(Segment) /\ Sorted(added[k])
        /\ Range(added[k]) = Range(added[k - 1]) \cup {segs[k]}
    <3>1. added[k - 1] \in Seq(Segment) /\ Sorted(added[k - 1])
      BY <2>3
    <3>2. segs[k] \in Segment /\ segs[k] \notin Range(added[k - 1])
      BY <2>3, <2>5, <2>6
    <3> HIDE DEF Good
    <3> QED
      BY <2>4, <2>7, <3>1, <3>2, AddIs
  <2>9. First(k) = First(k - 1) \cup {segs[k]}
    <3>1. \A i \in 1 .. k : i \in 1 .. k - 1 \/ i = k
      BY <2>4
    <3>2. \A i \in 1 .. k - 1 : i \in 1 .. k
      BY <2>4
    <3>3. k \in 1 .. k
      BY <2>4
    <3> QED
      BY <3>1, <3>2, <3>3
  <2> QED
    BY <2>2, <2>3, <2>8, <2>9
<1>6. Good(n)
  <2>1. n \in 0 .. n
    BY <1>1
  <2> QED
    BY <1>5, <2>1
<1> QED
  BY <1>1, <1>3, <1>6

\* The entries of a sorted list at some positions
LEMMA EntriesSorted ==
    ASSUME NEW list \in Seq(Segment), Sorted(list), NEW I \in SUBSET DOMAIN list
    PROVE  /\ Entries(list, I) \in Seq(Segment) /\ Sorted(Entries(list, I))
           /\ Range(Entries(list, I)) = {list[i] : i \in I}
<1> DEFINE n == Cardinality(I)
           new == Entries(list, I)
<1>1. /\ n \in Nat /\ new \in Seq(Segment) /\ Len(new) = n
      /\ \E q \in [1 .. n -> I] :
            /\ \A i \in I : \E k \in 1 .. n : q[k] = i
            /\ \A j, k \in 1 .. n : j < k => q[j] < q[k]
            /\ new = [k \in 1 .. n |-> list[q[k]]]
  BY EntriesAre, SMTT(60)
<1> HIDE DEF n, new
<1>2. PICK q \in [1 .. n -> I] :
            /\ \A i \in I : \E k \in 1 .. n : q[k] = i
            /\ \A j, k \in 1 .. n : j < k => q[j] < q[k]
            /\ new = [k \in 1 .. n |-> list[q[k]]]
  BY <1>1
<1>3. DOMAIN list = 1 .. Len(list) /\ \A k \in 1 .. n : new[k] = list[q[k]] /\ q[k] \in 1 .. Len(list)
  BY <1>2, RangeIs
<1>4. Sorted(new)
  <2> SUFFICES ASSUME NEW j \in 1 .. n, NEW k \in 1 .. n, j < k
               PROVE  Less(new[j], new[k])
    BY <1>1 DEF Sorted
  <2>1. q[j] < q[k]
    BY <1>2
  <2> QED
    BY <1>3, <2>1 DEF Sorted
<1>5. Range(new) = {new[k] : k \in 1 .. n}
  BY <1>1, RangeIs
<1>6. Range(new) = {list[i] : i \in I}
  <2>1. \A k \in 1 .. n : new[k] = list[q[k]] /\ q[k] \in I
    BY <1>2, <1>3
  <2>2. \A i \in I : \E k \in 1 .. n : new[k] = list[i]
    BY <1>2, <1>3
  <2> QED
    BY <1>5, <2>1, <2>2
<1> QED
  BY <1>1, <1>4, <1>6 DEF new

\* A sorted list without its first entry, and with a new one in its place
LEMMA TailSorted ==
    ASSUME NEW list \in Seq(Segment), Sorted(list), list # <<>>
    PROVE  /\ Head(list) \in Range(list)
           /\ Tail(list) \in Seq(Segment) /\ Sorted(Tail(list))
           /\ Range(Tail(list)) = Range(list) \ {Head(list)}
           /\ \A s \in Range(Tail(list)) : Less(Head(list), s)
<1>1. Len(list) \in Nat \ {0} /\ Range(list) = {list[i] : i \in 1 .. Len(list)}
  BY EmptySeq, LenProperties, RangeIs
<1>2. /\ Head(list) = list[1]
      /\ Tail(list) \in Seq(Segment) /\ Len(Tail(list)) = Len(list) - 1
      /\ \A i \in 1 .. Len(Tail(list)) : Tail(list)[i] = list[i + 1]
  BY HeadTailProperties
<1> DEFINE tail == Tail(list)
<1> HIDE DEF tail
<1>3. tail \in Seq(Segment) /\ Len(tail) = Len(list) - 1
      /\ \A i \in 1 .. Len(list) - 1 : tail[i] = list[i + 1]
  BY <1>2 DEF tail
<1>4. Range(tail) = {tail[i] : i \in 1 .. Len(list) - 1}
  BY <1>3, RangeIs
<1>5. ASSUME NEW i \in 1 .. Len(list) - 1
      PROVE  i + 1 \in 1 .. Len(list) /\ Less(list[1], tail[i])
  <2>1. 1 \in 1 .. Len(list) /\ i + 1 \in 1 .. Len(list) /\ 1 < i + 1
    BY <1>1
  <2> QED
    BY <1>3, <2>1 DEF Sorted
<1>6. Sorted(tail)
  <2> SUFFICES ASSUME NEW i \in 1 .. Len(list) - 1, NEW j \in 1 .. Len(list) - 1, i < j
               PROVE  Less(tail[i], tail[j])
    BY <1>3 DEF Sorted
  <2>1. i + 1 < j + 1
    OBVIOUS
  <2> QED
    BY <1>3, <1>5, <2>1 DEF Sorted
<1>7. Range(tail) = Range(list) \ {list[1]}
  <2>1. \A i \in 1 .. Len(list) - 1 : tail[i] # list[1] /\ tail[i] \in Range(list)
    <3> SUFFICES ASSUME NEW i \in 1 .. Len(list) - 1
                 PROVE  tail[i] # list[1] /\ tail[i] \in Range(list)
      OBVIOUS
    <3>1. i + 1 \in 1 .. Len(list) /\ 1 \in 1 .. Len(list) /\ i + 1 # 1
      BY <1>1
    <3> QED
      BY <1>1, <1>3, <3>1, SortedInjective
  <2>2. \A i \in 1 .. Len(list) : i = 1 \/ (i - 1 \in 1 .. Len(list) - 1 /\ list[i] = tail[i - 1])
    <3> SUFFICES ASSUME NEW i \in 1 .. Len(list), i # 1
                 PROVE  i - 1 \in 1 .. Len(list) - 1 /\ list[i] = tail[i - 1]
      OBVIOUS
    <3>1. i - 1 \in 1 .. Len(list) - 1 /\ (i - 1) + 1 = i
      BY <1>1
    <3> QED
      BY <1>3, <3>1
  <2> QED
    BY <1>1, <1>4, <2>1, <2>2
<1>8. 1 \in 1 .. Len(list)
  BY <1>1
<1> QED
  BY <1>1, <1>2, <1>3, <1>4, <1>5, <1>6, <1>7, <1>8 DEF tail

LEMMA PrependSorted ==
    ASSUME NEW list \in Seq(Segment), Sorted(list), NEW seg \in Segment,
           \A s \in Range(list) : Less(seg, s)
    PROVE  LET new == <<seg>> \o list
           IN /\ new \in Seq(Segment) /\ Sorted(new) /\ new # <<>>
              /\ Range(new) = Range(list) \cup {seg}
              /\ EndOf(new) = IF list = <<>> THEN seg ELSE EndOf(list)
<1> DEFINE new == <<seg>> \o list
<1>1. Len(list) \in Nat /\ Range(list) = {list[i] : i \in 1 .. Len(list)}
  BY RangeIs
<1>2. /\ new \in Seq(Segment) /\ Len(new) = Len(list) + 1
      /\ new[1] = seg /\ \A i \in 1 .. Len(list) : new[i + 1] = list[i]
  <2>1. <<seg>> \in Seq(Segment) /\ Len(<<seg>>) = 1 /\ <<seg>>[1] = seg
    OBVIOUS
  <2>2. /\ new \in Seq(Segment) /\ Len(new) = 1 + Len(list)
        /\ \A i \in 1 .. 1 + Len(list) : new[i] = IF i <= 1 THEN <<seg>>[i] ELSE list[i - 1]
    BY <2>1, ConcatProperties
  <2>3. 1 \in 1 .. 1 + Len(list)
    BY <1>1
  <2>4. \A i \in 1 .. Len(list) : i + 1 \in 1 .. 1 + Len(list) /\ ~(i + 1 <= 1) /\ (i + 1) - 1 = i
    BY <1>1
  <2> QED
    BY <1>1, <2>1, <2>2, <2>3, <2>4
<1> HIDE DEF new
<1>3. \A i \in 1 .. Len(new) : i = 1 \/ (i - 1 \in 1 .. Len(list) /\ new[i] = list[i - 1])
  <2> SUFFICES ASSUME NEW i \in 1 .. Len(new), i # 1
               PROVE  i - 1 \in 1 .. Len(list) /\ new[i] = list[i - 1]
    OBVIOUS
  <2>1. i - 1 \in 1 .. Len(list) /\ (i - 1) + 1 = i
    BY <1>1, <1>2
  <2> QED
    BY <1>2, <2>1
<1>4. Range(new) = Range(list) \cup {seg}
  <2>1. Range(new) = {new[i] : i \in 1 .. Len(new)}
    BY <1>2, RangeIs
  <2>2. 1 \in 1 .. Len(new) /\ \A i \in 1 .. Len(list) : i + 1 \in 1 .. Len(new)
    BY <1>1, <1>2
  <2> QED
    BY <1>1, <1>2, <1>3, <2>1, <2>2
<1>5. Sorted(new)
  <2> SUFFICES ASSUME NEW i \in 1 .. Len(new), NEW j \in 1 .. Len(new), i < j
               PROVE  Less(new[i], new[j])
    BY DEF Sorted
  <2>1. j - 1 \in 1 .. Len(list) /\ new[j] = list[j - 1]
    BY <1>3
  <2>2. CASE i = 1
    BY <1>1, <1>2, <2>1, <2>2
  <2>3. CASE i # 1
    <3>1. i - 1 \in 1 .. Len(list) /\ new[i] = list[i - 1] /\ i - 1 < j - 1
      BY <1>3, <2>3
    <3> QED
      BY <2>1, <3>1 DEF Sorted
  <2> QED
    BY <2>2, <2>3
<1>6. new # <<>>
  BY <1>1, <1>2, EmptySeq
<1>7. EndOf(new) = IF list = <<>> THEN seg ELSE EndOf(list)
  <2>1. CASE list = <<>>
    <3>1. Range(list) = {}
      BY <2>1, RangeIs
    <3> QED
      BY <1>2, <1>4, <1>5, <2>1, <3>1, HighestIsEnd
  <2>2. CASE list # <<>>
    <3>1. /\ EndOf(list) \in Range(new)
          /\ \A s \in Range(new) : s = EndOf(list) \/ Less(s, EndOf(list))
      BY <1>4, <2>2, EndIsHighest
    <3> QED
      BY <1>2, <1>5, <2>2, <3>1, HighestIsEnd
  <2> QED
    BY <2>1, <2>2
<1> QED
  BY <1>2, <1>4, <1>5, <1>6, <1>7 DEF new

\* A sorted list without one of its entries
LEMMA RemoveSorted ==
    ASSUME NEW list \in Seq(Segment), Sorted(list), NEW i \in 1 .. Len(list)
    PROVE  LET new == RemoveAt(list, i)
           IN /\ new \in Seq(Segment) /\ Sorted(new)
              /\ Range(new) = Range(list) \ {list[i]}
              /\ EndOf(new) = IF EndOf(list) # list[i] THEN EndOf(list)
                              ELSE IF i = 1 THEN NoSegment ELSE list[i - 1]
<1> DEFINE new == RemoveAt(list, i)
<1>1. Len(list) \in Nat /\ i \in Nat /\ Range(list) = {list[k] : k \in 1 .. Len(list)}
  BY RangeIs
<1>2. /\ new \in Seq(Segment) /\ Len(new) = Len(list) - 1
      /\ \A k \in 1 .. Len(list) - 1 : new[k] = IF k < i THEN list[k] ELSE list[k + 1]
  BY RemoveAtIs
<1> HIDE DEF new
<1>3. Sorted(new)
  <2> SUFFICES ASSUME NEW j \in 1 .. Len(list) - 1, NEW k \in 1 .. Len(list) - 1, j < k
               PROVE  Less(new[j], new[k])
    BY <1>2 DEF Sorted
  <2> DEFINE a == IF j < i THEN j ELSE j + 1
             b == IF k < i THEN k ELSE k + 1
  <2>1. new[j] = list[a] /\ new[k] = list[b]
    BY <1>2
  <2>2. a \in 1 .. Len(list) /\ b \in 1 .. Len(list) /\ a < b
    BY <1>1
  <2> HIDE DEF a, b
  <2> QED
    BY <2>1, <2>2 DEF Sorted
<1>4. Range(new) = Range(list) \ {list[i]}
  <2>1. Range(new) = {new[k] : k \in 1 .. Len(list) - 1}
    BY <1>2, RangeIs
  <2>2. ASSUME NEW k \in 1 .. Len(list) - 1
        PROVE  new[k] \in Range(list) /\ new[k] # list[i]
    <3> DEFINE a == IF k < i THEN k ELSE k + 1
    <3>1. new[k] = list[a] /\ a \in 1 .. Len(list) /\ a # i
      BY <1>1, <1>2
    <3> HIDE DEF a
    <3> QED
      BY <1>1, <3>1, SortedInjective
  <2>3. ASSUME NEW k \in 1 .. Len(list), k # i
        PROVE  \E j \in 1 .. Len(list) - 1 : new[j] = list[k]
    <3> DEFINE j == IF k < i THEN k ELSE k - 1
    <3>1. j \in 1 .. Len(list) - 1 /\ (IF j < i THEN j ELSE j + 1) = k
      BY <1>1, <2>3
    <3> HIDE DEF j
    <3> QED
      BY <1>2, <3>1
  <2>4. Range(list) = {list[k] : k \in 1 .. Len(list)}
    BY RangeIs
  <2>5. ASSUME NEW s \in Range(new)
        PROVE  s \in Range(list) \ {list[i]}
    <3>1. PICK k \in 1 .. Len(list) - 1 : s = new[k]
      BY <2>1
    <3> QED
      BY <2>2, <3>1
  <2>6. ASSUME NEW s \in Range(list) \ {list[i]}
        PROVE  s \in Range(new)
    <3>1. PICK k \in 1 .. Len(list) : s = list[k]
      BY <2>4
    <3>2. k # i
      BY <3>1
    <3>3. PICK j \in 1 .. Len(list) - 1 : new[j] = list[k]
      BY <2>3, <3>2
    <3> QED
      BY <2>1, <3>1, <3>3
  <2> QED
    BY <2>5, <2>6
<1>5. EndOf(new) = IF EndOf(list) # list[i] THEN EndOf(list)
                   ELSE IF i = 1 THEN NoSegment ELSE list[i - 1]
  <2>1. /\ list # <<>> /\ EndOf(list) = list[Len(list)] /\ EndOf(list) \in Range(list)
        /\ \A s \in Range(list) : s = EndOf(list) \/ Less(s, EndOf(list))
    BY <1>1, EmptySeq, EndIsHighest
  <2>2. CASE EndOf(list) # list[i]
    BY <1>2, <1>3, <1>4, <2>1, <2>2, HighestIsEnd
  <2>3. CASE EndOf(list) = list[i]
    <3>1. i = Len(list)
      <4>1. Len(list) \in 1 .. Len(list) /\ list[i] = list[Len(list)]
        BY <1>1, <2>1, <2>3
      <4> QED
        BY <4>1, SortedInjective
    <3>2. CASE i = 1
      <4>1. new = <<>>
        BY <1>2, <3>1, <3>2, EmptySeq
      <4> QED
        BY <2>3, <3>2, <4>1 DEF EndOf
    <3>3. CASE i # 1
      <4>1. Len(new) = i - 1 /\ i - 1 \in 1 .. Len(list) - 1 /\ new[i - 1] = list[i - 1]
        BY <1>1, <1>2, <3>1, <3>3
      <4>2. new # <<>>
        BY <1>1, <1>2, <4>1, EmptySeq
      <4> QED
        BY <2>3, <3>3, <4>1, <4>2 DEF EndOf, Last
    <3> QED
      BY <3>2, <3>3
  <2> QED
    BY <2>2, <2>3
<1> QED
  BY <1>2, <1>3, <1>4, <1>5 DEF new

\* A sorted list cut in two
LEMMA CutSorted ==
    ASSUME NEW list \in Seq(Segment), Sorted(list), NEW n \in 0 .. Len(list)
    PROVE  LET front == SubSeq(list, 1, n)
               back  == SubSeq(list, n + 1, Len(list))
           IN /\ front \in Seq(Segment) /\ Sorted(front) /\ Len(front) = n
              /\ back \in Seq(Segment) /\ Sorted(back)
              /\ Range(list) = Range(front) \cup Range(back)
              /\ Range(front) \cap Range(back) = {}
              /\ EndOf(back) = IF back = <<>> THEN NoSegment ELSE EndOf(list)
<1> DEFINE front == SubSeq(list, 1, n)
           back  == SubSeq(list, n + 1, Len(list))
<1>1. /\ Len(list) \in Nat /\ n \in Nat /\ n <= Len(list)
      /\ Range(list) = {list[k] : k \in 1 .. Len(list)}
      /\ \A k \in 1 .. Len(list) : list[k] \in Segment
  BY RangeIs, ElementOfSeq
<1>2. front \in Seq(Segment) /\ Len(front) = n /\ \A k \in 1 .. n : front[k] = list[k]
  <2>1. 1 \in Int /\ n \in Int /\ \A k \in 1 .. n : list[k] \in Segment
    BY <1>1
  <2>2. /\ front \in Seq(Segment)
        /\ Len(front) = IF 1 <= n THEN n - 1 + 1 ELSE 0
        /\ \A k \in 1 .. n - 1 + 1 : front[k] = list[1 + k - 1]
    BY <2>1, SubSeqProperties
  <2> QED
    BY <1>1, <2>2
<1>3. /\ back \in Seq(Segment) /\ Len(back) = Len(list) - n
      /\ \A k \in 1 .. Len(list) - n : back[k] = list[n + k]
  <2>1. n + 1 \in Int /\ Len(list) \in Int /\ \A k \in n + 1 .. Len(list) : list[k] \in Segment
    BY <1>1
  <2>2. /\ back \in Seq(Segment)
        /\ Len(back) = IF n + 1 <= Len(list) THEN Len(list) - (n + 1) + 1 ELSE 0
        /\ \A k \in 1 .. Len(list) - (n + 1) + 1 : back[k] = list[(n + 1) + k - 1]
    BY <2>1, SubSeqProperties
  <2> QED
    BY <1>1, <2>2
<1> HIDE DEF front, back
<1>4. Sorted(front)
  <2>1. \A k \in 1 .. n : k \in 1 .. Len(list)
    BY <1>1
  <2> QED
    BY <1>2, <2>1 DEF Sorted
<1>5. Sorted(back)
  <2> SUFFICES ASSUME NEW j \in 1 .. Len(list) - n, NEW k \in 1 .. Len(list) - n, j < k
               PROVE  Less(back[j], back[k])
    BY <1>3 DEF Sorted
  <2>1. n + j \in 1 .. Len(list) /\ n + k \in 1 .. Len(list) /\ n + j < n + k
    BY <1>1
  <2> QED
    BY <1>3, <2>1 DEF Sorted
<1>6. /\ Range(front) = {front[k] : k \in 1 .. n}
      /\ Range(back) = {back[k] : k \in 1 .. Len(list) - n}
  <2>1. Range(front) = {front[k] : k \in 1 .. Len(front)}
    BY <1>2, RangeIs
  <2>2. Range(back) = {back[k] : k \in 1 .. Len(back)}
    BY <1>3, RangeIs
  <2> QED
    BY <1>2, <1>3, <2>1, <2>2
<1>7. Range(list) = Range(front) \cup Range(back)
  <2>1. \A k \in 1 .. n : k \in 1 .. Len(list)
    BY <1>1
  <2>2. \A k \in 1 .. Len(list) - n : n + k \in 1 .. Len(list)
    BY <1>1
  <2>3. ASSUME NEW k \in 1 .. Len(list)
        PROVE  list[k] \in Range(front) \cup Range(back)
    <3>1. CASE k <= n
      <4>1. k \in 1 .. n /\ front[k] = list[k]
        BY <1>1, <1>2, <3>1
      <4> QED
        BY <1>6, <4>1
    <3>2. CASE k > n
      <4>1. k - n \in 1 .. Len(list) - n /\ n + (k - n) = k
        BY <1>1, <3>2
      <4>2. back[k - n] = list[k]
        BY <1>3, <4>1
      <4> QED
        BY <1>6, <4>1, <4>2
    <3> QED
      BY <1>1, <3>1, <3>2
  <2>4. \A k \in 1 .. n : front[k] \in Range(list)
    BY <1>1, <1>2, <2>1
  <2>5. \A k \in 1 .. Len(list) - n : back[k] \in Range(list)
    BY <1>1, <1>3, <2>2
  <2> QED
    BY <1>1, <1>6, <2>3, <2>4, <2>5
<1>8. Range(front) \cap Range(back) = {}
  <2>1. ASSUME NEW j \in 1 .. n, NEW k \in 1 .. Len(list) - n
        PROVE  front[j] # back[k]
    <3>1. j \in 1 .. Len(list) /\ n + k \in 1 .. Len(list) /\ j # n + k
      BY <1>1
    <3> QED
      BY <1>2, <1>3, <3>1, SortedInjective
  <2> QED
    BY <1>6, <2>1
<1>9. EndOf(back) = IF back = <<>> THEN NoSegment ELSE EndOf(list)
  <2>1. CASE back = <<>>
    BY <2>1 DEF EndOf
  <2>2. CASE back # <<>>
    <3>1. Len(list) - n \in 1 .. Len(list) - n
      BY <1>1, <1>3, <2>2, EmptySeq, LenProperties
    <3>2. back[Len(back)] = list[n + (Len(list) - n)] /\ n + (Len(list) - n) = Len(list)
      BY <1>1, <1>3, <3>1
    <3>3. list # <<>>
      BY <1>1, <3>1, EmptySeq
    <3> QED
      BY <2>2, <3>2, <3>3 DEF EndOf, Last
  <2> QED
    BY <2>1, <2>2
<1> QED
  BY <1>2, <1>3, <1>4, <1>5, <1>7, <1>8, <1>9 DEF front, back

-----------------------------------------------------------------------------
(* Counting segments *)

\* The number of elements does not depend on how they are called.
LEMMA CardinalityImage ==
    ASSUME NEW S, IsFiniteSet(S), NEW h, \A x, y \in S : h[x] = h[y] => x = y
    PROVE  /\ IsFiniteSet({h[x] : x \in S})
           /\ Cardinality({h[x] : x \in S}) = Cardinality(S)
<1> DEFINE T == {h[x] : x \in S}
           g == [x \in S |-> h[x]]
<1>1. g \in [S -> T] /\ \A x, y \in S : g[x] = g[y] => x = y
  OBVIOUS
<1>2. \A t \in T : \E x \in S : g[x] = t
  OBVIOUS
<1> HIDE DEF T, g
<1>3. g \in Bijection(S, T)
  BY <1>1, <1>2 DEF Bijection, Injection, Surjection, IsInjective
<1>4. IsFiniteSet(T) /\ Cardinality(T) = Cardinality(S)
  BY <1>3, FS_Bijection DEF ExistsBijection
<1> QED
  BY <1>4 DEF T

Injective(list) == \A i, j \in DOMAIN list : list[i] = list[j] => i = j

LEMMA SortedIsInjective ==
    ASSUME NEW list \in Seq(Segment), Sorted(list)
    PROVE  Injective(list)
BY SortedInjective, RangeIs DEF Injective

\* CountOf counts the segments of an SDU, and Sizes adds the sizes of the PDUs,
\* when no segment is listed twice.
LEMMA CountIs ==
    ASSUME NEW list \in Seq(Segment), Injective(list), NEW id
    PROVE  CountOf(list, id) = Cardinality(Of(Range(list), id))
<1> DEFINE S == {i \in DOMAIN list : list[i].sdu = id}
<1>1. IsFiniteSet(DOMAIN list)
  BY RangeIs
<1>2. IsFiniteSet(S)
  BY <1>1, FS_Subset
<1>3. \A x, y \in S : list[x] = list[y] => x = y
  BY DEF Injective
<1>4. {list[i] : i \in S} = Of(Range(list), id)
  BY DEF Of, Range
<1>5. Cardinality({list[i] : i \in S}) = Cardinality(S)
  BY <1>2, <1>3, CardinalityImage
<1> QED
  BY <1>4, <1>5 DEF CountOf

LEMMA PduSizeType ==
    ASSUME NEW s \in Segment
    PROVE  PduSize(s) \in Nat /\ PduSizes[s] = PduSize(s)
BY PduAssumption DEF Segment, PduSize, PduSizes, HeaderSize

LEMMA SizesAre ==
    ASSUME NEW list \in Seq(Segment), Injective(list)
    PROVE  Sizes(list) = SizeOfSegments(Range(list))
<1> DEFINE S == DOMAIN list
           g == [i \in DOMAIN list |-> PduSize(list[i])]
<1>1. IsFiniteSet(S) /\ \A i \in S : list[i] \in Segment
  BY RangeIs, ElementOfSeq
<1>2. \A i \in S : g[i] = PduSizes[list[i]] /\ g[i] \in Nat
  BY <1>1, PduSizeType
<1>3. \A x, y \in S : list[x] = list[y] => x = y
  BY DEF Injective
<1> HIDE DEF S, g
<1>4. SumFunctionOnSet(g, S) = SumFunctionOnSet(PduSizes, {list[i] : i \in S})
  BY <1>1, <1>2, <1>3, SumImage
<1>5. {list[i] : i \in S} = Range(list)
  BY DEF Range, S
<1> QED
  BY <1>4, <1>5 DEF Sizes, SizeOfSegments, S, g

LEMMA ConcatInjective ==
    ASSUME NEW s \in Seq(Segment), NEW t \in Seq(Segment), Injective(s), Injective(t),
           Range(s) \cap Range(t) = {}
    PROVE  /\ s \o t \in Seq(Segment) /\ Injective(s \o t)
           /\ Range(s \o t) = Range(s) \cup Range(t)
<1> DEFINE new == s \o t
           m == Len(s)
           n == Len(t)
<1>1. /\ m \in Nat /\ n \in Nat
      /\ DOMAIN s = 1 .. m /\ Range(s) = {s[i] : i \in 1 .. m}
      /\ DOMAIN t = 1 .. n /\ Range(t) = {t[i] : i \in 1 .. n}
  BY RangeIs
<1>2. /\ new \in Seq(Segment) /\ Len(new) = m + n
      /\ \A i \in 1 .. m + n : new[i] = IF i <= m THEN s[i] ELSE t[i - m]
  BY ConcatProperties
<1> HIDE DEF new, m, n
<1>3. DOMAIN new = 1 .. m + n /\ Range(new) = {new[i] : i \in 1 .. m + n}
  BY <1>2, RangeIs
<1>4. ASSUME NEW i \in 1 .. m + n
      PROVE  \/ i <= m /\ i \in 1 .. m /\ new[i] = s[i]
             \/ i > m /\ i - m \in 1 .. n /\ new[i] = t[i - m]
  BY <1>1, <1>2
<1>5. Injective(new)
  <2> SUFFICES ASSUME NEW i \in 1 .. m + n, NEW j \in 1 .. m + n, new[i] = new[j]
               PROVE  i = j
    BY <1>3 DEF Injective
  <2>1. CASE i <= m /\ j <= m
    BY <1>1, <1>4, <2>1 DEF Injective
  <2>2. CASE i > m /\ j > m
    <3>1. i - m \in 1 .. n /\ j - m \in 1 .. n /\ t[i - m] = t[j - m]
      BY <1>1, <1>4, <2>2
    <3>2. i - m = j - m
      BY <1>1, <3>1 DEF Injective
    <3> QED
      BY <1>1, <3>2
  <2>3. CASE i <= m /\ j > m
    <3>1. new[i] \in Range(s) /\ new[j] \in Range(t)
      BY <1>1, <1>4, <2>3
    <3> QED
      BY <3>1
  <2>4. CASE i > m /\ j <= m
    <3>1. new[i] \in Range(t) /\ new[j] \in Range(s)
      BY <1>1, <1>4, <2>4
    <3> QED
      BY <3>1
  <2> QED
    BY <1>1, <2>1, <2>2, <2>3, <2>4
<1>6. Range(new) = Range(s) \cup Range(t)
  <2>1. ASSUME NEW i \in 1 .. m
        PROVE  s[i] \in Range(new)
    <3>1. i \in 1 .. m + n /\ i <= m
      BY <1>1
    <3> QED
      BY <1>2, <1>3, <3>1
  <2>2. ASSUME NEW i \in 1 .. n
        PROVE  t[i] \in Range(new)
    <3>1. m + i \in 1 .. m + n /\ ~(m + i <= m) /\ (m + i) - m = i
      BY <1>1
    <3> QED
      BY <1>2, <1>3, <3>1
  <2> QED
    BY <1>1, <1>3, <1>4, <2>1, <2>2
<1> QED
  BY <1>2, <1>5, <1>6 DEF new

LEMMA RangeFinite ==
    ASSUME NEW list \in Seq(Segment), Sorted(list)
    PROVE  Range(list) \subseteq Segment /\ IsFiniteSet(Range(list))
<1>1. IsFiniteSet(DOMAIN list) /\ Range(list) \subseteq Segment
  BY RangeIs
<1>2. \A x, y \in DOMAIN list : list[x] = list[y] => x = y
  BY SortedIsInjective DEF Injective
<1>3. IsFiniteSet({list[x] : x \in DOMAIN list})
  BY <1>1, <1>2, CardinalityImage
<1> QED
  BY <1>1, <1>3 DEF Range

LEMMA SizeOfSegmentsAdd ==
    ASSUME NEW S \in SUBSET Segment, IsFiniteSet(S), NEW s \in Segment, s \notin S
    PROVE  SizeOfSegments(S \cup {s}) = SizeOfSegments(S) + PduSize(s)
<1>1. \A x \in S \cup {s} : PduSizes[x] \in Nat
  BY PduSizeType
<1>2. SumFunctionOnSet(PduSizes, S \cup {s}) = PduSizes[s] + SumFunctionOnSet(PduSizes, S)
  BY <1>1, SumAdd
<1>3. SumFunctionOnSet(PduSizes, S) \in Nat
  BY <1>1, SumType
<1> QED
  BY <1>2, <1>3, PduSizeType DEF SizeOfSegments

LEMMA SizeOfSegmentsSplit ==
    ASSUME NEW S \in SUBSET Segment, IsFiniteSet(S), NEW T \in SUBSET S
    PROVE  /\ SizeOfSegments(S) \in Int /\ SizeOfSegments(T) \in Int
           /\ SizeOfSegments(S \ T) = SizeOfSegments(S) - SizeOfSegments(T)
<1>1. \A x \in S : PduSizes[x] \in Nat
  BY PduSizeType
<1>2. /\ SumFunctionOnSet(PduSizes, T) \in Nat
      /\ SumFunctionOnSet(PduSizes, S \ T) \in Nat
      /\ SumFunctionOnSet(PduSizes, S) =
            SumFunctionOnSet(PduSizes, T) + SumFunctionOnSet(PduSizes, S \ T)
  BY <1>1, SumSplit
<1> QED
  BY <1>2 DEF SizeOfSegments

-----------------------------------------------------------------------------
(* The order of SNs and the order of SDUs *)

\* Seen from tx_next_ack, an SN that was given away since is as far as it is
\* younger.
LEMMA OffsetOfAge ==
    ASSUME tx_next \in SN, tx_next_ack \in SN, NEW sn \in SN, Age(sn) <= Age(tx_next_ack)
    PROVE  TxOffset(sn) = Age(tx_next_ack) - Age(sn)
BY AgeOffset DEF Age, TxOffset

\* What TxNextAckIsSmallestUnacked says of ages
LEMMA NumberedAge ==
    ASSUME SnInv, TxNextAckIsSmallestUnacked, NEW s \in Numbered
    PROVE  /\ s.sn \in SN /\ Age(s.sn) \in Int /\ Age(tx_next_ack) \in Int
           /\ 1 <= Age(s.sn) /\ Age(s.sn) <= Age(tx_next_ack)
<1>1. /\ tx_next \in SN /\ tx_next_ack \in SN
      /\ s.sn \in SN /\ 1 <= Age(s.sn)
      /\ TxOffset(s.sn) < TxOffset(tx_next)
  BY DEF SnInv, Seen, Numbered, TxNextAckIsSmallestUnacked
<1>2. Age(s.sn) \in 0 .. SnModulus - 1 /\ Age(tx_next_ack) \in 0 .. SnModulus - 1
  BY <1>1, AgeType DEF Age
<1>3. TxOffset(s.sn) = IF Age(s.sn) <= Age(tx_next_ack) THEN Age(tx_next_ack) - Age(s.sn)
                       ELSE Age(tx_next_ack) - Age(s.sn) + SnModulus
  BY <1>1, AgeOffset DEF Age, TxOffset
<1>4. TxOffset(tx_next) = Age(tx_next_ack)
  BY DEF TxOffset, Age
<1> QED
  BY <1>1, <1>2, <1>3, <1>4, SnAssumption

\* So the test of nr_rlc_tx_sdu_segment_list_add orders the SDUs.
LEMMA RankedComparable ==
    ASSUME tx_next \in SN, tx_next_ack \in SN, NEW X \in SUBSET Segment,
           \A x \in X : x.sn \in SN /\ Age(x.sn) <= Age(tx_next_ack),
           \A x, y \in X : x.sdu < y.sdu <=> Age(y.sn) < Age(x.sn),
           \A x, y \in X : x = y \/ Apart(x, y)
    PROVE  Comparable(X)
<1> SUFFICES ASSUME NEW s \in X, NEW t \in X
             PROVE  /\ After(s, t) <=> Less(t, s)
                    /\ s = t \/ Less(s, t) \/ Less(t, s)
  BY DEF Comparable
<1>1. s = t \/ Less(s, t) \/ Less(t, s)
  BY LessOrder
<1>2. /\ s.sn \in SN /\ t.sn \in SN /\ s.sdu \in Int /\ t.sdu \in Int
  <2>1. AllSdus \subseteq Int
    BY TxAssumption DEF AllSdus
  <2> QED
    BY <2>1 DEF Segment
<1>3. Age(s.sn) \in Int /\ Age(t.sn) \in Int /\ Age(tx_next_ack) \in Int
  BY <1>2, AgeType DEF Age
<1>4. /\ TxOffset(s.sn) = Age(tx_next_ack) - Age(s.sn)
      /\ TxOffset(t.sn) = Age(tx_next_ack) - Age(t.sn)
  BY <1>2, OffsetOfAge
<1>5. TxOffset(s.sn) > TxOffset(t.sn) <=> t.sdu < s.sdu
  BY <1>3, <1>4
<1>6. s.sn = t.sn <=> t.sdu = s.sdu
  <2>1. s.sn = t.sn <=> Age(s.sn) = Age(t.sn)
    BY <1>2, AgeInjective DEF Age
  <2> QED
    BY <1>2, <1>3, <2>1
<1> QED
  BY <1>1, <1>5, <1>6 DEF After, Less

LEMMA NumberedComparable ==
    ASSUME ListInv, SegmentInv, SnInv, TxNextAckIsSmallestUnacked
    PROVE  Comparable(Numbered) /\ Waiting \cup Again \subseteq Numbered /\ Numbered \subseteq Segment
<1>1. Segments \subseteq Segment
  BY RangeIs DEF ListInv, Segments
<1>2. Numbered \subseteq Segment
  BY <1>1 DEF Numbered
<1>3. Waiting \cup Again \subseteq Numbered
  <2>1. \A s \in Waiting \cup Again : s.sn # NoSn
    BY SnAssumption DEF SegmentInv, SN, NoSn
  <2> QED
    BY <2>1 DEF Numbered, Segments, Waiting, Again
<1>4. \A x \in Numbered : x.sn \in SN /\ Age(x.sn) <= Age(tx_next_ack)
  BY NumberedAge
<1>5. \A x, y \in Numbered : x.sdu < y.sdu <=> Age(y.sn) < Age(x.sn)
  BY DEF SnInv, Seen
<1>6. \A x, y \in Numbered : x = y \/ Apart(x, y)
  BY DEF SegmentInv, Numbered
<1>7. tx_next \in SN /\ tx_next_ack \in SN
  BY DEF SnInv
<1> QED
  BY <1>2, <1>3, <1>4, <1>5, <1>6, <1>7, RankedComparable

-----------------------------------------------------------------------------
(* Sending a segment *)

\* The wait list after a segment was sent, with or without the shortcut
LEMMA MoveToWaitIs ==
    ASSUME wait_list \in Seq(Segment), Sorted(wait_list), wait_end = EndOf(wait_list),
           NEW sent \in Segment, sent \notin Waiting, Comparable(Waiting \cup {sent}),
           MoveToWait(sent)
    PROVE  /\ wait_list' \in Seq(Segment) /\ Sorted(wait_list')
           /\ Range(wait_list') = Waiting \cup {sent}
           /\ wait_end' = EndOf(wait_list')
<1>1. CASE wait_end = NoSegment \/ After(sent, wait_end)
  <2>1. wait_list' = Append(wait_list, sent) /\ wait_end' = sent
    BY <1>1, AppendIs DEF MoveToWait
  <2>2. \A s \in Range(wait_list) : Less(s, sent)
    <3>1. CASE wait_list = <<>>
      BY <3>1, RangeIs
    <3>2. CASE wait_list # <<>>
      <4>1. /\ wait_end \in Waiting /\ wait_end # NoSegment
            /\ \A s \in Waiting : s = wait_end \/ Less(s, wait_end)
        BY <3>2, EndIsHighest DEF Waiting
      <4>2. Less(wait_end, sent)
        BY <1>1, <4>1 DEF Comparable
      <4>3. Waiting \subseteq Segment
        BY RangeIs DEF Waiting
      <4> QED
        BY <4>1, <4>2, <4>3, LessOrder DEF Waiting
    <3> QED
      BY <3>1, <3>2
  <2> QED
    BY <2>1, <2>2, AppendSorted DEF Waiting
<1>2. CASE ~(wait_end = NoSegment \/ After(sent, wait_end))
  <2>1. /\ wait_list' = ListAdd(wait_list, sent)
        /\ wait_end' = IF Len(wait_list') = 1 THEN sent ELSE wait_end
    BY <1>2 DEF MoveToWait
  <2>2. /\ wait_list' \in Seq(Segment) /\ Sorted(wait_list')
        /\ Range(wait_list') = Waiting \cup {sent}
    BY <2>1, AddIs DEF Waiting
  <2>3. wait_list # <<>>
    BY <1>2 DEF EndOf
  <2>4. /\ wait_end \in Waiting /\ \A s \in Waiting : s = wait_end \/ Less(s, wait_end)
    BY <2>3, EndIsHighest DEF Waiting
  <2>5. Less(sent, wait_end)
    BY <1>2, <2>4 DEF Comparable
  <2>6. EndOf(wait_list') = wait_end
    BY <2>2, <2>4, <2>5, HighestIsEnd
  <2>7. Len(wait_list') # 1
    <3>1. Range(wait_list') = {wait_list'[i] : i \in 1 .. Len(wait_list')}
      BY <2>2, RangeIs
    <3>2. wait_end # sent
      BY <2>4
    <3> QED
      BY <2>2, <2>4, <3>1, <3>2
  <2> QED
    BY <2>1, <2>2, <2>6, <2>7
<1> QED
  BY <1>1, <1>2

\* A segment that goes out in a buffer: sent, and rest if it is cut
CutInto(seg, sent, rest, cut) ==
    /\ sent \in Segment /\ Fits(sent)
    /\ sent.sdu = seg.sdu /\ sent.sn = seg.sn /\ sent.so = seg.so
    /\ IF cut
       THEN /\ rest \in Segment /\ Fits(rest)
            /\ rest.sdu = seg.sdu /\ rest.sn = seg.sn /\ rest.last = seg.last
            /\ rest.so = sent.so + sent.size
            /\ rest.so + rest.size = seg.so + seg.size
       ELSE sent = seg

\* resegment: the two parts are the segment.
LEMMA ResegmentIs ==
    ASSUME NEW seg \in Segment, Fits(seg), NEW size \in Nat, HeaderSize(seg.so) + 1 <= size
    PROVE  CutInto(seg, IF Cut(seg, size) THEN FrontPart(seg, size) ELSE seg,
                   BackPart(seg, size), Cut(seg, size))
<1>1. HeaderSize(seg.so) \in Nat /\ seg.so \in Nat /\ seg.size \in Nat \ {0}
  BY PduAssumption DEF HeaderSize, Segment
<1>2. CASE ~Cut(seg, size)
  BY <1>2 DEF CutInto
<1>3. CASE Cut(seg, size)
  <2> DEFINE front == size - HeaderSize(seg.so)
             sent  == FrontPart(seg, size)
             rest  == BackPart(seg, size)
  <2>1. front \in Nat \ {0} /\ seg.size - front \in Nat \ {0}
    BY <1>1, <1>3 DEF Cut, PduSize
  <2>2. SduSize[seg.sdu] \in Nat
    BY TxAssumption DEF Segment, AllSdus
  <2>3. /\ sent = [seg EXCEPT !.size = front, !.last = FALSE]
        /\ rest = [seg EXCEPT !.so = seg.so + front, !.size = seg.size - front]
    BY DEF FrontPart, BackPart
  <2> HIDE DEF front, sent, rest
  <2>4. /\ sent \in Segment /\ sent.sdu = seg.sdu /\ sent.sn = seg.sn /\ sent.so = seg.so
        /\ sent.size = front /\ sent.last = FALSE
    BY <2>1, <2>3 DEF Segment
  <2>5. /\ rest \in Segment /\ rest.sdu = seg.sdu /\ rest.sn = seg.sn /\ rest.last = seg.last
        /\ rest.so = seg.so + front /\ rest.size = seg.size - front
    <3>1. seg.so + front \in Nat
      BY <1>1, <2>1
    <3> QED
      BY <2>1, <2>3, <3>1 DEF Segment
  <2>6. Fits(sent)
    BY <1>1, <2>1, <2>2, <2>4 DEF Fits
  <2>7. Fits(rest)
    BY <1>1, <2>1, <2>2, <2>5 DEF Fits
  <2> QED
    BY <1>1, <1>3, <2>1, <2>4, <2>5, <2>6, <2>7 DEF CutInto, sent, rest
<1> QED
  BY <1>2, <1>3

\* A part of a segment keeps apart from the others.
LEMMA CutApart ==
    ASSUME NEW seg \in Segment, NEW sent, NEW rest, NEW cut \in BOOLEAN,
           CutInto(seg, sent, rest, cut),
           NEW t \in Segment, Apart(seg, t)
    PROVE  /\ Apart(sent, t) /\ Apart(t, sent) /\ sent # t
           /\ cut => /\ Apart(rest, t) /\ Apart(t, rest) /\ rest # t
                     /\ Apart(sent, rest) /\ Apart(rest, sent) /\ sent # rest
<1>1. /\ seg.so \in Nat /\ seg.size \in Nat \ {0}
      /\ sent.so \in Nat /\ sent.size \in Nat \ {0}
      /\ t.so \in Nat /\ t.size \in Nat \ {0}
  BY DEF CutInto, Segment
<1>2. CASE cut
  <2>1. rest.so \in Nat /\ rest.size \in Nat \ {0}
    BY <1>2 DEF CutInto, Segment
  <2> QED
    BY <1>1, <1>2, <2>1 DEF CutInto, Apart
<1>3. CASE ~cut
  BY <1>1, <1>3 DEF CutInto, Apart
<1> QED
  BY <1>2, <1>3

\* The parts have the bytes of the segment.
LEMMA CutBytes ==
    ASSUME NEW seg \in Segment, NEW sent, NEW rest, NEW cut \in BOOLEAN,
           CutInto(seg, sent, rest, cut)
    PROVE  /\ \A b \in SegBytes(seg) : b \in SegBytes(sent) \/ (cut /\ b \in SegBytes(rest))
           /\ \A b \in SegBytes(sent) : b \in SegBytes(seg)
           /\ cut => \A b \in SegBytes(rest) : b \in SegBytes(seg)
<1>1. /\ seg.so \in Nat /\ seg.size \in Nat \ {0}
      /\ sent.so \in Nat /\ sent.size \in Nat \ {0}
  BY DEF CutInto, Segment
<1>2. CASE cut
  <2>1. rest.so \in Nat /\ rest.size \in Nat \ {0}
    BY <1>2 DEF CutInto, Segment
  <2> QED
    BY <1>1, <1>2, <2>1 DEF CutInto, SegBytes, LastByte
<1>3. CASE ~cut
  BY <1>1, <1>3 DEF CutInto
<1> QED
  BY <1>2, <1>3

\* Cutting a segment makes one more.
LEMMA CutCount ==
    ASSUME NEW S \in SUBSET Segment, IsFiniteSet(S), NEW head \in S,
           NEW sent, sent.sdu = head.sdu, sent \notin S \ {head}, NEW id,
           NEW one, one = (S \ {head}) \cup {sent}, NEW rest
    PROVE  /\ IsFiniteSet(Of(S, id)) /\ Cardinality(Of(S, id)) \in Nat
           /\ Cardinality(Of(one, id)) = Cardinality(Of(S, id))
           /\ rest.sdu = head.sdu /\ rest \notin one =>
                 Cardinality(Of(one \cup {rest}, id)) =
                    Cardinality(Of(S, id)) + IF id = head.sdu THEN 1 ELSE 0
<1> DEFINE T == Of(S, id)
           V == Of(one, id)
<1>1. IsFiniteSet(T) /\ Cardinality(T) \in Nat
  <2>1. T \subseteq S
    BY DEF Of
  <2> QED
    BY <2>1, FS_Subset, FS_CardinalityType
<1>2. IsFiniteSet(V) /\ Cardinality(V) = Cardinality(T)
  <2>1. CASE id # head.sdu
    <3>1. V = T
      BY <2>1 DEF Of
    <3> QED
      BY <1>1, <3>1
  <2>2. CASE id = head.sdu
    <3>1. head \in T /\ V = (T \ {head}) \cup {sent} /\ sent \notin T \ {head}
      BY <2>2 DEF Of
    <3> HIDE DEF T, V
    <3>2. IsFiniteSet(T \ {head}) /\ Cardinality(T \ {head}) = Cardinality(T) - 1
      BY <1>1, <3>1, FS_RemoveElement
    <3> DEFINE U == T \ {head}
    <3>3. IsFiniteSet(U) /\ Cardinality(U) = Cardinality(T) - 1 /\ sent \notin U
      BY <3>1, <3>2
    <3> HIDE DEF U
    <3>4. IsFiniteSet(U \cup {sent}) /\ Cardinality(U \cup {sent}) = Cardinality(U) + 1
      BY <3>3, FS_AddElement
    <3> QED
      BY <1>1, <3>1, <3>3, <3>4 DEF U
  <2> QED
    BY <2>1, <2>2
<1>3. ASSUME rest.sdu = head.sdu, rest \notin one
      PROVE  Cardinality(Of(one \cup {rest}, id)) =
                Cardinality(T) + IF id = head.sdu THEN 1 ELSE 0
  <2>1. CASE id # head.sdu
    <3>1. Of(one \cup {rest}, id) = V
      BY <1>3, <2>1 DEF Of
    <3> QED
      BY <1>1, <1>2, <2>1, <3>1
  <2>2. CASE id = head.sdu
    <3>1. Of(one \cup {rest}, id) = V \cup {rest} /\ rest \notin V
      BY <1>3, <2>2 DEF Of
    <3> HIDE DEF V
    <3>2. Cardinality(V \cup {rest}) = Cardinality(V) + 1
      BY <1>2, <3>1, FS_AddElement
    <3> QED
      BY <1>1, <1>2, <2>2, <3>1, <3>2
  <2> QED
    BY <2>1, <2>2
<1> QED
  BY <1>1, <1>2, <1>3

LEMMA EmitIs ==
    ASSUME NEW seg \in Segment, seg.sn \in SN, Fits(seg), NEW poll \in BOOLEAN, NEW pdus, NEW bytes,
           Emit(seg, poll, pdus, bytes), data_air \subseteq Pdus, tx_next' \in SN, poll_sn \in SN
    PROVE  /\ data_air' \subseteq Pdus
           /\ poll_sn' \in SN
           /\ \A d \in data_air' :
                 \/ d \in data_air /\ d.sdu + WindowSize > last_sent'
                 \/ d.sn = seg.sn /\ d.sdu = seg.sdu /\ Fits(d)
<1> DEFINE pdu == [sn |-> seg.sn, so |-> seg.so, size |-> seg.size,
                   last |-> seg.last, sdu |-> seg.sdu, p |-> poll]
<1>1. data_air' = {d \in data_air : d.sdu + WindowSize > last_sent'} \cup {pdu}
  BY DEF Emit
<1>2. pdu \in Pdus
  <2>1. /\ seg.sdu \in AllSdus /\ seg.so \in Nat /\ seg.size \in Nat \ {0}
        /\ seg.last \in BOOLEAN /\ SduSize[seg.sdu] \in Nat
    BY TxAssumption DEF Segment, AllSdus
  <2>2. /\ seg.so \in 0 .. SduSize[seg.sdu] - 1
        /\ seg.size \in 1 .. SduSize[seg.sdu] - seg.so
        /\ seg.last = (seg.so + seg.size = SduSize[seg.sdu])
    BY <2>1 DEF Fits
  <2>3. \A so \in 0 .. SduSize[seg.sdu] - 1 : \A size \in 1 .. SduSize[seg.sdu] - so :
           [sn |-> seg.sn, so |-> so, size |-> size, last |-> so + size = SduSize[seg.sdu],
            sdu |-> seg.sdu, p |-> poll] \in Pdus
    BY <2>1, LinkAssumption, Zenon
  <2>4. [sn |-> seg.sn, so |-> seg.so, size |-> seg.size,
         last |-> seg.so + seg.size = SduSize[seg.sdu],
         sdu |-> seg.sdu, p |-> poll] \in Pdus
    BY <2>2, <2>3, Zenon
  <2> QED
    BY <2>2, <2>4, Zenon
<1>3. pdu.sn = seg.sn /\ pdu.sdu = seg.sdu /\ Fits(pdu)
  BY DEF Fits
<1>4. poll_sn' \in SN
  <2>1. poll_sn' = SnPrev(tx_next') \/ poll_sn' = poll_sn
    BY Zenon DEF Emit
  <2>2. \A sn \in SN : SnPrev(sn) \in SN
    BY SnAssumption DEF SnPrev, SnWrap, SN
  <2> QED
    BY <2>1, <2>2
<1> QED
  BY <1>1, <1>2, <1>3, <1>4

-----------------------------------------------------------------------------
(* What a step leaves as it was *)

\* No SN is given away: what is numbered, in flight or received carries the
\* numbers it carried before.
LEMMA SnKept ==
    ASSUME SnInv, tx_next' = tx_next, last_sent' = last_sent, poll_sn' \in SN,
           tx_next_ack' \in SN, Modulus(tx_next_ack', tx_next) <= WindowSize,
           \A x \in Seen' : /\ Fits(x) /\ x.sdu \notin dropped'
                            /\ \E y \in Seen : y.sn = x.sn /\ y.sdu = x.sdu
    PROVE  SnInv'
<1> DEFINE old == Seen
           new == Seen'
<1>1. \A sn : Age(sn)' = Age(sn)
  BY DEF Age
<1>2. \A x \in old :
          /\ x.sn \in SN /\ x.sdu \in AllSdus
          /\ 1 <= Age(x.sn) /\ Age(x.sn) <= WindowSize
          /\ x.sdu + Age(x.sn) <= last_sent + 1
  BY DEF SnInv
<1>3. \A x, y \in old : x.sdu < y.sdu <=> Age(y.sn) < Age(x.sn)
  BY DEF SnInv
<1>4. \A x \in new : \E y \in old : y.sn = x.sn /\ y.sdu = x.sdu
  OBVIOUS
<1>5. \A x \in new :
          /\ x.sn \in SN /\ x.sdu \in AllSdus
          /\ 1 <= Age(x.sn) /\ Age(x.sn) <= WindowSize
          /\ x.sdu + Age(x.sn) <= last_sent + 1
          /\ x.sdu \notin dropped'
          /\ Fits(x)
  BY <1>2, <1>4
<1>6. \A x, y \in new : x.sdu < y.sdu <=> Age(y.sn) < Age(x.sn)
  BY <1>3, <1>4
<1>7. tx_next \in SN /\ (Age(tx_next_ack) <= WindowSize)'
  BY DEF SnInv, Age
<1> HIDE DEF old, new
<1>8. /\ \A x \in new :
          /\ x.sn \in SN /\ x.sdu \in AllSdus
          /\ 1 <= Age(x.sn)' /\ Age(x.sn)' <= WindowSize
          /\ x.sdu + Age(x.sn)' <= last_sent' + 1
          /\ x.sdu \notin dropped'
          /\ Fits(x)
      /\ \A x, y \in new : x.sdu < y.sdu <=> Age(y.sn)' < Age(x.sn)'
  BY <1>1, <1>5, <1>6
<1> QED
  BY <1>7, <1>8 DEF SnInv, new

\* The receiver is not involved.
LEMMA ReceiverKept ==
    ASSUME ReceiverInv, tx_next' = tx_next,
           UNCHANGED <<rx_list, rx_next, rx_next_highest, delivered, garbled>>,
           data_air' \subseteq Pdus,
           \A x \in Seen' : \E y \in Seen : y.sn = x.sn /\ y.sdu = x.sdu,
           Age(rx_next) <= Modulus(tx_next_ack', tx_next),
           \A s \in Numbered : Age(s.sn) <= Age(rx_next) =>
              SduDelivered(rx_list, s.sn) \/ \E t \in Numbered' : t.sn = s.sn,
           NoByteLost'
    PROVE  ReceiverInv'
<1>1. \A sn : Age(sn)' = Age(sn)
  BY DEF Age
<1>2. (Age(rx_next) <= Age(tx_next_ack))' /\ (RxOffset(rx_next_highest) <= Age(rx_next))'
  BY DEF Age, RxOffset, ReceiverInv
<1>3. \A x \in Seen' : /\ Age(rx_next) < Age(x.sn) => delivered[x.sdu] = 1
                       /\ Age(x.sn) <= Age(rx_next) /\ delivered[x.sdu] = 1
                             => SduDelivered(rx_list, x.sn)
  BY DEF ReceiverInv
<1>4. \A x \in Seen' : /\ Age(rx_next)' < Age(x.sn)' => delivered'[x.sdu] = 1
                       /\ Age(x.sn)' <= Age(rx_next)' /\ delivered'[x.sdu] = 1
                             => SduDelivered(rx_list', x.sn)
  BY <1>3 DEF Age
<1>5. \A sn \in SN : 1 <= Age(sn) /\ Age(sn) <= Age(rx_next) =>
          SduDelivered(rx_list, sn) \/ \E s \in Numbered' : s.sn = sn
  BY DEF ReceiverInv
<1>6. \A sn \in SN : 1 <= Age(sn)' /\ Age(sn)' <= Age(rx_next)' =>
          SduDelivered(rx_list', sn) \/ \E s \in Numbered' : s.sn = sn
  BY <1>5 DEF Age
<1>7. /\ \A sn \in SN : ~SduFull(rx_list', sn)
      /\ \A l \in rx_list' : ~l.data => delivered'[l.sdu] = 1
      /\ NothingGarbled'
  BY DEF ReceiverInv, NothingGarbled
<1> QED
  BY <1>2, <1>4, <1>6, <1>7 DEF ReceiverInv

\* The reports in flight: nothing they were silent about was taken back.
LEMMA ReportsKept ==
    ASSUME ReportInv, tx_next' = tx_next, last_sent' = last_sent,
           status_air' \subseteq status_air,
           \A s \in Numbered' : \A b \in SegBytes(s) :
              \E t \in Numbered : t.sn = s.sn /\ t.sdu = s.sdu /\ b \in SegBytes(t),
           \A id \in AllSdus : \A b : HasReceived(id, b) => HasReceived(id, b)',
           Numbered \subseteq Segment
    PROVE  ReportInv'
<1>1. \A sn : Age(sn)' = Age(sn)
  BY DEF Age
<1>2. ASSUME NEW r \in status_air'
      PROVE  Honest(r.report)'
  <2>1. Honest(r.report)
    BY DEF ReportInv
  <2>2. \A s \in Numbered' : \A b \in SegBytes(s) :
           Age(r.report.ack_sn) < Age(s.sn) /\ ~Nacks(r.report, s.sn, b, b)
              => HasReceived(s.sdu, b)
    BY <2>1 DEF Honest
  <2>3. \A s \in Numbered' : s.sdu \in AllSdus \/ SegBytes(s) = {}
    BY DEF Segment
  <2>4. \A s \in Numbered' : \A b \in SegBytes(s) :
           Age(r.report.ack_sn)' < Age(s.sn)' /\ ~Nacks(r.report, s.sn, b, b)
              => HasReceived(s.sdu, b)'
    BY <1>1, <2>2, <2>3
  <2> QED
    BY <2>4 DEF Honest
<1>3. \A r \in status_air' :
        /\ r.report.ack_sn \in SN
        /\ r.born \in Nat /\ r.born <= last_sent /\ last_sent < r.born + WindowSize
        /\ Age(r.report.ack_sn) <= WindowSize + last_sent - r.born
        /\ NackedParts(r.report.nacks, r.report.ack_sn) = {}
        /\ \A sn \in SN : \A part \in NackedParts(r.report.nacks, sn) :
              part.so_start \in Int /\ part.so_end \in Int
  BY DEF ReportInv
<1>4. \A r \in status_air' :
        /\ r.report.ack_sn \in SN
        /\ r.born \in Nat /\ r.born <= last_sent' /\ last_sent' < r.born + WindowSize
        /\ Age(r.report.ack_sn)' <= WindowSize + last_sent' - r.born
  BY <1>1, <1>3
<1> QED
  BY <1>2, <1>3, <1>4 DEF ReportInv

-----------------------------------------------------------------------------
(* MAC pulls a data PDU *)

\* The segment head goes out, with its SN as seg: sent, and rest if it is cut.
Sends(head, seg, sent, rest, cut) ==
    /\ head \in Segments /\ cut \in BOOLEAN
    /\ seg \in Segment /\ seg.sdu = head.sdu /\ seg.so = head.so /\ seg.size = head.size
    /\ CutInto(seg, sent, rest, cut)
    /\ Segments' = (Segments \ {head}) \cup {sent} \cup (IF cut THEN {rest} ELSE {})

LEMMA SegmentsType ==
    ASSUME ListInv
    PROVE  /\ Segments \subseteq Segment /\ IsFiniteSet(Segments)
           /\ Segments = Unsent \cup Waiting \cup Again
           /\ IsFiniteSet(Unsent) /\ IsFiniteSet(Waiting) /\ IsFiniteSet(Again)
<1>1. /\ Unsent \subseteq Segment /\ IsFiniteSet(Unsent)
      /\ Waiting \subseteq Segment /\ IsFiniteSet(Waiting)
      /\ Again \subseteq Segment /\ IsFiniteSet(Again)
  BY RangeFinite DEF ListInv, Unsent, Waiting, Again
<1>2. Segments = (Unsent \cup Waiting) \cup Again
  BY DEF Segments, Unsent, Waiting, Again
<1>3. IsFiniteSet((Unsent \cup Waiting) \cup Again)
  BY <1>1, FS_Union
<1> QED
  BY <1>1, <1>2, <1>3

LEMMA SendingParts ==
    ASSUME ListInv, SegmentInv, offered' = offered,
           NEW head, NEW seg, NEW sent, NEW rest, NEW cut, Sends(head, seg, sent, rest, cut)
    PROVE  /\ \A s \in Segments' : Fits(s) /\ s.sdu <= offered'
           /\ \A s, t \in Segments' : s = t \/ Apart(s, t)
           /\ sent \notin Segments \ {head}
           /\ cut => rest \notin Segments \ {head} /\ rest # sent
           /\ {s.sdu : s \in Segments'} = {s.sdu : s \in Segments}
           /\ \A id : /\ Cardinality(Of(Segments, id)) \in Nat
                      /\ Cardinality(Of(Segments', id)) =
                            Cardinality(Of(Segments, id)) + IF cut /\ id = head.sdu THEN 1 ELSE 0
           /\ \A s \in Segments : \A b \in SegBytes(s) :
                 \E t \in Segments' : t.sdu = s.sdu /\ b \in SegBytes(t)
<1> DEFINE Others == Segments \ {head}
           R == IF cut THEN {rest} ELSE {}
<1>1. Segments \subseteq Segment /\ IsFiniteSet(Segments)
  BY SegmentsType
<1>2. /\ head \in Segments /\ cut \in BOOLEAN /\ seg \in Segment
      /\ seg.sdu = head.sdu /\ seg.so = head.so /\ seg.size = head.size
      /\ CutInto(seg, sent, rest, cut)
      /\ Segments' = Others \cup {sent} \cup R
  BY DEF Sends
<1>3. /\ sent.sdu = head.sdu /\ Fits(sent)
      /\ cut => rest.sdu = head.sdu /\ Fits(rest)
  BY <1>2 DEF CutInto
<1>4. ASSUME NEW t \in Others
      PROVE  /\ Apart(sent, t) /\ Apart(t, sent) /\ sent # t
             /\ cut => /\ Apart(rest, t) /\ Apart(t, rest) /\ rest # t
                       /\ Apart(sent, rest) /\ Apart(rest, sent) /\ sent # rest
  <2>1. Apart(head, t)
    BY <1>2, <1>4 DEF SegmentInv
  <2>2. Apart(seg, t) /\ t \in Segment
    BY <1>1, <1>2, <2>1 DEF Apart
  <2> QED
    BY <1>2, <2>2, CutApart
<1>5. cut => Apart(sent, rest) /\ Apart(rest, sent) /\ sent # rest
  <2>1. ASSUME cut
        PROVE  Apart(sent, rest) /\ Apart(rest, sent) /\ sent # rest
    <3>1. sent \in Segment /\ rest \in Segment /\ sent.so \in Nat /\ sent.size \in Nat \ {0}
      BY <1>2, <2>1 DEF CutInto, Segment
    <3>2. rest.so = sent.so + sent.size /\ rest.so \in Nat /\ rest.size \in Nat \ {0}
      BY <1>2, <2>1 DEF CutInto, Segment
    <3> QED
      BY <3>1, <3>2 DEF Apart
  <2> QED
    BY <2>1
<1>6. \A s \in Segments' : Fits(s) /\ s.sdu <= offered'
  <2>1. \A s \in Segments : Fits(s) /\ s.sdu <= offered
    BY DEF SegmentInv
  <2> QED
    BY <1>2, <1>3, <2>1
<1>7. \A s, t \in Segments' : s = t \/ Apart(s, t)
  <2>1. \A s, t \in Others : s = t \/ Apart(s, t)
    BY DEF SegmentInv
  <2> HIDE DEF Others
  <2> QED
    BY <1>2, <1>4, <1>5, <2>1
<1>8. sent \notin Others /\ (cut => rest \notin Others /\ rest # sent)
  BY <1>4, <1>5
<1>9. {s.sdu : s \in Segments'} = {s.sdu : s \in Segments}
  BY <1>2, <1>3
<1>10. \A id : /\ Cardinality(Of(Segments, id)) \in Nat
               /\ Cardinality(Of(Segments', id)) =
                     Cardinality(Of(Segments, id)) + IF cut /\ id = head.sdu THEN 1 ELSE 0
  <2> SUFFICES ASSUME NEW id
               PROVE  /\ Cardinality(Of(Segments, id)) \in Nat
                      /\ Cardinality(Of(Segments', id)) =
                            Cardinality(Of(Segments, id)) + IF cut /\ id = head.sdu THEN 1 ELSE 0
    OBVIOUS
  <2> DEFINE S == Segments
             one == (S \ {head}) \cup {sent}
  <2>1. /\ S \in SUBSET Segment /\ IsFiniteSet(S) /\ head \in S
        /\ sent.sdu = head.sdu /\ sent \notin S \ {head}
    BY <1>1, <1>2, <1>3, <1>8
  <2>2. /\ ~cut => Segments' = one
        /\ cut => Segments' = one \cup {rest} /\ rest.sdu = head.sdu /\ rest \notin one
    BY <1>2, <1>3, <1>8
  <2>3. one = (S \ {head}) \cup {sent}
    OBVIOUS
  <2> HIDE DEF S, one
  <2>4. /\ Cardinality(Of(S, id)) \in Nat
        /\ Cardinality(Of(one, id)) = Cardinality(Of(S, id))
        /\ rest.sdu = head.sdu /\ rest \notin one =>
              Cardinality(Of(one \cup {rest}, id)) =
                 Cardinality(Of(S, id)) + IF id = head.sdu THEN 1 ELSE 0
    BY <2>1, <2>3, CutCount
  <2>5. CASE cut
    BY <2>2, <2>4, <2>5 DEF S
  <2>6. CASE ~cut
    BY <2>2, <2>4, <2>6 DEF S
  <2> QED
    BY <2>5, <2>6
<1>11. ASSUME NEW s \in Segments, NEW b \in SegBytes(s)
       PROVE  \E t \in Segments' : t.sdu = s.sdu /\ b \in SegBytes(t)
  <2>1. CASE s # head
    BY <1>2, <2>1
  <2>2. CASE s = head
    <3>1. b \in SegBytes(seg)
      BY <1>2, <2>2 DEF SegBytes, LastByte
    <3>2. b \in SegBytes(sent) \/ (cut /\ b \in SegBytes(rest))
      BY <1>2, <3>1, CutBytes
    <3> QED
      BY <1>2, <1>3, <2>2, <3>2
  <2> QED
    BY <2>1, <2>2
<1> QED
  BY <1>6, <1>7, <1>8, <1>9, <1>10, <1>11

\* No byte is lost by it, and the counters follow.
LEMMA SendingKeeps ==
    ASSUME ListInv, SegmentInv, AccountInv, NoByteLost,
           NEW head, NEW seg, NEW sent, NEW rest, NEW cut, Sends(head, seg, sent, rest, cut),
           sdu' = IF cut THEN [sdu EXCEPT ![seg.sdu].ref_count = @ + 1] ELSE sdu,
           UNCHANGED <<offered, dropped, tx_size, delivered, rx_list>>
    PROVE  /\ NoByteLost'
           /\ DOMAIN sdu' = DOMAIN sdu
           /\ sdu' \in [DOMAIN sdu' -> Counters]
           /\ DOMAIN sdu' = {s.sdu : s \in Segments'}
           /\ \A id \in DOMAIN sdu' :
                 sdu'[id].ref_count - sdu'[id].free_count = Cardinality(Of(Segments', id))
           /\ tx_size' = SumFunctionOnSet(SduSize, DOMAIN sdu')
<1>1. /\ {s.sdu : s \in Segments'} = {s.sdu : s \in Segments}
      /\ \A id : /\ Cardinality(Of(Segments, id)) \in Nat
                 /\ Cardinality(Of(Segments', id)) =
                       Cardinality(Of(Segments, id)) + IF cut /\ id = head.sdu THEN 1 ELSE 0
      /\ \A s \in Segments : \A b \in SegBytes(s) :
            \E t \in Segments' : t.sdu = s.sdu /\ b \in SegBytes(t)
  BY SendingParts
<1>2. seg.sdu = head.sdu /\ head.sdu \in DOMAIN sdu /\ cut \in BOOLEAN
  BY DEF Sends, AccountInv
<1>3. /\ sdu \in [DOMAIN sdu -> Counters]
      /\ DOMAIN sdu = {s.sdu : s \in Segments}
      /\ \A id \in DOMAIN sdu :
            sdu[id].ref_count - sdu[id].free_count = Cardinality(Of(Segments, id))
      /\ tx_size = SumFunctionOnSet(SduSize, DOMAIN sdu)
  BY DEF AccountInv
<1>4. NoByteLost'
  <2> SUFFICES ASSUME NEW id \in (1 .. offered) \ dropped, NEW b \in 0 .. SduSize[id] - 1
               PROVE  \/ \E t \in Segments' : t.sdu = id /\ b \in SegBytes(t)
                      \/ HasReceived(id, b)'
    BY DEF NoByteLost
  <2>1. \/ \E s \in Segments : s.sdu = id /\ b \in SegBytes(s)
        \/ HasReceived(id, b)
    BY DEF NoByteLost
  <2>2. HasReceived(id, b) => HasReceived(id, b)'
    BY DEF HasReceived
  <2> QED
    BY <1>1, <2>1, <2>2
<1>5. /\ DOMAIN sdu' = DOMAIN sdu
      /\ sdu' \in [DOMAIN sdu' -> Counters]
      /\ \A id \in DOMAIN sdu :
            /\ sdu'[id].free_count = sdu[id].free_count
            /\ sdu'[id].ref_count = sdu[id].ref_count + IF cut /\ id = head.sdu THEN 1 ELSE 0
  <2>1. CASE ~cut
    <3>1. \A id \in DOMAIN sdu : sdu[id].ref_count \in Int
      BY <1>3 DEF Counters
    <3> QED
      BY <1>3, <2>1, <3>1
  <2>2. CASE cut
    <3> DEFINE h == head.sdu
    <3>1. sdu' = [sdu EXCEPT ![h] = [sdu[h] EXCEPT !.ref_count = sdu[h].ref_count + 1]]
      BY <1>2, <2>2
    <3>2. sdu[h] \in Counters /\ h \in DOMAIN sdu
      BY <1>2, <1>3
    <3> HIDE DEF h
    <3> DEFINE c == [sdu[h] EXCEPT !.ref_count = sdu[h].ref_count + 1]
    <3>3. c \in Counters /\ c.free_count = sdu[h].free_count /\ c.ref_count = sdu[h].ref_count + 1
      BY <3>2 DEF Counters
    <3> HIDE DEF c
    <3>4. sdu' = [sdu EXCEPT ![h] = c]
      BY <3>1 DEF c
    <3>5. \A id \in DOMAIN sdu : sdu[id] \in Counters /\ sdu[id].ref_count \in Int
      BY <1>3 DEF Counters
    <3> QED
      BY <1>3, <2>2, <3>2, <3>3, <3>4, <3>5 DEF h
  <2> QED
    BY <1>2, <2>1, <2>2
<1>6. ASSUME NEW id \in DOMAIN sdu
      PROVE  sdu'[id].ref_count - sdu'[id].free_count = Cardinality(Of(Segments', id))
  <2>1. /\ sdu[id].ref_count \in Int /\ sdu[id].free_count \in Int
        /\ sdu[id].ref_count - sdu[id].free_count = Cardinality(Of(Segments, id))
    BY <1>3 DEF Counters
  <2>2. Cardinality(Of(Segments', id)) =
           Cardinality(Of(Segments, id)) + IF cut /\ id = head.sdu THEN 1 ELSE 0
    BY <1>1
  <2>3. CASE cut /\ id = head.sdu
    <3>1. Cardinality(Of(Segments', id)) = Cardinality(Of(Segments, id)) + 1
      BY <2>2, <2>3
    <3> QED
      BY <1>5, <2>1, <2>3, <3>1
  <2>4. CASE ~(cut /\ id = head.sdu)
    <3>1. Cardinality(Of(Segments', id)) = Cardinality(Of(Segments, id)) + 0
      BY <2>2, <2>4
    <3> QED
      BY <1>5, <2>1, <2>4, <3>1
  <2> QED
    BY <2>3, <2>4
<1> QED
  BY <1>1, <1>3, <1>4, <1>5, <1>6

LEMMA CutLess ==
    ASSUME NEW seg \in Segment, NEW sent, NEW rest, NEW cut \in BOOLEAN,
           CutInto(seg, sent, rest, cut), NEW t \in Segment, Less(seg, t), Apart(seg, t)
    PROVE  cut => Less(rest, t)
<1> SUFFICES ASSUME cut
             PROVE  Less(rest, t)
  OBVIOUS
<1>1. /\ seg.so \in Nat /\ seg.size \in Nat \ {0}
      /\ sent.so \in Nat /\ sent.size \in Nat \ {0}
      /\ rest.so \in Nat /\ rest.size \in Nat \ {0}
      /\ t.so \in Nat /\ t.size \in Nat \ {0}
  BY DEF CutInto, Segment
<1> QED
  BY <1>1 DEF CutInto, Less, Apart

\* A segment that has an SN goes to the wait list.
LEMMA SentIsMoved ==
    ASSUME ListInv, SegmentInv, SnInv, TxNextAckIsSmallestUnacked,
           NEW head \in Numbered, head \notin Waiting,
           NEW sent, NEW rest, NEW cut \in BOOLEAN, CutInto(head, sent, rest, cut),
           MoveToWait(sent)
    PROVE  /\ wait_list' \in Seq(Segment) /\ Sorted(wait_list')
           /\ Waiting' = Waiting \cup {sent}
           /\ wait_end' = EndOf(wait_list')
<1>1. /\ Numbered \subseteq Segment /\ Waiting \subseteq Numbered /\ head \in Segment
  BY NumberedComparable
<1>2. sent \in Segment /\ sent.sn = head.sn /\ sent.sdu = head.sdu
  BY DEF CutInto
<1>3. \A t \in Waiting : Apart(sent, t) /\ Apart(t, sent) /\ sent # t
  <2> SUFFICES ASSUME NEW t \in Waiting
               PROVE  Apart(sent, t) /\ Apart(t, sent) /\ sent # t
    OBVIOUS
  <2>1. Apart(head, t) /\ t \in Segment
    BY <1>1 DEF SegmentInv, Numbered
  <2> QED
    BY <1>1, <2>1, CutApart
<1> DEFINE X == Waiting \cup {sent}
<1>4. X \in SUBSET Segment
  BY <1>1, <1>2
<1>5. \A x \in X : \E y \in Numbered : y.sn = x.sn /\ y.sdu = x.sdu
  BY <1>1, <1>2
<1>6. \A x \in X : x.sn \in SN /\ Age(x.sn) <= Age(tx_next_ack)
  BY <1>5, NumberedAge
<1>7. \A x, y \in X : x.sdu < y.sdu <=> Age(y.sn) < Age(x.sn)
  BY <1>5 DEF SnInv, Seen
<1>8. \A x, y \in X : x = y \/ Apart(x, y)
  BY <1>1, <1>3 DEF SegmentInv, Numbered
<1>9. Comparable(X)
  BY <1>4, <1>6, <1>7, <1>8, RankedComparable DEF SnInv
<1>10. /\ wait_list \in Seq(Segment) /\ Sorted(wait_list) /\ wait_end = EndOf(wait_list)
       /\ sent \notin Waiting
  BY <1>3 DEF ListInv
<1> QED
  BY <1>2, <1>9, <1>10, MoveToWaitIs DEF Waiting

\* A PDU with a segment that has an SN goes out.
SendsNumbered(head, sent, rest, cut) ==
    /\ head \in Numbered /\ Sends(head, head, sent, rest, cut)
    /\ data_air' \subseteq Pdus
    /\ \A d \in data_air' :
          d \in data_air \/ (d.sn = head.sn /\ d.sdu = head.sdu /\ Fits(d))
    /\ poll_sn' \in SN
    /\ status_air' \subseteq status_air
    /\ UNCHANGED <<tx_next, tx_next_ack, last_sent, offered, dropped,
                   rx_list, rx_next, rx_next_highest, delivered, garbled>>

LEMMA NumberedSent ==
    ASSUME ListInv, SegmentInv, SnInv, ReceiverInv, ReportInv, FateInv, NoByteLost',
           NEW head, NEW sent, NEW rest, NEW cut, SendsNumbered(head, sent, rest, cut)
    PROVE  SnInv' /\ ReceiverInv' /\ ReportInv'
<1>1. /\ head \in Numbered /\ head \in Segments /\ cut \in BOOLEAN /\ head \in Segment
      /\ CutInto(head, sent, rest, cut)
      /\ Segments' = (Segments \ {head}) \cup {sent} \cup (IF cut THEN {rest} ELSE {})
  BY DEF SendsNumbered, Sends
<1>2. /\ sent.sdu = head.sdu /\ sent.sn = head.sn /\ Fits(sent)
      /\ cut => rest.sdu = head.sdu /\ rest.sn = head.sn /\ Fits(rest)
  BY <1>1 DEF CutInto
<1>3. /\ \A s \in Numbered' : s \in Numbered \/ s = sent \/ (cut /\ s = rest)
      /\ \A s \in Numbered : s = head \/ s \in Numbered'
      /\ sent \in Numbered'
  BY <1>1, <1>2 DEF Numbered
<1>4. \A x \in Seen' :
         \/ x \in Seen
         \/ x.sn = head.sn /\ x.sdu = head.sdu /\ Fits(x)
  BY <1>2, <1>3 DEF Seen, SendsNumbered
<1>5. head \in Seen
  BY <1>1 DEF Seen
<1>6. \A x \in Seen' : \E y \in Seen : y.sn = x.sn /\ y.sdu = x.sdu
  BY <1>4, <1>5
<1>7. \A x \in Seen : Fits(x) /\ x.sdu \notin dropped
  BY DEF SnInv
<1>8. /\ tx_next' = tx_next /\ last_sent' = last_sent /\ tx_next_ack' = tx_next_ack
      /\ dropped' = dropped /\ poll_sn' \in SN /\ status_air' \subseteq status_air
      /\ data_air' \subseteq Pdus
      /\ UNCHANGED <<rx_list, rx_next, rx_next_highest, delivered, garbled>>
  BY DEF SendsNumbered
<1>9. tx_next_ack' \in SN /\ Modulus(tx_next_ack', tx_next) <= WindowSize
  BY <1>8 DEF SnInv, Age
<1>10. SnInv'
  <2>1. \A x \in Seen' : /\ Fits(x) /\ x.sdu \notin dropped'
                         /\ \E y \in Seen : y.sn = x.sn /\ y.sdu = x.sdu
    BY <1>4, <1>5, <1>6, <1>7, <1>8
  <2> QED
    BY <1>8, <1>9, <2>1, SnKept
<1>11. ReceiverInv'
  <2>1. Age(rx_next) <= Modulus(tx_next_ack', tx_next)
    BY <1>8 DEF ReceiverInv, Age
  <2>2. \A s \in Numbered : Age(s.sn) <= Age(rx_next) =>
           SduDelivered(rx_list, s.sn) \/ \E t \in Numbered' : t.sn = s.sn
    BY <1>2, <1>3
  <2> QED
    BY <1>6, <1>8, <2>1, <2>2, ReceiverKept
<1>12. ReportInv'
  <2>1. \A s \in Numbered' : \A b \in SegBytes(s) :
           \E t \in Numbered : t.sn = s.sn /\ t.sdu = s.sdu /\ b \in SegBytes(t)
    <3>1. /\ \A b \in SegBytes(sent) : b \in SegBytes(head)
          /\ cut => \A b \in SegBytes(rest) : b \in SegBytes(head)
      BY <1>1, CutBytes
    <3> QED
      BY <1>1, <1>2, <1>3, <3>1
  <2>2. \A id \in AllSdus : \A b : HasReceived(id, b) => HasReceived(id, b)'
    BY <1>8 DEF HasReceived
  <2>3. Numbered \subseteq Segment
    BY SegmentsType DEF Numbered
  <2> QED
    BY <1>8, <2>1, <2>2, <2>3, ReportsKept
<1> QED
  BY <1>10, <1>11, <1>12

\* generate_retx_pdu
LEMMA RetransmissionKeeps ==
    ASSUME LinkInv, TxNextAckIsSmallestUnacked, NEW size \in Nat, GenerateRetxPdu(size),
           status_air' \subseteq status_air, UNCHANGED <<rxVars, delivered, garbled>>
    PROVE  /\ ListInv' /\ SegmentInv' /\ AccountInv' /\ FateInv'
           /\ SnInv' /\ ReceiverInv' /\ ReportInv'
           /\ TxNextAckIsSmallestUnacked'
<1> DEFINE head == Head(retransmit_list)
           cut  == Cut(head, size)
           sent == IF cut THEN FrontPart(head, size) ELSE head
           rest == BackPart(head, size)
           R    == IF cut THEN {rest} ELSE {}
           poll == \/ PollAfterAssembly(tx_list, retransmit_list', tx_next_ack, tx_next)
                   \/ force_poll
<1>1. /\ ListInv /\ SegmentInv /\ AccountInv /\ FateInv /\ SnInv /\ ReceiverInv /\ ReportInv
      /\ NoByteLost
  BY DEF LinkInv, ReceiverInv
<1>2. /\ retransmit_list # <<>> /\ HeaderSize(head.so) + 1 <= size
      /\ retransmit_list' = (IF cut THEN <<rest>> ELSE <<>>) \o Tail(retransmit_list)
      /\ sdu' = IF cut THEN [sdu EXCEPT ![head.sdu].ref_count = @ + 1] ELSE sdu
      /\ bstatus' = [bstatus EXCEPT !.retx_size =
                        @ - PduSize(head) + (IF cut THEN PduSize(rest) ELSE 0)]
      /\ MoveToWait(sent)
      /\ UNCHANGED <<tx_list, tx_end, tx_size, snVars, upperVars, crashed>>
      /\ Emit(sent, poll, pdu_without_poll, byte_without_poll)
  BY DEF GenerateRetxPdu, CanRetransmit
<1>3. /\ retransmit_list \in Seq(Segment) /\ Sorted(retransmit_list)
      /\ head \in Again
      /\ Tail(retransmit_list) \in Seq(Segment) /\ Sorted(Tail(retransmit_list))
      /\ Range(Tail(retransmit_list)) = Again \ {head}
      /\ \A s \in Again \ {head} : Less(head, s)
  BY <1>1, <1>2, TailSorted DEF ListInv, Again
<1>4. /\ head \in Numbered /\ head \in Segments /\ head \in Segment /\ Fits(head)
      /\ head.sn \in SN /\ head \notin Waiting /\ head \notin Unsent
      /\ Segments \subseteq Segment /\ Segments = Unsent \cup Waiting \cup Again
      /\ Again \subseteq Segment /\ IsFiniteSet(Again)
  <2>1. /\ Segments \subseteq Segment /\ Segments = Unsent \cup Waiting \cup Again
        /\ IsFiniteSet(Again)
    BY <1>1, SegmentsType
  <2>2. Waiting \cup Again \subseteq Numbered
    BY <1>1, NumberedComparable
  <2> QED
    BY <1>1, <1>3, <2>1, <2>2 DEF SegmentInv
<1>5. CutInto(head, sent, rest, cut) /\ cut \in BOOLEAN
  <2>1. CutInto(head, sent, rest, cut)
    BY <1>2, <1>4, ResegmentIs
  <2>2. cut \in BOOLEAN
    BY DEF Cut
  <2> QED
    BY <2>1, <2>2
<1> HIDE DEF head, cut, sent, rest
<1>6. /\ wait_list' \in Seq(Segment) /\ Sorted(wait_list')
      /\ Waiting' = Waiting \cup {sent} /\ wait_end' = EndOf(wait_list')
  BY <1>1, <1>2, <1>4, <1>5, SentIsMoved
<1>7. /\ retransmit_list' \in Seq(Segment) /\ Sorted(retransmit_list')
      /\ Again' = (Again \ {head}) \cup R
  <2> DEFINE tail == Tail(retransmit_list)
  <2>1. CASE cut
    <3>1. rest \in Segment /\ \A s \in Range(tail) : Less(rest, s)
      <4>1. \A s \in Again \ {head} : Apart(head, s) /\ s \in Segment
        BY <1>1, <1>4 DEF SegmentInv
      <4> QED
        BY <1>3, <1>4, <1>5, <2>1, <4>1, CutLess DEF CutInto
    <3>2. retransmit_list' = <<rest>> \o tail
      BY <1>2, <2>1
    <3> HIDE DEF tail
    <3>3. /\ retransmit_list' \in Seq(Segment) /\ Sorted(retransmit_list')
          /\ Range(retransmit_list') = Range(tail) \cup {rest}
      BY <1>3, <3>1, <3>2, PrependSorted DEF tail
    <3> QED
      BY <1>3, <2>1, <3>3 DEF Again, tail
  <2>2. CASE ~cut
    <3>1. retransmit_list' = tail
      BY <1>2, <1>3, <2>2
    <3> QED
      BY <1>3, <2>2, <3>1 DEF Again
  <2> QED
    BY <2>1, <2>2
<1>8. ListInv'
  <2>1. /\ tx_list \in Seq(Segment) /\ Sorted(tx_list) /\ tx_end = EndOf(tx_list)
    BY <1>1 DEF ListInv
  <2>2. /\ tx_list' \in Seq(Segment) /\ Sorted(tx_list') /\ tx_end' = EndOf(tx_list')
    BY <1>2, <2>1
  <2> QED
    BY <1>6, <1>7, <2>2 DEF ListInv
<1>9. Segments' = (Segments \ {head}) \cup {sent} \cup R /\ Unsent' = Unsent
  <2>1. Unsent' = Unsent
    BY <1>2 DEF Unsent
  <2>2. Segments' = Unsent' \cup Waiting' \cup Again'
    BY DEF Segments, Unsent, Waiting, Again
  <2> QED
    BY <1>4, <1>6, <1>7, <2>1, <2>2
<1>10. Sends(head, head, sent, rest, cut)
  BY <1>4, <1>5, <1>9 DEF Sends
<1>11. offered' = offered /\ dropped' = dropped /\ tx_size' = tx_size /\ rx_list' = rx_list
       /\ delivered' = delivered /\ confirmed' = confirmed
       /\ tx_next' = tx_next /\ tx_next_ack' = tx_next_ack /\ last_sent' = last_sent
       /\ rx_next' = rx_next /\ rx_next_highest' = rx_next_highest /\ garbled' = garbled
  BY <1>2 DEF snVars, upperVars, rxVars
<1>12. /\ \A s \in Segments' : Fits(s) /\ s.sdu <= offered'
       /\ \A s, t \in Segments' : s = t \/ Apart(s, t)
       /\ sent \notin Segments \ {head}
       /\ cut => rest \notin Segments \ {head} /\ rest # sent
  BY <1>1, <1>10, <1>11, SendingParts
<1>13. SegmentInv'
  <2>1. \A s \in Unsent' : (Fresh(s) \/ IsRest(s))'
    BY <1>1, <1>9, <1>11 DEF SegmentInv, Fresh, IsRest, Age
  <2>2. \A s \in Waiting' \cup Again' : s.sn \in SN
    <3>1. sent.sn \in SN /\ (cut => rest.sn \in SN)
      BY <1>4, <1>5 DEF CutInto
    <3> QED
      BY <1>1, <1>6, <1>7, <3>1 DEF SegmentInv
  <2>3. Unsent' \cap Waiting' = {} /\ Unsent' \cap Again' = {} /\ Waiting' \cap Again' = {}
    <3>1. Unsent \cap Waiting = {} /\ Unsent \cap Again = {} /\ Waiting \cap Again = {}
      BY <1>1 DEF SegmentInv
    <3> QED
      BY <1>3, <1>4, <1>6, <1>7, <1>9, <1>12, <3>1
  <2> QED
    BY <1>12, <2>1, <2>2, <2>3 DEF SegmentInv
<1>14. /\ NoByteLost'
       /\ DOMAIN sdu' = DOMAIN sdu
       /\ sdu' \in [DOMAIN sdu' -> Counters]
       /\ DOMAIN sdu' = {s.sdu : s \in Segments'}
       /\ \A id \in DOMAIN sdu' :
             sdu'[id].ref_count - sdu'[id].free_count = Cardinality(Of(Segments', id))
       /\ tx_size' = SumFunctionOnSet(SduSize, DOMAIN sdu')
  BY <1>1, <1>2, <1>10, <1>11, SendingKeeps
<1>15. AccountInv'
  <2>1. bstatus = [tx_size |-> SizeOfSegments(Unsent), retx_size |-> SizeOfSegments(Again)]
    BY <1>1 DEF AccountInv
  <2>2. SizeOfSegments(Again') =
           SizeOfSegments(Again) - PduSize(head) + (IF cut THEN PduSize(rest) ELSE 0)
    <3> DEFINE S == Again \ {head}
    <3>1. S \in SUBSET Segment /\ IsFiniteSet(S) /\ head \notin S /\ Again = S \cup {head}
      BY <1>3, <1>4, FS_Subset
    <3> HIDE DEF S
    <3>2. SizeOfSegments(Again) = SizeOfSegments(S) + PduSize(head)
      BY <1>4, <3>1, SizeOfSegmentsAdd
    <3>3. SizeOfSegments(S) \in Int /\ PduSize(head) \in Nat
      BY <1>4, <3>1, SizeOfSegmentsSplit, PduSizeType
    <3>4. CASE cut
      <4>1. Again' = S \cup {rest} /\ rest \notin S /\ rest \in Segment
        BY <1>4, <1>5, <1>7, <1>12, <3>4 DEF S, CutInto
      <4>2. SizeOfSegments(Again') = SizeOfSegments(S) + PduSize(rest) /\ PduSize(rest) \in Nat
        BY <3>1, <4>1, SizeOfSegmentsAdd, PduSizeType
      <4> QED
        BY <3>2, <3>3, <3>4, <4>2
    <3>5. CASE ~cut
      <4>1. Again' = S
        BY <1>7, <3>5 DEF S
      <4> QED
        BY <3>2, <3>3, <3>5, <4>1
    <3> QED
      BY <3>4, <3>5
  <2>3. bstatus' = [tx_size |-> SizeOfSegments(Unsent'), retx_size |-> SizeOfSegments(Again')]
    BY <1>2, <1>9, <2>1, <2>2
  <2> QED
    BY <1>14, <2>3 DEF AccountInv
<1>16. FateInv'
  BY <1>1, <1>11, <1>14 DEF FateInv
<1>17. SendsNumbered(head, sent, rest, cut)
  <2>1. /\ data_air' \subseteq Pdus /\ poll_sn' \in SN
        /\ \A d \in data_air' :
              d \in data_air \/ (d.sn = head.sn /\ d.sdu = head.sdu /\ Fits(d))
    <3>1. sent \in Segment /\ sent.sn = head.sn /\ sent.sdu = head.sdu /\ Fits(sent)
      BY <1>5 DEF CutInto
    <3>2. poll \in BOOLEAN
      OBVIOUS
    <3>3. data_air \subseteq Pdus /\ tx_next' \in SN /\ poll_sn \in SN
      BY <1>1, <1>11 DEF ReceiverInv, SnInv
    <3> HIDE DEF poll
    <3> QED
      BY <1>2, <1>4, <3>1, <3>2, <3>3, EmitIs
  <2> QED
    BY <1>4, <1>10, <1>11, <2>1 DEF SendsNumbered
<1>18. SnInv' /\ ReceiverInv' /\ ReportInv'
  BY <1>1, <1>14, <1>17, NumberedSent
<1>19. TxNextAckIsSmallestUnacked'
  <2>1. \A s \in Segments' : s \in Segments \/ s.sn = head.sn
    BY <1>2, <1>4, <1>5, <1>6, <1>7 DEF CutInto, Segments, Unsent, Waiting, Again
  <2> QED
    BY <1>4, <1>11, <2>1 DEF TxNextAckIsSmallestUnacked, TxOffset, Numbered
<1> QED
  BY <1>8, <1>13, <1>15, <1>16, <1>18, <1>19

LEMMA TailEnd ==
    ASSUME NEW list \in Seq(Segment), Sorted(list), list # <<>>, Tail(list) # <<>>
    PROVE  EndOf(Tail(list)) = EndOf(list)
<1> DEFINE tail == Tail(list)
<1>1. /\ Head(list) \in Range(list) /\ tail \in Seq(Segment) /\ Sorted(tail) /\ tail # <<>>
      /\ Range(tail) = Range(list) \ {Head(list)}
      /\ \A s \in Range(tail) : Less(Head(list), s)
  BY TailSorted
<1> HIDE DEF tail
<1>2. /\ EndOf(list) \in Range(list) /\ Range(list) \subseteq Segment
      /\ \A s \in Range(list) : s = EndOf(list) \/ Less(s, EndOf(list))
  BY EndIsHighest, RangeIs
<1>3. EndOf(tail) \in Range(tail)
  BY <1>1, EndIsHighest
<1>4. EndOf(list) # Head(list)
  <2>1. /\ EndOf(tail) \in Segment /\ Head(list) \in Segment /\ Less(Head(list), EndOf(tail))
        /\ EndOf(tail) = EndOf(list) \/ Less(EndOf(tail), EndOf(list))
    BY <1>1, <1>2, <1>3
  <2> QED
    BY <2>1, LessOrder
<1>5. EndOf(list) \in Range(tail) /\ \A s \in Range(tail) : s = EndOf(list) \/ Less(s, EndOf(list))
  BY <1>1, <1>2, <1>4
<1>6. EndOf(tail) = EndOf(list)
  BY <1>1, <1>5, HighestIsEnd
<1> QED
  BY <1>6 DEF tail

\* What generate_tx_pdu does to the lists and the counters, when head is sent
\* as seg, with an SN
Transmits(head, seg, sent, rest, cut) ==
    /\ tx_list # <<>> /\ head = Head(tx_list) /\ cut \in BOOLEAN
    /\ seg \in Segment /\ seg.sdu = head.sdu /\ seg.so = head.so /\ seg.size = head.size
    /\ seg.sn \in SN
    /\ CutInto(seg, sent, rest, cut)
    /\ tx_list' = (IF cut THEN <<rest>> ELSE <<>>) \o Tail(tx_list)
    /\ tx_end' = IF Tail(tx_list) # <<>> THEN tx_end ELSE IF cut THEN rest ELSE NoSegment
    /\ sdu' = IF cut THEN [sdu EXCEPT ![seg.sdu].ref_count = @ + 1] ELSE sdu
    /\ bstatus' = [bstatus EXCEPT !.tx_size =
                      @ - PduSize(seg) + (IF cut THEN PduSize(rest) ELSE 0)]
    /\ wait_list' \in Seq(Segment) /\ Sorted(wait_list')
    /\ Waiting' = Waiting \cup {sent} /\ wait_end' = EndOf(wait_list')
    /\ UNCHANGED <<retransmit_list, tx_size, offered, dropped, delivered, rx_list>>

LEMMA TransmissionLists ==
    ASSUME ListInv, SegmentInv, AccountInv, NoByteLost,
           NEW head, NEW seg, NEW sent, NEW rest, NEW cut, Transmits(head, seg, sent, rest, cut)
    PROVE  /\ ListInv' /\ AccountInv' /\ NoByteLost' /\ DOMAIN sdu' = DOMAIN sdu
           /\ head \in Unsent /\ Sends(head, seg, sent, rest, cut)
           /\ Unsent' = (Unsent \ {head}) \cup (IF cut THEN {rest} ELSE {})
           /\ \A s \in Segments' : Fits(s) /\ s.sdu <= offered'
           /\ \A s, t \in Segments' : s = t \/ Apart(s, t)
           /\ Unsent' \cap Waiting' = {} /\ Unsent' \cap Again' = {} /\ Waiting' \cap Again' = {}
           /\ \A s \in Waiting' \cup Again' : s.sn \in SN
<1> DEFINE R == IF cut THEN {rest} ELSE {}
           tail == Tail(tx_list)
<1>1. /\ tx_list \in Seq(Segment) /\ Sorted(tx_list) /\ tx_list # <<>> /\ tx_end = EndOf(tx_list)
      /\ head = Head(tx_list) /\ cut \in BOOLEAN
  BY DEF ListInv, Transmits
<1>2. /\ head \in Unsent
      /\ tail \in Seq(Segment) /\ Sorted(tail) /\ Range(tail) = Unsent \ {head}
      /\ \A s \in Unsent \ {head} : Less(head, s)
      /\ tail # <<>> => EndOf(tail) = tx_end
  BY <1>1, TailSorted, TailEnd DEF Unsent
<1>3. /\ Segments \subseteq Segment /\ Segments = Unsent \cup Waiting \cup Again
      /\ head \in Segments /\ head \in Segment
      /\ IsFiniteSet(Unsent) /\ Unsent \subseteq Segment
  BY <1>2, SegmentsType
<1>4. /\ seg \in Segment /\ seg.sdu = head.sdu /\ seg.so = head.so /\ seg.size = head.size
      /\ CutInto(seg, sent, rest, cut)
  BY DEF Transmits
<1>5. cut => rest \in Segment /\ \A s \in Range(tail) : Less(rest, s)
  <2> SUFFICES ASSUME cut
               PROVE  rest \in Segment /\ \A s \in Range(tail) : Less(rest, s)
    OBVIOUS
  <2>1. \A s \in Unsent \ {head} : Apart(head, s) /\ s \in Segment
    BY <1>3 DEF SegmentInv
  <2>2. \A s \in Unsent \ {head} : Apart(seg, s) /\ s \in Segment /\ Less(seg, s)
    BY <1>2, <1>4, <2>1 DEF Apart, Less
  <2>3. \A s \in Unsent \ {head} : Less(rest, s)
    BY <1>1, <1>4, <2>2, CutLess
  <2> QED
    BY <1>2, <1>4, <2>3 DEF CutInto
<1>6. /\ tx_list' \in Seq(Segment) /\ Sorted(tx_list') /\ tx_end' = EndOf(tx_list')
      /\ Unsent' = (Unsent \ {head}) \cup R
  <2>1. /\ tx_list' = (IF cut THEN <<rest>> ELSE <<>>) \o tail
        /\ tx_end' = IF tail # <<>> THEN tx_end ELSE IF cut THEN rest ELSE NoSegment
    BY DEF Transmits
  <2> HIDE DEF tail
  <2>2. CASE cut
    <3>1. tx_list' = <<rest>> \o tail
      BY <2>1, <2>2
    <3>2. /\ tx_list' \in Seq(Segment) /\ Sorted(tx_list')
          /\ Range(tx_list') = Range(tail) \cup {rest}
          /\ EndOf(tx_list') = IF tail = <<>> THEN rest ELSE EndOf(tail)
      BY <1>2, <1>5, <2>2, <3>1, PrependSorted
    <3> QED
      BY <1>2, <2>1, <2>2, <3>2 DEF Unsent
  <2>3. CASE ~cut
    <3>1. tx_list' = tail
      BY <1>2, <2>1, <2>3
    <3>2. tx_end' = EndOf(tail)
      BY <1>2, <2>1, <2>3 DEF EndOf
    <3> QED
      BY <1>2, <2>3, <3>1, <3>2 DEF Unsent
  <2> QED
    BY <2>2, <2>3
<1> HIDE DEF tail
<1>7. /\ wait_list' \in Seq(Segment) /\ Sorted(wait_list')
      /\ Waiting' = Waiting \cup {sent} /\ wait_end' = EndOf(wait_list')
      /\ retransmit_list' = retransmit_list /\ Again' = Again
  BY DEF Transmits, Again
<1>8. ListInv'
  <2>1. retransmit_list' \in Seq(Segment) /\ Sorted(retransmit_list')
    BY <1>7 DEF ListInv
  <2> QED
    BY <1>6, <1>7, <2>1 DEF ListInv
<1>9. Segments' = (Segments \ {head}) \cup {sent} \cup R
  <2>1. Segments' = Unsent' \cup Waiting' \cup Again'
    BY DEF Segments, Unsent, Waiting, Again
  <2>2. head \notin Waiting /\ head \notin Again
    BY <1>2 DEF SegmentInv
  <2> QED
    BY <1>3, <1>6, <1>7, <2>1, <2>2
<1>10. Sends(head, seg, sent, rest, cut)
  BY <1>1, <1>3, <1>4, <1>9 DEF Sends
<1>11. offered' = offered /\ dropped' = dropped /\ tx_size' = tx_size /\ rx_list' = rx_list
       /\ delivered' = delivered
       /\ sdu' = IF cut THEN [sdu EXCEPT ![seg.sdu].ref_count = @ + 1] ELSE sdu
  BY DEF Transmits
<1>12. /\ \A s \in Segments' : Fits(s) /\ s.sdu <= offered'
       /\ \A s, t \in Segments' : s = t \/ Apart(s, t)
       /\ sent \notin Segments \ {head}
       /\ cut => rest \notin Segments \ {head} /\ rest # sent
  BY <1>10, <1>11, SendingParts
<1>13. /\ NoByteLost'
       /\ DOMAIN sdu' = DOMAIN sdu
       /\ sdu' \in [DOMAIN sdu' -> Counters]
       /\ DOMAIN sdu' = {s.sdu : s \in Segments'}
       /\ \A id \in DOMAIN sdu' :
             sdu'[id].ref_count - sdu'[id].free_count = Cardinality(Of(Segments', id))
       /\ tx_size' = SumFunctionOnSet(SduSize, DOMAIN sdu')
  BY <1>10, <1>11, SendingKeeps
<1>14. AccountInv'
  <2>1. bstatus = [tx_size |-> SizeOfSegments(Unsent), retx_size |-> SizeOfSegments(Again)]
    BY DEF AccountInv
  <2>2. SizeOfSegments(Unsent') =
           SizeOfSegments(Unsent) - PduSize(seg) + (IF cut THEN PduSize(rest) ELSE 0)
    <3> DEFINE S == Unsent \ {head}
    <3>1. S \in SUBSET Segment /\ IsFiniteSet(S) /\ head \notin S /\ Unsent = S \cup {head}
      BY <1>2, <1>3, FS_Subset
    <3> HIDE DEF S
    <3>2. PduSize(head) = PduSize(seg)
      BY <1>4 DEF PduSize
    <3>3. SizeOfSegments(Unsent) = SizeOfSegments(S) + PduSize(head)
      BY <1>3, <3>1, SizeOfSegmentsAdd
    <3>4. SizeOfSegments(S) \in Int /\ PduSize(head) \in Nat
      BY <1>3, <3>1, SizeOfSegmentsSplit, PduSizeType
    <3>5. CASE cut
      <4>1. Unsent' = S \cup {rest} /\ rest \notin S /\ rest \in Segment
        BY <1>3, <1>5, <1>6, <1>12, <3>5 DEF S
      <4>2. SizeOfSegments(Unsent') = SizeOfSegments(S) + PduSize(rest) /\ PduSize(rest) \in Nat
        BY <3>1, <4>1, SizeOfSegmentsAdd, PduSizeType
      <4> QED
        BY <3>2, <3>3, <3>4, <3>5, <4>2
    <3>6. CASE ~cut
      <4>1. Unsent' = S
        BY <1>6, <3>6 DEF S
      <4> QED
        BY <3>2, <3>3, <3>4, <3>6, <4>1
    <3> QED
      BY <1>1, <3>5, <3>6
  <2>3. bstatus' = [bstatus EXCEPT !.tx_size =
                       @ - PduSize(seg) + (IF cut THEN PduSize(rest) ELSE 0)]
    BY DEF Transmits
  <2>4. bstatus' = [tx_size |-> SizeOfSegments(Unsent'), retx_size |-> SizeOfSegments(Again')]
    BY <1>7, <2>1, <2>2, <2>3
  <2> QED
    BY <1>13, <2>4 DEF AccountInv
<1>15. \A s \in Waiting' \cup Again' : s.sn \in SN
  <2>1. sent.sn \in SN
    BY DEF Transmits, CutInto
  <2> QED
    BY <1>7, <2>1 DEF SegmentInv
<1>16. Unsent' \cap Waiting' = {} /\ Unsent' \cap Again' = {} /\ Waiting' \cap Again' = {}
  <2>1. Unsent \cap Waiting = {} /\ Unsent \cap Again = {} /\ Waiting \cap Again = {}
    BY DEF SegmentInv
  <2>2. sent \notin Again /\ sent \notin Unsent \ {head}
    BY <1>2, <1>3, <1>12, <2>1
  <2>3. cut => rest \notin Waiting /\ rest \notin Again /\ rest # sent
    BY <1>2, <1>3, <1>12, <2>1
  <2> QED
    BY <1>1, <1>6, <1>7, <2>1, <2>2, <2>3
<1> QED
  BY <1>2, <1>6, <1>8, <1>10, <1>12, <1>13, <1>14, <1>15, <1>16

\* A segment without an SN gets tx_next, and all ages grow by one.
SendsFresh(head, seg, sent, rest, cut) ==
    /\ Fresh(head) /\ Sends(head, seg, sent, rest, cut) /\ seg.sn = tx_next
    /\ Age(tx_next_ack) < WindowSize
    /\ tx_next' = SnNext(tx_next) /\ last_sent' = head.sdu
    /\ data_air' \subseteq Pdus
    /\ \A d \in data_air' :
          \/ d \in data_air /\ d.sdu + WindowSize > last_sent'
          \/ d.sn = tx_next /\ d.sdu = head.sdu /\ Fits(d)
    /\ poll_sn' \in SN
    /\ status_air' = {r \in status_air : last_sent' < r.born + WindowSize}
    /\ UNCHANGED <<tx_next_ack, offered, dropped, rx_list, rx_next, rx_next_highest,
                   delivered, garbled>>

LEMMA AgeAfterNew ==
    ASSUME tx_next \in SN, tx_next' = SnNext(tx_next), NEW sn \in SN
    PROVE  /\ tx_next' \in SN
           /\ Age(sn) \in 0 .. SnModulus - 1
           /\ Modulus(sn, tx_next') = IF Age(sn) = SnModulus - 1 THEN 0 ELSE Age(sn) + 1
           /\ Age(sn) = 0 <=> sn = tx_next
BY ModulusNext, AgeType DEF Age

\* What is new, and what was seen and is not as old as the window
LEMMA SeenWithNew ==
    ASSUME RxInv, ListInv, SegmentInv, AccountInv, FateInv, SnInv, ReceiverInv,
           TxNextAckIsSmallestUnacked,
           NEW head, NEW seg, NEW sent, NEW rest, NEW cut, SendsFresh(head, seg, sent, rest, cut)
    PROVE  /\ head \notin Numbered /\ head.sdu \in AllSdus /\ head.sdu \notin dropped
           /\ head.sdu \in Int /\ last_sent \in Int /\ head.sdu > last_sent
           /\ sent \in Numbered' /\ sent.sn = tx_next /\ sent.sdu = head.sdu
           /\ Numbered \subseteq Numbered'
           /\ \A s \in Numbered' :
                 s \in Numbered \/ (s.sn = tx_next /\ s.sdu = head.sdu /\ Fits(s))
           /\ \A x \in Seen' :
                 \/ x \in Seen /\ Age(x.sn) < WindowSize
                 \/ x.sn = tx_next /\ x.sdu = head.sdu /\ Fits(x)
<1>1. /\ head \in Segments /\ cut \in BOOLEAN /\ seg \in Segment /\ seg.sdu = head.sdu
      /\ CutInto(seg, sent, rest, cut) /\ seg.sn = tx_next
      /\ Segments' = (Segments \ {head}) \cup {sent} \cup (IF cut THEN {rest} ELSE {})
      /\ head.sn = NoSn /\ head.sdu > last_sent
  BY DEF SendsFresh, Sends, Fresh
<1>2. /\ sent.sdu = head.sdu /\ sent.sn = tx_next /\ Fits(sent)
      /\ cut => rest.sdu = head.sdu /\ rest.sn = tx_next /\ Fits(rest)
  BY <1>1 DEF CutInto
<1>3. /\ head.sdu \in AllSdus /\ AllSdus \subseteq Int /\ head.sdu \in DOMAIN sdu
      /\ last_sent \in Int /\ head.sdu \in Int
  <2>1. AllSdus \subseteq Int
    BY TxAssumption DEF AllSdus
  <2>2. head.sdu \in AllSdus
    BY <1>1 DEF Segment
  <2>3. head.sdu \in DOMAIN sdu /\ last_sent \in Int
    BY <1>1 DEF AccountInv, FateInv
  <2> QED
    BY <2>1, <2>2, <2>3
<1>4. head.sdu \notin dropped
  BY <1>3 DEF FateInv
<1>5. tx_next \in SN /\ tx_next # NoSn /\ tx_next_ack \in SN
  BY SnAssumption DEF SnInv, SN, NoSn
<1>6. /\ \A s \in Numbered' : s \in Numbered \/ s = sent \/ (cut /\ s = rest)
      /\ Numbered \subseteq Numbered'
      /\ sent \in Numbered' /\ head \notin Numbered
  BY <1>1, <1>2, <1>5 DEF Numbered
<1>7. Age(tx_next_ack) < WindowSize /\ Age(tx_next_ack) \in Int
  BY <1>5, AgeType DEF SendsFresh, Age
<1>8. \A s \in Numbered : s \in Seen /\ Age(s.sn) < WindowSize
  <2>1. \A s \in Numbered : Age(s.sn) \in Int /\ Age(s.sn) <= Age(tx_next_ack)
    BY NumberedAge
  <2> QED
    BY <1>7, <2>1, SnAssumption DEF Seen
<1>9. ASSUME NEW d \in data_air, d.sdu + WindowSize > last_sent'
      PROVE  d \in Seen /\ Age(d.sn) < WindowSize
  <2>1. /\ d \in Seen /\ d.sn \in SN /\ d.sdu \in AllSdus
        /\ d.sdu + Age(d.sn) <= last_sent + 1
    BY DEF SnInv, Seen
  <2>2. Age(d.sn) \in Int /\ d.sdu \in Int
    <3>1. d.sdu \in Int
      BY <1>3, <2>1
    <3>2. Modulus(d.sn, tx_next) \in 0 .. SnModulus - 1
      BY <1>5, <2>1, AgeType
    <3> QED
      BY <3>1, <3>2 DEF Age
  <2>3. last_sent' = head.sdu
    BY DEF SendsFresh
  <2>4. /\ head.sdu \in Int /\ last_sent \in Int /\ WindowSize \in Int
        /\ d.sdu + WindowSize > head.sdu /\ head.sdu > last_sent
    BY <1>1, <1>3, <1>9, <2>3, SnAssumption
  <2>5. Age(d.sn) < WindowSize
    BY <2>1, <2>2, <2>4
  <2> QED
    BY <2>1, <2>5
<1>10. ASSUME NEW l \in rx_list
       PROVE  l \in Seen /\ Age(l.sn) < WindowSize
  <2>1. l \in Seen /\ l.sn \in SN /\ Age(l.sn) <= WindowSize
    BY DEF SnInv, Seen
  <2>2. rx_next \in SN /\ rx_next_highest \in SN /\ RxOffset(l.sn) < RxOffset(rx_next_highest)
    BY DEF RxInv, RxTypeOK, RxWindowOrdered
  <2>3. RxOffset(rx_next_highest) <= Age(rx_next) /\ Age(rx_next) <= Age(tx_next_ack)
    BY DEF ReceiverInv
  <2>4. /\ Age(l.sn) \in 0 .. SnModulus - 1 /\ Age(rx_next) \in 0 .. SnModulus - 1
        /\ RxOffset(l.sn) \in Int /\ RxOffset(rx_next_highest) \in Int
    BY <1>5, <2>1, <2>2, AgeType, ModulusType DEF Age, RxOffset
  <2>5. RxOffset(l.sn) = IF Age(l.sn) <= Age(rx_next) THEN Age(rx_next) - Age(l.sn)
                         ELSE Age(rx_next) - Age(l.sn) + SnModulus
    BY <1>5, <2>1, <2>2, AgeOffset DEF Age, RxOffset
  <2> QED
    BY <1>7, <2>1, <2>2, <2>3, <2>4, <2>5, SnAssumption
<1>11. ASSUME NEW x \in Seen'
       PROVE  \/ x \in Seen /\ Age(x.sn) < WindowSize
              \/ x.sn = tx_next /\ x.sdu = head.sdu /\ Fits(x)
  <2>1. x \in Numbered' \/ x \in data_air' \/ x \in rx_list
    BY DEF Seen, SendsFresh
  <2>2. CASE x \in Numbered'
    BY <1>2, <1>6, <1>8, <2>2
  <2>3. CASE x \in data_air'
    BY <1>9, <2>3 DEF SendsFresh
  <2>4. CASE x \in rx_list
    BY <1>10, <2>4
  <2> QED
    BY <2>1, <2>2, <2>3, <2>4
<1> QED
  BY <1>1, <1>2, <1>3, <1>4, <1>6, <1>11

LEMMA FreshSent ==
    ASSUME RxInv, ListInv, SegmentInv, AccountInv, FateInv, SnInv, ReceiverInv, ReportInv,
           NoByteLost', TxNextAckIsSmallestUnacked,
           NEW head, NEW seg, NEW sent, NEW rest, NEW cut, SendsFresh(head, seg, sent, rest, cut)
    PROVE  SnInv' /\ ReceiverInv' /\ ReportInv'
<1>1. /\ head \notin Numbered /\ head.sdu \in AllSdus /\ head.sdu \notin dropped
      /\ head.sdu \in Int /\ last_sent \in Int /\ head.sdu > last_sent
      /\ sent \in Numbered' /\ sent.sn = tx_next /\ sent.sdu = head.sdu
      /\ Numbered \subseteq Numbered'
      /\ \A s \in Numbered' :
            s \in Numbered \/ (s.sn = tx_next /\ s.sdu = head.sdu /\ Fits(s))
      /\ \A x \in Seen' :
            \/ x \in Seen /\ Age(x.sn) < WindowSize
            \/ x.sn = tx_next /\ x.sdu = head.sdu /\ Fits(x)
  BY SeenWithNew
<1>2. /\ tx_next' = SnNext(tx_next) /\ last_sent' = head.sdu /\ Age(tx_next_ack) < WindowSize
      /\ data_air' \subseteq Pdus /\ poll_sn' \in SN
      /\ status_air' = {r \in status_air : last_sent' < r.born + WindowSize}
      /\ UNCHANGED <<tx_next_ack, offered, dropped, rx_list, rx_next, rx_next_highest,
                     delivered, garbled>>
  BY DEF SendsFresh
<1>3. tx_next \in SN /\ tx_next' \in SN /\ tx_next_ack \in SN /\ rx_next \in SN
  BY <1>2, ModulusNext DEF SnInv, RxInv, RxTypeOK
<1>4. \A sn \in SN : /\ Age(sn) \in 0 .. SnModulus - 1
                     /\ Age(sn)' = IF Age(sn) = SnModulus - 1 THEN 0 ELSE Age(sn) + 1
                     /\ Age(sn) = 0 <=> sn = tx_next
  BY <1>2, <1>3, AgeAfterNew DEF Age
<1>5. \A sn \in SN : Age(sn) < WindowSize => Age(sn)' = Age(sn) + 1
  BY <1>4, SnAssumption
<1>6. Modulus(tx_next, tx_next') = 1
  BY <1>2, <1>3, AgeAfterNew, SnAssumption
<1>7. AllSdus \subseteq Int
  BY TxAssumption DEF AllSdus
<1>8. \A x \in Seen : /\ x.sn \in SN /\ x.sdu \in AllSdus /\ x.sdu \in Int
                      /\ 1 <= Age(x.sn) /\ Age(x.sn) \in Int
                      /\ x.sdu + Age(x.sn) <= last_sent + 1 /\ x.sdu <= last_sent
                      /\ x.sdu \notin dropped /\ Fits(x)
  <2>1. \A x \in Seen : /\ x.sn \in SN /\ x.sdu \in AllSdus /\ x.sdu \in Int
                        /\ 1 <= Age(x.sn) /\ Age(x.sn) \in Int
                        /\ x.sdu + Age(x.sn) <= last_sent + 1
                        /\ x.sdu \notin dropped /\ Fits(x)
    <3> SUFFICES ASSUME NEW x \in Seen
                 PROVE  /\ x.sn \in SN /\ x.sdu \in AllSdus /\ x.sdu \in Int
                        /\ 1 <= Age(x.sn) /\ Age(x.sn) \in Int
                        /\ x.sdu + Age(x.sn) <= last_sent + 1
                        /\ x.sdu \notin dropped /\ Fits(x)
      OBVIOUS
    <3>1. /\ x.sn \in SN /\ x.sdu \in AllSdus /\ 1 <= Age(x.sn)
          /\ x.sdu + Age(x.sn) <= last_sent + 1
          /\ x.sdu \notin dropped /\ Fits(x)
      BY DEF SnInv
    <3>2. x.sdu \in Int
      BY <1>7, <3>1
    <3>3. Age(x.sn) \in Int
      BY <1>4, <3>1
    <3> QED
      BY <3>1, <3>2, <3>3
  <2> QED
    BY <1>1, <2>1
<1>9. SnInv'
  <2>1. Age(tx_next_ack)' <= WindowSize
    <3>1. Age(tx_next_ack)' = Age(tx_next_ack) + 1
      BY <1>2, <1>3, <1>5 DEF Age
    <3> QED
      BY <1>2, <1>3, <1>4, <3>1, SnAssumption
  <2>2. ASSUME NEW x \in Seen'
        PROVE  /\ x.sn \in SN /\ x.sdu \in AllSdus
               /\ 1 <= Age(x.sn)' /\ Age(x.sn)' <= WindowSize
               /\ x.sdu + Age(x.sn)' <= last_sent' + 1
               /\ x.sdu \notin dropped'
               /\ Fits(x)
    <3>1. CASE x \in Seen /\ Age(x.sn) < WindowSize
      <4>1. Age(x.sn)' = Age(x.sn) + 1
        BY <1>5, <1>8, <3>1
      <4> QED
        BY <1>1, <1>2, <1>8, <3>1, <4>1, SnAssumption
    <3>2. CASE x.sn = tx_next /\ x.sdu = head.sdu /\ Fits(x)
      <4>1. Age(x.sn)' = 1
        BY <1>6, <3>2 DEF Age
      <4> QED
        BY <1>1, <1>2, <1>3, <3>2, <4>1, SnAssumption
    <3> QED
      BY <1>1, <3>1, <3>2
  <2>3. ASSUME NEW x \in Seen', NEW y \in Seen'
        PROVE  x.sdu < y.sdu <=> Age(y.sn)' < Age(x.sn)'
    <3>1. CASE x \in Seen /\ Age(x.sn) < WindowSize /\ y \in Seen /\ Age(y.sn) < WindowSize
      <4>1. x.sdu < y.sdu <=> Age(y.sn) < Age(x.sn)
        BY <3>1 DEF SnInv
      <4>2. Age(x.sn)' = Age(x.sn) + 1 /\ Age(y.sn)' = Age(y.sn) + 1
        BY <1>5, <1>8, <3>1
      <4> QED
        BY <1>8, <3>1, <4>1, <4>2
    <3>2. CASE x \in Seen /\ Age(x.sn) < WindowSize /\ y.sn = tx_next /\ y.sdu = head.sdu
      <4>1. Age(x.sn)' = Age(x.sn) + 1 /\ Age(y.sn)' = 1
        BY <1>5, <1>6, <1>8, <3>2 DEF Age
      <4> QED
        BY <1>1, <1>8, <3>2, <4>1
    <3>3. CASE y \in Seen /\ Age(y.sn) < WindowSize /\ x.sn = tx_next /\ x.sdu = head.sdu
      <4>1. Age(y.sn)' = Age(y.sn) + 1 /\ Age(x.sn)' = 1
        BY <1>5, <1>6, <1>8, <3>3 DEF Age
      <4> QED
        BY <1>1, <1>8, <3>3, <4>1
    <3>4. CASE x.sn = tx_next /\ x.sdu = head.sdu /\ y.sn = tx_next /\ y.sdu = head.sdu
      BY <1>1, <1>6, <3>4 DEF Age
    <3> QED
      BY <1>1, <3>1, <3>2, <3>3, <3>4
  <2>4. \A x \in Seen' :
          /\ x.sn \in SN /\ x.sdu \in AllSdus
          /\ 1 <= Age(x.sn)' /\ Age(x.sn)' <= WindowSize
          /\ x.sdu + Age(x.sn)' <= last_sent' + 1
          /\ x.sdu \notin dropped'
          /\ Fits(x)
    BY <2>2
  <2>5. \A x, y \in Seen' : x.sdu < y.sdu <=> Age(y.sn)' < Age(x.sn)'
    BY <2>3
  <2>6. tx_next' \in SN /\ tx_next_ack' \in SN /\ poll_sn' \in SN
    BY <1>2, <1>3
  <2> QED
    BY <2>1, <2>4, <2>5, <2>6 DEF SnInv, Age
<1>10. /\ Age(rx_next) <= Age(tx_next_ack) /\ Age(rx_next) \in Int /\ Age(tx_next_ack) \in Int
       /\ Age(rx_next)' = Age(rx_next) + 1
       /\ Age(tx_next_ack)' = Age(tx_next_ack) + 1
  <2>1. Age(rx_next) <= Age(tx_next_ack) /\ Age(rx_next) \in Int /\ Age(tx_next_ack) \in Int
    BY <1>3, <1>4 DEF ReceiverInv
  <2>2. Age(rx_next) < WindowSize
    BY <1>2, <2>1, SnAssumption
  <2> QED
    BY <1>2, <1>3, <1>5, <2>1, <2>2 DEF Age
<1>11. Age(rx_next) >= 0
  BY <1>3, <1>4
<1>12. ReceiverInv'
  <2>1. Age(rx_next)' <= Age(tx_next_ack)'
    BY <1>10
  <2>2. RxOffset(rx_next_highest)' <= Age(rx_next)'
    <3>1. RxOffset(rx_next_highest)' = RxOffset(rx_next_highest)
      BY <1>2 DEF RxOffset
    <3>2. RxOffset(rx_next_highest) <= Age(rx_next) /\ RxOffset(rx_next_highest) \in Int
      BY OffsetType DEF ReceiverInv, RxInv, RxTypeOK
    <3> QED
      BY <1>10, <3>1, <3>2
  <2>3. /\ \A sn \in SN : ~SduFull(rx_list', sn)
        /\ \A l \in rx_list' : ~l.data => delivered'[l.sdu] = 1
        /\ NothingGarbled'
    BY <1>2 DEF ReceiverInv, NothingGarbled
  <2>4. ASSUME NEW x \in Seen', Age(rx_next)' < Age(x.sn)'
        PROVE  delivered'[x.sdu] = 1
    <3>1. CASE x \in Seen /\ Age(x.sn) < WindowSize
      <4>1. Age(x.sn)' = Age(x.sn) + 1
        BY <1>5, <1>8, <3>1
      <4>2. Age(rx_next) < Age(x.sn)
        BY <1>8, <1>10, <2>4, <3>1, <4>1
      <4> QED
        BY <1>2, <3>1, <4>2 DEF ReceiverInv
    <3>2. CASE x.sn = tx_next /\ x.sdu = head.sdu
      <4>1. Age(x.sn)' = 1
        BY <1>6, <3>2 DEF Age
      <4> QED
        BY <1>10, <1>11, <2>4, <4>1
    <3> QED
      BY <1>1, <3>1, <3>2
  <2>5. ASSUME NEW x \in Seen', Age(x.sn)' <= Age(rx_next)', delivered'[x.sdu] = 1
        PROVE  SduDelivered(rx_list', x.sn)
    <3>1. CASE x \in Seen /\ Age(x.sn) < WindowSize
      <4>1. Age(x.sn)' = Age(x.sn) + 1
        BY <1>5, <1>8, <3>1
      <4>2. Age(x.sn) <= Age(rx_next)
        BY <1>8, <1>10, <2>5, <3>1, <4>1
      <4> QED
        BY <1>2, <2>5, <3>1, <4>2 DEF ReceiverInv
    <3>2. CASE x.sn = tx_next /\ x.sdu = head.sdu
      <4>1. head.sdu <= last_sent
        BY <1>1, <1>2, <2>5, <3>2 DEF FateInv
      <4> QED
        BY <1>1, <4>1
    <3> QED
      BY <1>1, <3>1, <3>2
  <2>6. ASSUME NEW sn \in SN, 1 <= Age(sn)', Age(sn)' <= Age(rx_next)'
        PROVE  SduDelivered(rx_list', sn) \/ \E s \in Numbered' : s.sn = sn
    <3>1. Age(sn)' = Age(sn) + 1 /\ Age(sn) \in Int /\ Age(sn) >= 0
      BY <1>4, <2>6
    <3>2. CASE Age(sn) = 0
      BY <1>1, <1>4, <3>2
    <3>3. CASE Age(sn) # 0
      <4>1. 1 <= Age(sn) /\ Age(sn) <= Age(rx_next)
        BY <1>10, <2>6, <3>1, <3>3
      <4>2. SduDelivered(rx_list, sn) \/ \E s \in Numbered : s.sn = sn
        BY <4>1 DEF ReceiverInv
      <4> QED
        BY <1>1, <1>2, <4>2
    <3> QED
      BY <3>2, <3>3
  <2>7. data_air' \subseteq Pdus
    BY <1>2
  <2> QED
    BY <2>1, <2>2, <2>3, <2>4, <2>5, <2>6, <2>7 DEF ReceiverInv
<1>13. ASSUME NEW r \in status_air'
       PROVE  /\ r \in status_air /\ r.report.ack_sn \in SN
              /\ r.born \in Nat /\ r.born <= last_sent' /\ last_sent' < r.born + WindowSize
              /\ Age(r.report.ack_sn)' <= WindowSize + last_sent' - r.born
              /\ Age(r.report.ack_sn) \in Int
              /\ Age(r.report.ack_sn)' = Age(r.report.ack_sn) + 1
  <2>1. /\ r \in status_air /\ last_sent' < r.born + WindowSize /\ last_sent' = head.sdu
    BY <1>2
  <2>2. /\ r.report.ack_sn \in SN /\ r.born \in Nat /\ r.born <= last_sent
        /\ Age(r.report.ack_sn) <= WindowSize + last_sent - r.born
    BY <2>1 DEF ReportInv
  <2>3. Age(r.report.ack_sn) \in 0 .. SnModulus - 1
    BY <1>4, <2>2
  <2>4. Age(r.report.ack_sn) # SnModulus - 1
    BY <1>1, <2>1, <2>2, <2>3, SnAssumption
  <2>5. Age(r.report.ack_sn)' = Age(r.report.ack_sn) + 1
    BY <1>4, <2>2, <2>4
  <2> QED
    BY <1>1, <2>1, <2>2, <2>3, <2>5, SnAssumption
<1>14. ASSUME NEW r \in status_air'
       PROVE  Honest(r.report)'
  <2> DEFINE ack == r.report.ack_sn
  <2>1. Age(ack)' = Age(ack) + 1 /\ Age(ack) \in Int /\ Age(ack) >= 0 /\ r \in status_air
    BY <1>4, <1>13
  <2>2. ASSUME NEW s \in Numbered', NEW b \in SegBytes(s), Age(ack)' < Age(s.sn)',
               ~Nacks(r.report, s.sn, b, b)
        PROVE  HasReceived(s.sdu, b)'
    <3>1. s \in Numbered
      <4>1. CASE s.sn = tx_next
        <5>1. Age(s.sn)' = 1
          BY <1>6, <4>1 DEF Age
        <5> QED
          BY <2>1, <2>2, <5>1
      <4> QED
        BY <1>1, <4>1
    <3>2. s \in Seen /\ s \in Seen'
      BY <3>1 DEF Seen
    <3>3. s.sn \in SN /\ Age(s.sn) \in Int
      BY <1>8, <3>2
    <3>4. Age(ack) < Age(s.sn)
      BY <1>4, <2>1, <2>2, <3>3
    <3>5. HasReceived(s.sdu, b)
      BY <2>1, <2>2, <3>1, <3>4 DEF ReportInv, Honest
    <3> QED
      BY <1>2, <3>5 DEF HasReceived
  <2> QED
    BY <2>2 DEF Honest
<1>15. ReportInv'
  <2>1. \A r \in status_air' :
          /\ NackedParts(r.report.nacks, r.report.ack_sn) = {}
          /\ \A sn \in SN : \A part \in NackedParts(r.report.nacks, sn) :
                part.so_start \in Int /\ part.so_end \in Int
    BY <1>13 DEF ReportInv
  <2>2. \A r \in status_air' :
          /\ r.report.ack_sn \in SN
          /\ r.born \in Nat /\ r.born <= last_sent' /\ last_sent' < r.born + WindowSize
          /\ Age(r.report.ack_sn)' <= WindowSize + last_sent' - r.born
    BY <1>13
  <2> QED
    BY <1>14, <2>1, <2>2 DEF ReportInv
<1> QED
  BY <1>9, <1>12, <1>15

\* A segment that gets its SN goes to the end of the wait list.
LEMMA FreshIsMoved ==
    ASSUME ListInv, SegmentInv, SnInv, FateInv, TxNextAckIsSmallestUnacked,
           NEW head \in Unsent, Fresh(head),
           NEW seg \in Segment, seg.sdu = head.sdu, seg.so = head.so, seg.size = head.size,
           seg.sn = tx_next,
           NEW sent, NEW rest, NEW cut \in BOOLEAN, CutInto(seg, sent, rest, cut),
           MoveToWait(sent)
    PROVE  /\ wait_list' \in Seq(Segment) /\ Sorted(wait_list')
           /\ Waiting' = Waiting \cup {sent}
           /\ wait_end' = EndOf(wait_list')
<1>1. Numbered \subseteq Segment /\ Waiting \subseteq Numbered
  BY NumberedComparable
<1>2. sent \in Segment /\ sent.sn = tx_next /\ sent.sdu = head.sdu
  BY DEF CutInto
<1>3. /\ AllSdus \subseteq Int /\ tx_next \in SN /\ tx_next_ack \in SN /\ last_sent \in Int
      /\ head.sdu > last_sent
  BY TxAssumption DEF AllSdus, SnInv, FateInv, Fresh
<1>4. Age(tx_next) = 0 /\ \A sn \in SN : Age(sn) \in Int /\ Age(sn) >= 0
  BY <1>3, AgeType, SnAssumption DEF Age
<1>5. ASSUME NEW t \in Waiting
      PROVE  /\ t.sn \in SN /\ Age(t.sn) \in Int /\ Age(t.sn) >= 1 /\ Age(t.sn) <= Age(tx_next_ack)
             /\ t.sdu < head.sdu /\ t.sdu \in Int
  <2>1. /\ t \in Numbered /\ t.sn \in SN /\ t.sdu \in AllSdus
        /\ t.sdu + Age(t.sn) <= last_sent + 1
    BY <1>1 DEF SnInv, Seen
  <2>2. /\ Age(t.sn) \in Int /\ 1 <= Age(t.sn) /\ Age(t.sn) <= Age(tx_next_ack)
    BY <2>1, NumberedAge
  <2>3. t.sdu \in Int /\ head.sdu \in Int
    <3>1. head.sdu \in AllSdus
      BY DEF Segment
    <3> QED
      BY <1>3, <2>1, <3>1
  <2> QED
    BY <1>3, <2>1, <2>2, <2>3
<1>6. \A t \in Waiting : Apart(sent, t) /\ Apart(t, sent) /\ sent # t
  <2>1. ASSUME NEW t \in Waiting
        PROVE  sent.sdu # t.sdu
    BY <1>2, <1>5
  <2> QED
    BY <2>1 DEF Apart
<1> DEFINE X == Waiting \cup {sent}
<1>7. X \in SUBSET Segment
  BY <1>1, <1>2
<1>8. \A x \in X : x.sn \in SN /\ Age(x.sn) <= Age(tx_next_ack)
  BY <1>2, <1>3, <1>4, <1>5
<1>9. ASSUME NEW x \in X, NEW y \in X
      PROVE  x.sdu < y.sdu <=> Age(y.sn) < Age(x.sn)
  <2>1. CASE x \in Waiting /\ y \in Waiting
    BY <1>1, <2>1 DEF SnInv, Seen
  <2>2. CASE x \in Waiting /\ y = sent
    BY <1>2, <1>3, <1>4, <1>5, <2>2
  <2>3. CASE x = sent /\ y \in Waiting
    <3>1. /\ ~(Age(y.sn) < 0) /\ ~(head.sdu < y.sdu)
      <4>1. head.sdu \in Int
        BY <1>2, <1>3 DEF Segment
      <4> QED
        BY <1>5, <2>3, <4>1
    <3> QED
      BY <1>2, <1>3, <1>4, <1>5, <2>3, <3>1
  <2>4. CASE x = sent /\ y = sent
    <3>1. head.sdu \in Int
      BY <1>2, <1>3 DEF Segment
    <3> QED
      BY <1>2, <1>3, <1>4, <2>4, <3>1
  <2> QED
    BY <2>1, <2>2, <2>3, <2>4
<1>10. \A x, y \in X : x = y \/ Apart(x, y)
  BY <1>1, <1>6 DEF SegmentInv, Numbered
<1>11. Comparable(X)
  BY <1>3, <1>7, <1>8, <1>9, <1>10, RankedComparable
<1>12. /\ wait_list \in Seq(Segment) /\ Sorted(wait_list) /\ wait_end = EndOf(wait_list)
       /\ sent \notin Waiting
  BY <1>6 DEF ListInv
<1> QED
  BY <1>2, <1>11, <1>12, MoveToWaitIs DEF Waiting

\* What is left to send first after a segment was sent
LEMMA UnsentAfterFresh ==
    ASSUME ListInv, SegmentInv, FateInv, tx_next \in SN,
           NEW head \in Unsent, Fresh(head), \A s \in Unsent \ {head} : Less(head, s),
           NEW seg \in Segment, seg.sdu = head.sdu, seg.last = head.last, seg.sn = tx_next,
           NEW sent, NEW rest, NEW cut \in BOOLEAN, CutInto(seg, sent, rest, cut),
           tx_next' = SnNext(tx_next), last_sent' = head.sdu,
           Unsent' = (Unsent \ {head}) \cup (IF cut THEN {rest} ELSE {})
    PROVE  \A s \in Unsent' : (Fresh(s) \/ IsRest(s))'
<1>1. Unsent \subseteq Segment /\ AllSdus \subseteq Int
  BY SegmentsType, TxAssumption DEF AllSdus
<1>2. last_sent \in Int /\ head.sdu \in Int /\ head.sdu > last_sent /\ head.so = 0
  BY <1>1, TxAssumption DEF Segment, FateInv, Fresh
<1>3. ASSUME NEW s \in Unsent \ {head}
      PROVE  Fresh(s)'
  <2>1. Less(head, s) /\ (Fresh(s) \/ IsRest(s)) /\ s.so \in Nat /\ s.sdu \in Int
    BY <1>1 DEF SegmentInv, Segment
  <2>2. ~IsRest(s)
    BY <1>2, <2>1 DEF Less, IsRest
  <2>3. s.sdu > head.sdu
    BY <1>2, <2>1, <2>2 DEF Less, Fresh
  <2> QED
    BY <2>1, <2>2, <2>3 DEF Fresh
<1>4. ASSUME cut
      PROVE  IsRest(rest)'
  <2>1. /\ rest.sn = tx_next /\ rest.last = head.last /\ rest.sdu = head.sdu
        /\ rest.so = sent.so + sent.size /\ sent.so \in Nat /\ sent.size \in Nat \ {0}
    BY <1>4 DEF CutInto, Segment
  <2>2. Modulus(tx_next, tx_next') = 1
    BY AgeAfterNew, SnAssumption
  <2>3. rest.so > 0
    BY <2>1
  <2> QED
    BY <2>1, <2>2, <2>3 DEF IsRest, Fresh, Age
<1> QED
  BY <1>3, <1>4

LEMMA UnsentAfterRest ==
    ASSUME SegmentInv, NEW head \in Unsent, IsRest(head),
           NEW sent, NEW rest, NEW cut \in BOOLEAN, CutInto(head, sent, rest, cut),
           tx_next' = tx_next, last_sent' = last_sent,
           Unsent' = (Unsent \ {head}) \cup (IF cut THEN {rest} ELSE {})
    PROVE  \A s \in Unsent' : (Fresh(s) \/ IsRest(s))'
<1>1. \A s \in Unsent : (Fresh(s) \/ IsRest(s))'
  BY DEF SegmentInv, Fresh, IsRest, Age
<1>2. ASSUME cut
      PROVE  IsRest(rest)'
  <2>1. /\ rest.sn = head.sn /\ rest.last = head.last /\ rest.sdu = head.sdu
        /\ rest.so = sent.so + sent.size /\ sent.so \in Nat /\ sent.size \in Nat \ {0}
    BY <1>2 DEF CutInto, Segment
  <2>2. rest.so > 0
    BY <2>1
  <2> QED
    BY <2>1, <2>2 DEF IsRest, Age
<1> QED
  BY <1>1, <1>2

\* generate_tx_pdu
LEMMA TransmissionKeeps ==
    ASSUME LinkInv, TxNextAckIsSmallestUnacked, NEW size \in Nat, GenerateTxPdu(size),
           status_air' = {r \in status_air : last_sent' < r.born + WindowSize},
           UNCHANGED <<rxVars, delivered, garbled>>
    PROVE  /\ ListInv' /\ SegmentInv' /\ AccountInv' /\ FateInv'
           /\ SnInv' /\ ReceiverInv' /\ ReportInv'
           /\ TxNextAckIsSmallestUnacked'
<1> DEFINE head  == Head(tx_list)
           seg   == IF head.sn = NoSn THEN [head EXCEPT !.sn = tx_next] ELSE head
           cut   == Cut(seg, size)
           sent  == IF cut THEN FrontPart(seg, size) ELSE seg
           rest  == BackPart(seg, size)
           pdus  == pdu_without_poll + 1
           bytes == byte_without_poll + sent.size
           poll  == \/ PollPdu # -1 /\ pdus >= PollPdu
                    \/ PollByte # -1 /\ bytes >= PollByte
                    \/ PollAfterAssembly(tx_list', retransmit_list, tx_next_ack, tx_next')
                    \/ force_poll
<1>1. /\ RxInv /\ ListInv /\ SegmentInv /\ AccountInv /\ FateInv /\ SnInv /\ ReceiverInv
      /\ ReportInv /\ NoByteLost
  BY DEF LinkInv, ReceiverInv
<1>2. /\ tx_list # <<>> /\ HeaderSize(head.so) + 1 <= size
      /\ ~WindowStalling(tx_next_ack, tx_next)
      /\ tx_next' = IF head.sn = NoSn THEN SnNext(tx_next) ELSE tx_next
      /\ last_sent' = IF head.sn = NoSn THEN head.sdu ELSE last_sent
      /\ tx_list' = (IF cut THEN <<rest>> ELSE <<>>) \o Tail(tx_list)
      /\ tx_end' = IF Tail(tx_list) # <<>> THEN tx_end ELSE IF cut THEN rest ELSE NoSegment
      /\ sdu' = IF cut THEN [sdu EXCEPT ![seg.sdu].ref_count = @ + 1] ELSE sdu
      /\ bstatus' = [bstatus EXCEPT !.tx_size =
                        @ - PduSize(seg) + (IF cut THEN PduSize(rest) ELSE 0)]
      /\ MoveToWait(sent)
      /\ UNCHANGED <<retransmit_list, tx_size, tx_next_ack, upperVars, crashed>>
      /\ Emit(sent, poll, pdus, bytes)
  BY DEF GenerateTxPdu, CanTransmit
<1>3. /\ head \in Unsent
      /\ Range(Tail(tx_list)) = Unsent \ {head}
      /\ \A s \in Unsent \ {head} : Less(head, s)
  BY <1>1, <1>2, TailSorted DEF ListInv, Unsent
<1>4. /\ head \in Segments /\ head \in Segment /\ Fits(head)
      /\ Segments \subseteq Segment /\ Segments = Unsent \cup Waiting \cup Again
      /\ head \notin Waiting /\ head \notin Again
      /\ Fresh(head) \/ IsRest(head)
  <2>1. /\ Segments \subseteq Segment /\ Segments = Unsent \cup Waiting \cup Again
    BY <1>1, SegmentsType
  <2> QED
    BY <1>1, <1>3, <2>1 DEF SegmentInv
<1>5. head.sn = NoSn <=> Fresh(head)
  BY <1>4, SnAssumption DEF Fresh, IsRest, SN, NoSn
<1>6. tx_next \in SN /\ tx_next_ack \in SN
  BY <1>1 DEF SnInv
<1>7. /\ seg \in Segment /\ seg.sdu = head.sdu /\ seg.so = head.so /\ seg.size = head.size
      /\ seg.last = head.last /\ Fits(seg) /\ seg.sn \in SN
      /\ Fresh(head) => seg.sn = tx_next
      /\ ~Fresh(head) => seg = head
  <2>1. CASE Fresh(head)
    <3>1. seg = [head EXCEPT !.sn = tx_next]
      BY <1>5, <2>1
    <3> HIDE DEF seg
    <3>2. /\ seg \in Segment /\ seg.sdu = head.sdu /\ seg.so = head.so /\ seg.size = head.size
          /\ seg.last = head.last /\ seg.sn = tx_next
      BY <1>4, <1>6, <3>1 DEF Segment
    <3> QED
      BY <1>4, <1>6, <2>1, <3>2 DEF Fits
  <2>2. CASE ~Fresh(head)
    <3>1. seg = head /\ head.sn \in SN
      BY <1>4, <1>5, <2>2 DEF IsRest
    <3> QED
      BY <1>4, <2>2, <3>1
  <2> QED
    BY <2>1, <2>2
<1> HIDE DEF head, seg
<1>8. CutInto(seg, sent, rest, cut) /\ cut \in BOOLEAN
  <2>1. HeaderSize(seg.so) + 1 <= size
    BY <1>2, <1>7
  <2>2. CutInto(seg, sent, rest, cut)
    BY <1>7, <2>1, ResegmentIs
  <2>3. cut \in BOOLEAN
    BY DEF Cut
  <2> QED
    BY <2>2, <2>3
<1> HIDE DEF cut, sent, rest
<1>9. head \in Numbered <=> ~Fresh(head)
  BY <1>4, <1>5 DEF Numbered
<1>10. /\ wait_list' \in Seq(Segment) /\ Sorted(wait_list')
       /\ Waiting' = Waiting \cup {sent} /\ wait_end' = EndOf(wait_list')
  <2>1. CASE Fresh(head)
    BY <1>1, <1>2, <1>3, <1>7, <1>8, <2>1, FreshIsMoved
  <2>2. CASE ~Fresh(head)
    BY <1>1, <1>2, <1>4, <1>7, <1>8, <1>9, <2>2, SentIsMoved
  <2> QED
    BY <2>1, <2>2
<1>11. offered' = offered /\ dropped' = dropped /\ rx_list' = rx_list
       /\ delivered' = delivered /\ confirmed' = confirmed /\ tx_size' = tx_size
       /\ tx_next_ack' = tx_next_ack /\ retransmit_list' = retransmit_list
       /\ rx_next' = rx_next /\ rx_next_highest' = rx_next_highest /\ garbled' = garbled
  BY <1>2 DEF upperVars, rxVars
<1>12. Transmits(head, seg, sent, rest, cut)
  <2>1. head = Head(tx_list)
    BY DEF head
  <2> QED
    BY <1>2, <1>7, <1>8, <1>10, <1>11, <2>1 DEF Transmits
<1>13. /\ ListInv' /\ AccountInv' /\ NoByteLost' /\ DOMAIN sdu' = DOMAIN sdu
       /\ Sends(head, seg, sent, rest, cut)
       /\ Unsent' = (Unsent \ {head}) \cup (IF cut THEN {rest} ELSE {})
       /\ \A s \in Segments' : Fits(s) /\ s.sdu <= offered'
       /\ \A s, t \in Segments' : s = t \/ Apart(s, t)
       /\ Unsent' \cap Waiting' = {} /\ Unsent' \cap Again' = {} /\ Waiting' \cap Again' = {}
       /\ \A s \in Waiting' \cup Again' : s.sn \in SN
  BY <1>1, <1>12, TransmissionLists
<1>14. /\ data_air' \subseteq Pdus /\ poll_sn' \in SN
       /\ \A d \in data_air' :
             \/ d \in data_air /\ d.sdu + WindowSize > last_sent'
             \/ d.sn = seg.sn /\ d.sdu = head.sdu /\ Fits(d)
  <2>1. sent \in Segment /\ sent.sn = seg.sn /\ sent.sdu = head.sdu /\ Fits(sent)
    BY <1>7, <1>8 DEF CutInto
  <2>2. poll \in BOOLEAN
    OBVIOUS
  <2>3. data_air \subseteq Pdus /\ tx_next' \in SN /\ poll_sn \in SN
    BY <1>1, <1>2, <1>6, ModulusNext DEF ReceiverInv, SnInv
  <2> HIDE DEF poll, pdus, bytes
  <2> QED
    BY <1>2, <1>7, <2>1, <2>2, <2>3, EmitIs
<1>15. TxNextAckIsSmallestUnacked'
  <2>1. \A s \in Segments' : s \in Segments \/ s.sn = seg.sn
    BY <1>4, <1>7, <1>8, <1>10, <1>11, <1>13 DEF CutInto, Segments, Unsent, Waiting, Again
  <2>2. CASE ~Fresh(head)
    <3>1. tx_next' = tx_next /\ head \in Numbered /\ seg = head
      BY <1>2, <1>5, <1>7, <1>9, <2>2
    <3> QED
      BY <1>4, <1>11, <2>1, <3>1 DEF TxNextAckIsSmallestUnacked, TxOffset, Numbered
  <2>3. CASE Fresh(head)
    <3>1. tx_next' = SnNext(tx_next) /\ seg.sn = tx_next /\ TxOffset(tx_next) < WindowSize
      BY <1>2, <1>5, <1>7, <2>3 DEF WindowStalling, TxOffset
    <3>2. TxOffset(tx_next) \in Nat /\ TxOffset(tx_next') = TxOffset(tx_next) + 1
      BY <1>6, <3>1, ModulusNext, AgeType, SnAssumption DEF TxOffset
    <3>3. ASSUME NEW s \in Segments', s.sn # NoSn
          PROVE  TxOffset(s.sn) < TxOffset(tx_next')
      <4>1. TxOffset(s.sn) <= TxOffset(tx_next)
        <5>1. CASE s \in Segments
          <6>1. s.sn \in SN
            BY <1>1, <3>3, <5>1 DEF SnInv, Seen, Numbered
          <6> QED
            BY <1>6, <3>2, <3>3, <5>1, <6>1, AgeType DEF TxNextAckIsSmallestUnacked, TxOffset
        <5>2. CASE s.sn = seg.sn
          BY <3>1, <3>2, <5>2
        <5> QED
          BY <2>1, <5>1, <5>2
      <4>2. TxOffset(s.sn) \in Int
        BY <1>6, <3>3, <2>1, <3>1, AgeType, <1>1 DEF TxOffset, SnInv, Seen, Numbered
      <4> QED
        BY <3>2, <4>1, <4>2
    <3> QED
      BY <1>11, <3>3 DEF TxNextAckIsSmallestUnacked, TxOffset
  <2> QED
    BY <2>2, <2>3
<1>16. CASE Fresh(head)
  <2>1. tx_next' = SnNext(tx_next) /\ last_sent' = head.sdu /\ seg.sn = tx_next
    BY <1>2, <1>5, <1>7, <1>16
  <2>2. Age(tx_next_ack) < WindowSize
    BY <1>2 DEF WindowStalling, Age
  <2>3. SendsFresh(head, seg, sent, rest, cut)
    BY <1>11, <1>13, <1>14, <1>16, <2>1, <2>2 DEF SendsFresh
  <2>4. SnInv' /\ ReceiverInv' /\ ReportInv'
    BY <1>1, <1>13, <2>3, FreshSent
  <2>5. /\ last_sent \in Int /\ head.sdu \in Int /\ head.sdu > last_sent /\ head.sdu <= offered
        /\ offered \in Int /\ last_sent >= 0
    <3>1. AllSdus \subseteq Int /\ head.sdu \in AllSdus
      BY <1>4, TxAssumption DEF AllSdus, Segment
    <3>2. last_sent \in Int /\ offered \in Int /\ last_sent >= 0
      BY <1>1, TxAssumption DEF FateInv
    <3> QED
      BY <1>1, <1>4, <1>16, <3>1, <3>2 DEF SegmentInv, Fresh
  <2>6. FateInv'
    <3>1. last_sent' \in 0 .. offered'
      BY <1>11, <2>1, <2>5
    <3>2. \A id \in AllSdus : delivered'[id] = 1 => id <= last_sent'
      <4>1. AllSdus \subseteq Int
        BY TxAssumption DEF AllSdus
      <4>2. \A id \in AllSdus : delivered[id] = 1 => id <= last_sent
        BY <1>1 DEF FateInv
      <4> QED
        BY <1>11, <2>1, <2>5, <4>1, <4>2
    <3> QED
      BY <1>1, <1>11, <1>13, <3>1, <3>2 DEF FateInv
  <2>7. \A s \in Unsent' : (Fresh(s) \/ IsRest(s))'
    BY <1>1, <1>3, <1>6, <1>7, <1>8, <1>13, <1>16, <2>1, UnsentAfterFresh
  <2>8. SegmentInv'
    BY <1>13, <2>7 DEF SegmentInv
  <2> QED
    BY <1>13, <1>15, <2>4, <2>6, <2>8
<1>17. CASE ~Fresh(head)
  <2>1. tx_next' = tx_next /\ last_sent' = last_sent /\ seg = head /\ head \in Numbered
    BY <1>2, <1>5, <1>7, <1>9, <1>17
  <2>2. SendsNumbered(head, sent, rest, cut)
    BY <1>11, <1>13, <1>14, <2>1 DEF SendsNumbered
  <2>3. SnInv' /\ ReceiverInv' /\ ReportInv'
    BY <1>1, <1>13, <2>2, NumberedSent
  <2>4. FateInv'
    BY <1>1, <1>11, <1>13, <2>1 DEF FateInv
  <2>5. \A s \in Unsent' : (Fresh(s) \/ IsRest(s))'
    BY <1>1, <1>3, <1>4, <1>8, <1>13, <1>17, <2>1, UnsentAfterRest
  <2>6. SegmentInv'
    BY <1>13, <2>5 DEF SegmentInv
  <2> QED
    BY <1>13, <1>15, <2>3, <2>4, <2>6
<1> QED
  BY <1>16, <1>17

-----------------------------------------------------------------------------
(* What the upper layer and the timers of the sender do *)

LEMMA FirstNumbers ==
    ASSUME NEW n \in Nat
    PROVE  IsFiniteSet(1 .. n) /\ Cardinality(1 .. n) = n
<1>1. 1 \in Int /\ n \in Int
  OBVIOUS
<1>2. Cardinality(1 .. n) = (IF 1 > n THEN 0 ELSE n - 1 + 1) /\ IsFiniteSet(1 .. n)
  BY <1>1, FS_Interval
<1> QED
  BY <1>2

LEMMA SduNumbers ==
    /\ AllSdus = 1 .. Len(SduSize) /\ Len(SduSize) \in Nat
    /\ \A id \in AllSdus : SduSize[id] \in Nat \ {0} /\ id \in Nat \ {0}
BY TxAssumption DEF AllSdus

LEMMA HeldSdus ==
    ASSUME FateInv
    PROVE  /\ DOMAIN sdu \subseteq AllSdus /\ IsFiniteSet(DOMAIN sdu)
           /\ offered \in Nat /\ last_sent \in Nat /\ last_sent <= offered
           /\ offered <= Len(SduSize)
           /\ \A id \in DOMAIN sdu : id <= offered
<1>1. /\ offered \in 0 .. Len(SduSize) /\ last_sent \in 0 .. offered
      /\ DOMAIN sdu \subseteq 1 .. offered
  BY DEF FateInv
<1>2. offered \in Nat /\ last_sent \in Nat /\ last_sent <= offered /\ offered <= Len(SduSize)
  BY <1>1, SduNumbers
<1>3. IsFiniteSet(1 .. offered)
  BY <1>2, FS_Interval
<1> QED
  BY <1>1, <1>2, <1>3, FS_Subset, SduNumbers

\* Steps that neither number a segment nor reach the receiver
LEMMA SeenKept ==
    ASSUME SnInv, ReceiverInv, ReportInv, ListInv,
           UNCHANGED <<tx_next, tx_next_ack, last_sent, poll_sn, rx_list, rx_next,
                       rx_next_highest, delivered, garbled>>,
           data_air' \subseteq data_air, status_air' \subseteq status_air,
           Numbered' = Numbered, \A x \in Seen : x.sdu \notin dropped', NoByteLost'
    PROVE  SnInv' /\ ReceiverInv' /\ ReportInv'
<1>1. Seen' \subseteq Seen
  BY DEF Seen
<1>2. SnInv'
  <2>1. \A x \in Seen' : /\ Fits(x) /\ x.sdu \notin dropped'
                         /\ \E y \in Seen : y.sn = x.sn /\ y.sdu = x.sdu
    BY <1>1 DEF SnInv
  <2>2. tx_next_ack' \in SN /\ Modulus(tx_next_ack', tx_next) <= WindowSize /\ poll_sn' \in SN
    BY DEF SnInv, Age
  <2> QED
    BY <2>1, <2>2, SnKept
<1>3. ReceiverInv'
  <2>1. Age(rx_next) <= Modulus(tx_next_ack', tx_next) /\ data_air' \subseteq Pdus
    BY DEF ReceiverInv, Age
  <2>2. \A x \in Seen' : \E y \in Seen : y.sn = x.sn /\ y.sdu = x.sdu
    BY <1>1
  <2>3. \A s \in Numbered : Age(s.sn) <= Age(rx_next) =>
           SduDelivered(rx_list, s.sn) \/ \E t \in Numbered' : t.sn = s.sn
    OBVIOUS
  <2> QED
    BY <2>1, <2>2, <2>3, ReceiverKept
<1>4. ReportInv'
  <2>1. \A s \in Numbered' : \A b \in SegBytes(s) :
           \E t \in Numbered : t.sn = s.sn /\ t.sdu = s.sdu /\ b \in SegBytes(t)
    OBVIOUS
  <2>2. \A id \in AllSdus : \A b : HasReceived(id, b) => HasReceived(id, b)'
    BY DEF HasReceived
  <2>3. Numbered \subseteq Segment
    BY SegmentsType DEF Numbered
  <2> QED
    BY <2>1, <2>2, <2>3, ReportsKept
<1> QED
  BY <1>2, <1>3, <1>4

\* Nothing that was seen has a higher number than the last SDU sent.
LEMMA SeenIsSent ==
    ASSUME SnInv, FateInv, NEW x \in Seen
    PROVE  x.sdu \in Nat /\ x.sdu <= last_sent
<1>1. /\ x.sdu \in AllSdus /\ x.sdu + Age(x.sn) <= last_sent + 1 /\ 1 <= Age(x.sn)
      /\ x.sn \in SN /\ tx_next \in SN
  BY DEF SnInv
<1>2. x.sdu \in Nat /\ last_sent \in Nat
  BY <1>1, SduNumbers, HeldSdus
<1>3. Age(x.sn) \in Int
  BY <1>1, AgeType, SnAssumption DEF Age
<1> QED
  BY <1>1, <1>2, <1>3

\* nr_rlc_entity_am_recv_sdu, the buffer full
LEMMA RejectionKeeps ==
    ASSUME LinkInv, offered < Len(SduSize), offered' = offered + 1,
           dropped' = dropped \cup {offered + 1},
           UNCHANGED <<listVars, sizeVars, sdu, snVars, pollVars, confirmed, data_air,
                       rxVars, linkVars>>
    PROVE  /\ ListInv' /\ SegmentInv' /\ AccountInv' /\ FateInv'
           /\ SnInv' /\ ReceiverInv' /\ ReportInv'
           /\ Numbered' = Numbered
<1>1. /\ ListInv /\ SegmentInv /\ AccountInv /\ FateInv /\ SnInv /\ ReceiverInv /\ ReportInv
      /\ NoByteLost
  BY DEF LinkInv, ReceiverInv
<1>2. /\ UNCHANGED <<tx_list, tx_end, wait_list, wait_end, retransmit_list, tx_size, bstatus,
                     sdu, tx_next, tx_next_ack, last_sent, poll_sn, confirmed, data_air,
                     rx_list, rx_next, rx_next_highest, status_air, delivered, garbled>>
  BY DEF listVars, sizeVars, snVars, pollVars, rxVars, linkVars
<1>3. /\ Segments' = Segments /\ Unsent' = Unsent /\ Waiting' = Waiting /\ Again' = Again
      /\ Numbered' = Numbered
  BY <1>2 DEF Segments, Unsent, Waiting, Again, Numbered
<1>4. offered \in Nat /\ last_sent \in Nat /\ last_sent <= offered /\ Segments \subseteq Segment
  BY <1>1, HeldSdus, SegmentsType
<1>5. ListInv'
  BY <1>1, <1>2 DEF ListInv
<1>6. SegmentInv'
  <2>1. \A s \in Segments : Fits(s) /\ s.sdu <= offered'
    <3>1. \A s \in Segments : s.sdu \in Nat /\ s.sdu <= offered /\ Fits(s)
      BY <1>1, <1>4, SduNumbers DEF SegmentInv, Segment
    <3> QED
      BY <1>4, <3>1
  <2>2. \A s \in Unsent : (Fresh(s) \/ IsRest(s))'
    BY <1>1, <1>2 DEF SegmentInv, Fresh, IsRest, Age
  <2> QED
    BY <1>1, <1>3, <2>1, <2>2 DEF SegmentInv
<1>7. AccountInv'
  BY <1>1, <1>2, <1>3 DEF AccountInv
<1>8. FateInv'
  <2>1. offered + 1 \in 0 .. Len(SduSize) /\ last_sent \in 0 .. offered + 1
    BY <1>4, SduNumbers
  <2>2. 1 .. offered + 1 = (1 .. offered) \cup {offered + 1} /\ offered + 1 \notin 1 .. offered
    BY <1>4
  <2>3. 1 .. offered = DOMAIN sdu \cup confirmed \cup dropped
    BY <1>1 DEF FateInv
  <2> QED
    BY <1>1, <1>2, <2>1, <2>2, <2>3 DEF FateInv
<1>9. NoByteLost'
  <2> SUFFICES ASSUME NEW id \in (1 .. offered') \ dropped', NEW b \in 0 .. SduSize[id] - 1
               PROVE  \/ \E t \in Segments' : t.sdu = id /\ b \in SegBytes(t)
                      \/ HasReceived(id, b)'
    BY DEF NoByteLost
  <2>1. id \in (1 .. offered) \ dropped
    BY <1>4
  <2> QED
    BY <1>1, <1>2, <1>3, <2>1 DEF NoByteLost, HasReceived
<1>10. \A x \in Seen : x.sdu \notin dropped'
  BY <1>1, <1>4, SeenIsSent DEF SnInv
<1>11. SnInv' /\ ReceiverInv' /\ ReportInv'
  BY <1>1, <1>2, <1>3, <1>9, <1>10, SeenKept
<1> QED
  BY <1>3, <1>5, <1>6, <1>7, <1>8, <1>11

\* nr_rlc_entity_am_recv_sdu, the SDU taken
LEMMA AcceptanceKeeps ==
    ASSUME LinkInv, offered < Len(SduSize), offered' = offered + 1,
           NEW seg, seg = [sdu |-> offered + 1, sn |-> NoSn, so |-> 0,
                           size |-> SduSize[offered + 1], last |-> TRUE],
           tx_size' = tx_size + SduSize[offered + 1],
           sdu' = [i \in DOMAIN sdu \cup {offered + 1} |->
                      IF i = offered + 1
                      THEN [retx_count |-> -1, ref_count |-> 1, free_count |-> 0]
                      ELSE sdu[i]],
           tx_list' = ListAppend(tx_list, tx_end, seg), tx_end' = seg,
           bstatus' = [bstatus EXCEPT !.tx_size = @ + PduSize(seg)],
           UNCHANGED <<wait_list, wait_end, retransmit_list, snVars, pollVars,
                       confirmed, dropped, data_air, rxVars, linkVars>>
    PROVE  /\ ListInv' /\ SegmentInv' /\ AccountInv' /\ FateInv'
           /\ SnInv' /\ ReceiverInv' /\ ReportInv'
           /\ Numbered' = Numbered
<1> DEFINE id == offered + 1
<1>1. /\ ListInv /\ SegmentInv /\ AccountInv /\ FateInv /\ SnInv /\ ReceiverInv /\ ReportInv
      /\ NoByteLost
  BY DEF LinkInv, ReceiverInv
<1>2. /\ UNCHANGED <<wait_list, wait_end, retransmit_list,
                     tx_next, tx_next_ack, last_sent, poll_sn, confirmed, dropped, data_air,
                     rx_list, rx_next, rx_next_highest, status_air, delivered, garbled>>
  BY DEF snVars, pollVars, rxVars, linkVars
<1>3. /\ offered \in Nat /\ last_sent \in Nat /\ last_sent <= offered
      /\ DOMAIN sdu \subseteq AllSdus /\ IsFiniteSet(DOMAIN sdu)
      /\ \A i \in DOMAIN sdu : i <= offered
      /\ Segments \subseteq Segment /\ Segments = Unsent \cup Waiting \cup Again
      /\ IsFiniteSet(Segments) /\ IsFiniteSet(Unsent) /\ Unsent \subseteq Segment
  BY <1>1, HeldSdus, SegmentsType
<1>4. id \in AllSdus /\ id \in Nat \ {0} /\ SduSize[id] \in Nat \ {0} /\ id \notin DOMAIN sdu
  BY <1>3, SduNumbers
<1> HIDE DEF id
<1>5. /\ seg = [sdu |-> id, sn |-> NoSn, so |-> 0, size |-> SduSize[id], last |-> TRUE]
      /\ offered' = id /\ tx_size' = tx_size + SduSize[id]
      /\ sdu' = [i \in DOMAIN sdu \cup {id} |->
                    IF i = id THEN [retx_count |-> -1, ref_count |-> 1, free_count |-> 0]
                    ELSE sdu[i]]
  BY DEF id
<1>6. /\ seg \in Segment /\ seg.sdu = id /\ seg.sn = NoSn /\ seg.so = 0 /\ seg.size = SduSize[id]
      /\ seg.last = TRUE /\ Fits(seg)
  <2>1. /\ seg \in Segment /\ seg.sdu = id /\ seg.sn = NoSn /\ seg.so = 0 /\ seg.size = SduSize[id]
        /\ seg.last = TRUE
    BY <1>4, <1>5 DEF Segment
  <2> QED
    BY <1>4, <2>1 DEF Fits
<1>7. \A s \in Segments : s.sdu \in Nat /\ s.sdu <= offered /\ s.sdu < id /\ Fits(s)
  <2>1. \A s \in Segments : s.sdu \in Nat /\ s.sdu <= offered /\ Fits(s)
    BY <1>1, <1>3, SduNumbers DEF SegmentInv, Segment
  <2> QED
    BY <1>3, <2>1 DEF id
<1>8. /\ tx_list' \in Seq(Segment) /\ Sorted(tx_list') /\ tx_end' = EndOf(tx_list')
      /\ Unsent' = Unsent \cup {seg}
  <2>1. tx_list \in Seq(Segment) /\ Sorted(tx_list) /\ tx_end = EndOf(tx_list)
    BY <1>1 DEF ListInv
  <2>2. tx_list' = Append(tx_list, seg)
    BY <1>6, <2>1, AppendIs
  <2>3. \A s \in Range(tx_list) : Less(s, seg)
    BY <1>3, <1>6, <1>7 DEF Less, Unsent
  <2>4. LET new == Append(tx_list, seg)
        IN /\ new \in Seq(Segment) /\ Sorted(new)
           /\ Range(new) = Range(tx_list) \cup {seg}
           /\ EndOf(new) = seg
    BY <1>6, <2>1, <2>3, AppendSorted
  <2> QED
    BY <2>2, <2>4 DEF Unsent
<1>9. /\ Waiting' = Waiting /\ Again' = Again
      /\ Segments' = Segments \cup {seg} /\ Numbered' = Numbered
  <2>1. Waiting' = Waiting /\ Again' = Again
    BY <1>2 DEF Waiting, Again
  <2>2. Segments' = Unsent' \cup Waiting' \cup Again'
    BY DEF Segments, Unsent, Waiting, Again
  <2>3. Segments' = Segments \cup {seg}
    BY <1>3, <1>8, <2>1, <2>2
  <2> QED
    BY <1>6, <2>1, <2>3 DEF Numbered
<1>10. ListInv'
  BY <1>1, <1>2, <1>8 DEF ListInv
<1>11. seg \notin Segments
  BY <1>6, <1>7
<1>12. SegmentInv'
  <2>1. \A s \in Segments' : Fits(s) /\ s.sdu <= offered'
    <3>1. \A s \in Segments : Fits(s) /\ s.sdu <= id
      BY <1>4, <1>7
    <3>2. Fits(seg) /\ seg.sdu <= id
      BY <1>4, <1>6
    <3> QED
      BY <1>5, <1>9, <3>1, <3>2
  <2>2. \A s \in Unsent' : (Fresh(s) \/ IsRest(s))'
    <3>1. \A s \in Unsent : (Fresh(s) \/ IsRest(s))'
      BY <1>1, <1>2 DEF SegmentInv, Fresh, IsRest, Age
    <3>2. Fresh(seg)'
      BY <1>2, <1>3, <1>6 DEF Fresh, id
    <3> QED
      BY <1>8, <3>1, <3>2
  <2>3. \A s, t \in Segments' : s = t \/ Apart(s, t)
    <3>1. \A s \in Segments : s.sdu # seg.sdu
      BY <1>6, <1>7
    <3>2. \A s \in Segments : Apart(s, seg) /\ Apart(seg, s)
      BY <3>1 DEF Apart
    <3>3. \A s, t \in Segments : s = t \/ Apart(s, t)
      BY <1>1 DEF SegmentInv
    <3>4. \A s \in Segments' : s \in Segments \/ s = seg
      BY <1>9, Zenon
    <3> SUFFICES ASSUME NEW s \in Segments', NEW t \in Segments'
                 PROVE  s = t \/ Apart(s, t)
      OBVIOUS
    <3>5. (s \in Segments \/ s = seg) /\ (t \in Segments \/ t = seg)
      BY <3>4, Zenon
    <3> QED
      BY <3>2, <3>3, <3>5, Zenon
  <2>4. Unsent' \cap Waiting' = {} /\ Unsent' \cap Again' = {} /\ Waiting' \cap Again' = {}
    BY <1>1, <1>3, <1>8, <1>9, <1>11 DEF SegmentInv
  <2>5. \A s \in Waiting' \cup Again' : s.sn \in SN
    BY <1>1, <1>9 DEF SegmentInv
  <2> QED
    BY <2>1, <2>2, <2>3, <2>4, <2>5 DEF SegmentInv
<1>13. DOMAIN sdu' = DOMAIN sdu \cup {id}
  BY <1>5
<1>14. AccountInv'
  <2>1. /\ sdu \in [DOMAIN sdu -> Counters] /\ DOMAIN sdu = {s.sdu : s \in Segments}
        /\ \A i \in DOMAIN sdu :
              sdu[i].ref_count - sdu[i].free_count = Cardinality(Of(Segments, i))
        /\ tx_size = SumFunctionOnSet(SduSize, DOMAIN sdu)
        /\ bstatus = [tx_size |-> SizeOfSegments(Unsent), retx_size |-> SizeOfSegments(Again)]
    BY <1>1 DEF AccountInv
  <2> DEFINE new == [retx_count |-> -1, ref_count |-> 1, free_count |-> 0]
  <2>2. new \in Counters /\ new.ref_count - new.free_count = 1
    BY DEF Counters
  <2>3. sdu' = [i \in DOMAIN sdu \cup {id} |-> IF i = id THEN new ELSE sdu[i]]
    BY <1>5
  <2> HIDE DEF new
  <2>4. sdu' \in [DOMAIN sdu' -> Counters]
    BY <2>1, <2>2, <2>3
  <2>5. DOMAIN sdu' = {s.sdu : s \in Segments'}
    BY <1>6, <1>9, <1>13, <2>1
  <2>6. ASSUME NEW i \in DOMAIN sdu'
        PROVE  sdu'[i].ref_count - sdu'[i].free_count = Cardinality(Of(Segments', i))
    <3>1. CASE i = id
      <4>1. Of(Segments', i) = {seg}
        BY <1>6, <1>7, <1>9, <3>1 DEF Of
      <4>2. sdu'[i] = new
        BY <1>13, <2>3, <3>1
      <4> QED
        BY <2>2, <4>1, <4>2, FS_Singleton
    <3>2. CASE i # id
      <4>1. Of(Segments', i) = Of(Segments, i)
        BY <1>6, <1>9, <3>2 DEF Of
      <4>2. i \in DOMAIN sdu /\ sdu'[i] = sdu[i]
        BY <1>13, <2>3, <3>2
      <4> QED
        BY <2>1, <4>1, <4>2
    <3> QED
      BY <3>1, <3>2
  <2>7. tx_size' = SumFunctionOnSet(SduSize, DOMAIN sdu')
    <3> DEFINE D == DOMAIN sdu
    <3>1. /\ IsFiniteSet(D) /\ id \notin D /\ \A x \in D \cup {id} : SduSize[x] \in Nat
          /\ D \subseteq AllSdus
      BY <1>3, <1>4, SduNumbers
    <3> HIDE DEF D
    <3>2. SumFunctionOnSet(SduSize, D \cup {id}) = SduSize[id] + SumFunctionOnSet(SduSize, D)
      BY <3>1, SumAdd
    <3>3. SumFunctionOnSet(SduSize, D) \in Nat
      BY <3>1, SumType
    <3> QED
      BY <1>4, <1>5, <1>13, <2>1, <3>2, <3>3 DEF D
  <2>8. bstatus' = [tx_size |-> SizeOfSegments(Unsent'), retx_size |-> SizeOfSegments(Again')]
    <3>1. SizeOfSegments(Unsent \cup {seg}) = SizeOfSegments(Unsent) + PduSize(seg)
      BY <1>3, <1>6, <1>11, SizeOfSegmentsAdd
    <3> QED
      BY <1>8, <1>9, <2>1, <3>1
  <2> QED
    BY <2>4, <2>5, <2>6, <2>7, <2>8 DEF AccountInv
<1>15. FateInv'
  <2>1. id \in 0 .. Len(SduSize) /\ last_sent \in 0 .. id
    BY <1>3, <1>4, SduNumbers DEF id
  <2>2. 1 .. id = (1 .. offered) \cup {id} /\ id \notin 1 .. offered
    BY <1>3 DEF id
  <2>3. 1 .. offered = DOMAIN sdu \cup confirmed \cup dropped
    BY <1>1 DEF FateInv
  <2>4. DOMAIN sdu' \cap (confirmed' \cup dropped') = {}
    BY <1>1, <1>2, <1>13, <2>2, <2>3 DEF FateInv
  <2> QED
    BY <1>1, <1>2, <1>5, <1>13, <2>1, <2>2, <2>3, <2>4 DEF FateInv
<1>16. NoByteLost'
  <2> SUFFICES ASSUME NEW i \in (1 .. offered') \ dropped', NEW b \in 0 .. SduSize[i] - 1
               PROVE  \/ \E t \in Segments' : t.sdu = i /\ b \in SegBytes(t)
                      \/ HasReceived(i, b)'
    BY DEF NoByteLost
  <2>1. CASE i = id
    <3>1. b \in SegBytes(seg)
      BY <1>4, <1>6, <2>1 DEF SegBytes, LastByte
    <3> QED
      BY <1>6, <1>9, <2>1, <3>1
  <2>2. CASE i # id
    <3>1. i \in (1 .. offered) \ dropped
      BY <1>2, <1>3, <1>5, <2>2 DEF id
    <3> QED
      BY <1>1, <1>2, <1>9, <3>1 DEF NoByteLost, HasReceived
  <2> QED
    BY <2>1, <2>2
<1>17. \A x \in Seen : x.sdu \notin dropped'
  BY <1>1, <1>2 DEF SnInv
<1>18. SnInv' /\ ReceiverInv' /\ ReportInv'
  BY <1>1, <1>2, <1>9, <1>16, <1>17, SeenKept
<1> QED
  BY <1>9, <1>10, <1>12, <1>14, <1>15, <1>18

\* nr_rlc_entity_am_discard_sdu
LEMMA DiscardKeeps ==
    ASSUME LinkInv, NEW id, DiscardSdu(id), UNCHANGED <<rxVars, linkVars>>
    PROVE  /\ ListInv' /\ SegmentInv' /\ AccountInv' /\ FateInv'
           /\ SnInv' /\ ReceiverInv' /\ ReportInv'
           /\ Numbered' = Numbered
<1>1. /\ ListInv /\ SegmentInv /\ AccountInv /\ FateInv /\ SnInv /\ ReceiverInv /\ ReportInv
      /\ NoByteLost
  BY DEF LinkInv, ReceiverInv
<1>2. PICK i \in DOMAIN tx_list :
         /\ tx_list[i].sdu = id /\ tx_list[i].so = 0 /\ tx_list[i].last
         /\ tx_list' = RemoveAt(tx_list, i)
         /\ tx_end' = TxEndWithout(i)
         /\ bstatus' = BufferStatusWithout(tx_list[i])
         /\ tx_size' = tx_size - SduSize[id]
  BY DEF DiscardSdu
<1>3. /\ sdu' = Restrict(sdu, DOMAIN sdu \ {id}) /\ dropped' = dropped \cup {id}
      /\ UNCHANGED <<wait_list, wait_end, retransmit_list,
                     tx_next, tx_next_ack, last_sent, poll_sn, offered, confirmed, data_air,
                     rx_list, rx_next, rx_next_highest, status_air, delivered, garbled>>
  BY DEF DiscardSdu, snVars, pollVars, rxVars, linkVars
<1>4. /\ tx_list \in Seq(Segment) /\ Sorted(tx_list) /\ tx_end = EndOf(tx_list)
      /\ i \in 1 .. Len(tx_list)
  BY <1>1, <1>2, RangeIs DEF ListInv
<1>5. /\ offered \in Nat /\ last_sent \in Nat /\ last_sent <= offered
      /\ DOMAIN sdu \subseteq AllSdus /\ IsFiniteSet(DOMAIN sdu)
      /\ Segments \subseteq Segment /\ Segments = Unsent \cup Waiting \cup Again
      /\ IsFiniteSet(Unsent) /\ Unsent \subseteq Segment
  BY <1>1, HeldSdus, SegmentsType
<1>6. PICK seg : seg = tx_list[i]
  OBVIOUS
<1>7. seg \in Unsent /\ seg \in Segments /\ seg \in Segment /\ seg.sdu = id /\ id \in AllSdus
  <2>1. seg \in Unsent
    BY <1>4, <1>6, RangeIs DEF Unsent
  <2> QED
    BY <1>2, <1>5, <1>6, <2>1 DEF Segment
<1>8. /\ Fresh(seg) /\ Fits(seg) /\ seg.so = 0 /\ seg.size = SduSize[id] /\ id > last_sent
      /\ SduSize[id] \in Nat
  <2>1. (Fresh(seg) \/ IsRest(seg)) /\ Fits(seg) /\ seg.so = 0 /\ seg.last
    BY <1>1, <1>2, <1>6, <1>7 DEF SegmentInv
  <2>2. SduSize[id] \in Nat /\ seg.size \in Nat
    BY <1>7, SduNumbers DEF Segment
  <2> QED
    BY <1>7, <2>1, <2>2 DEF Fresh, IsRest, Fits
<1>9. /\ tx_list' \in Seq(Segment) /\ Sorted(tx_list') /\ tx_end' = EndOf(tx_list')
      /\ Unsent' = Unsent \ {seg}
  <2>1. LET new == RemoveAt(tx_list, i)
        IN /\ new \in Seq(Segment) /\ Sorted(new)
           /\ Range(new) = Range(tx_list) \ {tx_list[i]}
           /\ EndOf(new) = IF EndOf(tx_list) # tx_list[i] THEN EndOf(tx_list)
                           ELSE IF i = 1 THEN NoSegment ELSE tx_list[i - 1]
    BY <1>4, RemoveSorted
  <2> QED
    BY <1>2, <1>4, <1>6, <2>1 DEF TxEndWithout, Unsent
<1>10. seg \notin Waiting /\ seg \notin Again
  BY <1>1, <1>7 DEF SegmentInv
<1>11. /\ Waiting' = Waiting /\ Again' = Again /\ Segments' = Segments \ {seg}
       /\ Numbered' = Numbered
  <2>1. Waiting' = Waiting /\ Again' = Again
    BY <1>3 DEF Waiting, Again
  <2>2. Segments' = Unsent' \cup Waiting' \cup Again'
    BY DEF Segments, Unsent, Waiting, Again
  <2>3. Segments' = Segments \ {seg}
    BY <1>5, <1>9, <1>10, <2>1, <2>2
  <2> QED
    BY <1>8, <2>1, <2>3 DEF Numbered, Fresh
<1>12. \A s \in Segments \ {seg} : s.sdu # id
  <2> SUFFICES ASSUME NEW s \in Segments \ {seg}, s.sdu = id
               PROVE  FALSE
    OBVIOUS
  <2>1. Apart(seg, s) /\ Fits(s) /\ s \in Segment
    BY <1>1, <1>5, <1>7 DEF SegmentInv
  <2>2. s.so \in Nat /\ s.size \in Nat \ {0} /\ s.so + s.size <= SduSize[id]
    BY <2>1 DEF Segment, Fits
  <2> QED
    BY <1>7, <1>8, <2>1, <2>2 DEF Apart
<1>13. ListInv'
  BY <1>1, <1>3, <1>9 DEF ListInv
<1>14. SegmentInv'
  <2>1. \A s \in Unsent : (Fresh(s) \/ IsRest(s))'
    BY <1>1, <1>3 DEF SegmentInv, Fresh, IsRest, Age
  <2> QED
    BY <1>1, <1>3, <1>9, <1>11, <2>1 DEF SegmentInv
<1>15. id \in DOMAIN sdu /\ DOMAIN sdu' = DOMAIN sdu \ {id}
       /\ \A j \in DOMAIN sdu' : sdu'[j] = sdu[j]
  BY <1>1, <1>3, <1>7 DEF AccountInv, Restrict
<1>16. AccountInv'
  <2>1. /\ sdu \in [DOMAIN sdu -> Counters] /\ DOMAIN sdu = {s.sdu : s \in Segments}
        /\ \A j \in DOMAIN sdu :
              sdu[j].ref_count - sdu[j].free_count = Cardinality(Of(Segments, j))
        /\ tx_size = SumFunctionOnSet(SduSize, DOMAIN sdu)
        /\ bstatus = [tx_size |-> SizeOfSegments(Unsent), retx_size |-> SizeOfSegments(Again)]
    BY <1>1 DEF AccountInv
  <2>2. sdu' \in [DOMAIN sdu' -> Counters]
    BY <1>3, <1>15, <2>1 DEF Restrict
  <2>3. DOMAIN sdu' = {s.sdu : s \in Segments'}
    BY <1>7, <1>11, <1>12, <1>15, <2>1
  <2>4. ASSUME NEW j \in DOMAIN sdu'
        PROVE  sdu'[j].ref_count - sdu'[j].free_count = Cardinality(Of(Segments', j))
    <3>1. Of(Segments', j) = Of(Segments, j)
      BY <1>7, <1>11, <1>15 DEF Of
    <3> QED
      BY <1>15, <2>1, <3>1
  <2>5. tx_size' = SumFunctionOnSet(SduSize, DOMAIN sdu')
    <3> DEFINE D == DOMAIN sdu
    <3>1. /\ IsFiniteSet(D) /\ id \in D /\ \A x \in D : SduSize[x] \in Nat
          /\ D \subseteq AllSdus /\ IsFiniteSet(D \ {id})
      BY <1>5, <1>15, SduNumbers, FS_Subset
    <3> HIDE DEF D
    <3>2. SumFunctionOnSet(SduSize, D) = SduSize[id] + SumFunctionOnSet(SduSize, D \ {id})
      BY <3>1, SumRemove
    <3>3. \A x \in D \ {id} : SduSize[x] \in Nat
      BY <3>1
    <3>4. SumFunctionOnSet(SduSize, D \ {id}) \in Nat
      BY <3>1, <3>3, SumType
    <3> QED
      BY <1>2, <1>8, <1>15, <2>1, <3>2, <3>4 DEF D
  <2>6. bstatus' = [tx_size |-> SizeOfSegments(Unsent'), retx_size |-> SizeOfSegments(Again')]
    <3> DEFINE S == Unsent \ {seg}
    <3>1. S \in SUBSET Segment /\ IsFiniteSet(S) /\ seg \notin S /\ Unsent = S \cup {seg}
      BY <1>5, <1>7, FS_Subset
    <3>2. S = Unsent'
      BY <1>9
    <3> HIDE DEF S
    <3>3. SizeOfSegments(Unsent) = SizeOfSegments(S) + PduSize(seg)
      BY <1>7, <3>1, SizeOfSegmentsAdd
    <3>4. SizeOfSegments(S) \in Int /\ PduSize(seg) \in Nat
      BY <1>7, <3>1, SizeOfSegmentsSplit, PduSizeType
    <3>5. bstatus' = [bstatus EXCEPT !.tx_size = @ - PduSize(seg)]
      BY <1>2, <1>6 DEF BufferStatusWithout
    <3> QED
      BY <1>11, <2>1, <3>2, <3>3, <3>4, <3>5
  <2> QED
    BY <2>2, <2>3, <2>4, <2>5, <2>6 DEF AccountInv
<1>17. FateInv'
  BY <1>1, <1>3, <1>15 DEF FateInv
<1>18. NoByteLost'
  <2> SUFFICES ASSUME NEW j \in (1 .. offered') \ dropped', NEW b \in 0 .. SduSize[j] - 1
               PROVE  \/ \E t \in Segments' : t.sdu = j /\ b \in SegBytes(t)
                      \/ HasReceived(j, b)'
    BY DEF NoByteLost
  <2>1. j \in (1 .. offered) \ dropped /\ j # id
    BY <1>3
  <2> QED
    BY <1>1, <1>3, <1>7, <1>11, <2>1 DEF NoByteLost, HasReceived
<1>19. \A x \in Seen : x.sdu \notin dropped'
  <2>1. \A x \in Seen : x.sdu # id
    <3>1. id \in Nat
      BY <1>7, SduNumbers
    <3> QED
      BY <1>1, <1>5, <1>8, <3>1, SeenIsSent
  <2> QED
    BY <1>1, <1>3, <2>1 DEF SnInv
<1>20. SnInv' /\ ReceiverInv' /\ ReportInv'
  BY <1>1, <1>3, <1>11, <1>18, <1>19, SeenKept
<1> QED
  BY <1>11, <1>13, <1>14, <1>16, <1>17, <1>20

\* retx_count stays a number.
LEMMA RetxCapType == RetxCap \in Int
<1> DEFINE A == {SduSize[i] : i \in AllSdus} \cup {1}
           f == SduSize
           total == SumFunctionOnSet(f, AllSdus)
<1>1. /\ IsFiniteSet(AllSdus) /\ \A i \in AllSdus : f[i] \in Nat
  BY SduNumbers, FirstNumbers
<1> HIDE DEF f
<1>2. total \in Nat
  BY <1>1, SumType
<1>3. ASSUME NEW i \in AllSdus
      PROVE  f[i] <= total
  <2>1. total = f[i] + SumFunctionOnSet(f, AllSdus \ {i})
    BY <1>1, SumRemove
  <2>2. SumFunctionOnSet(f, AllSdus \ {i}) \in Nat
    <3>1. IsFiniteSet(AllSdus \ {i})
      BY <1>1, FS_Subset
    <3> QED
      BY <1>1, <3>1, SumType
  <2> QED
    BY <1>1, <2>1, <2>2
<1> HIDE DEF total
<1>4. /\ A \in SUBSET Nat /\ A # {} /\ total + 1 \in Nat /\ \A m \in A : m <= total + 1
  BY <1>1, <1>2, <1>3 DEF f
<1>5. Max(A) \in A
  BY <1>4, MaxOfNumbers
<1>6. MaxRetx \in Nat /\ Max(A) \in Nat
  BY <1>4, <1>5, TxAssumption
<1>7. RetxCap = MaxRetx * Max(A)
  BY DEF RetxCap
<1> HIDE DEF A
<1> QED
  BY <1>6, <1>7

LEMMA CappedType ==
    ASSUME NEW n \in Int
    PROVE  Min({n, RetxCap}) \in Int
<1> DEFINE m == Min({n, RetxCap})
<1>1. \E x \in {n, RetxCap} : \A y \in {n, RetxCap} : x <= y
  BY RetxCapType
<1>2. m \in {n, RetxCap}
  BY <1>1 DEF Min
<1> QED
  BY <1>2, RetxCapType

\* Steps of the receiver that store nothing
Quiet ==
    UNCHANGED <<tx_list, tx_end, wait_list, wait_end, retransmit_list, sdu, bstatus, tx_size,
                tx_next, tx_next_ack, last_sent, poll_sn, offered, confirmed, dropped,
                rx_list, rx_next, rx_next_highest, delivered, garbled>>

LEMMA QuietSides ==
    ASSUME LinkInv, Quiet, data_air' \subseteq data_air
    PROVE  /\ ListInv' /\ SegmentInv' /\ AccountInv' /\ FateInv' /\ SnInv' /\ ReceiverInv'
           /\ Numbered' = Numbered
<1>1. /\ ListInv /\ SegmentInv /\ AccountInv /\ FateInv /\ SnInv /\ ReceiverInv /\ ReportInv
      /\ NoByteLost
  BY DEF LinkInv, ReceiverInv
<1>2. UNCHANGED <<tx_list, tx_end, wait_list, wait_end, retransmit_list, sdu, bstatus, tx_size,
                  tx_next, tx_next_ack, last_sent, poll_sn, offered, confirmed, dropped,
                  rx_list, rx_next, rx_next_highest, delivered, garbled>>
  BY DEF Quiet
<1>3. /\ Segments' = Segments /\ Unsent' = Unsent /\ Waiting' = Waiting /\ Again' = Again
      /\ Numbered' = Numbered
  BY <1>2 DEF Segments, Unsent, Waiting, Again, Numbered
<1>4. ListInv' /\ AccountInv' /\ FateInv'
  BY <1>1, <1>2, <1>3 DEF ListInv, AccountInv, FateInv
<1>5. SegmentInv'
  <2>1. \A s \in Unsent : (Fresh(s) \/ IsRest(s))'
    BY <1>1, <1>2 DEF SegmentInv, Fresh, IsRest, Age
  <2> QED
    BY <1>1, <1>2, <1>3, <2>1 DEF SegmentInv
<1>6. NoByteLost'
  BY <1>1, <1>2, <1>3 DEF NoByteLost, HasReceived
<1>7. Seen' \subseteq Seen
  BY <1>2, <1>3 DEF Seen
<1>8. SnInv'
  <2>1. \A x \in Seen' : /\ Fits(x) /\ x.sdu \notin dropped'
                         /\ \E y \in Seen : y.sn = x.sn /\ y.sdu = x.sdu
    BY <1>1, <1>2, <1>7 DEF SnInv
  <2>2. tx_next_ack' \in SN /\ Modulus(tx_next_ack', tx_next) <= WindowSize /\ poll_sn' \in SN
    BY <1>1, <1>2 DEF SnInv, Age
  <2> QED
    BY <1>1, <1>2, <2>1, <2>2, SnKept
<1>9. ReceiverInv'
  <2>1. Age(rx_next) <= Modulus(tx_next_ack', tx_next) /\ data_air' \subseteq Pdus
    BY <1>1, <1>2 DEF ReceiverInv, Age
  <2>2. \A x \in Seen' : \E y \in Seen : y.sn = x.sn /\ y.sdu = x.sdu
    BY <1>7
  <2>3. \A s \in Numbered : Age(s.sn) <= Age(rx_next) =>
           SduDelivered(rx_list, s.sn) \/ \E t \in Numbered' : t.sn = s.sn
    BY <1>3
  <2> QED
    BY <1>1, <1>2, <1>6, <2>1, <2>2, <2>3, ReceiverKept
<1> QED
  BY <1>3, <1>4, <1>5, <1>8, <1>9

\* Losses, the timers of the receiver, stuttering
LEMMA QuietKeeps ==
    ASSUME LinkInv, Quiet, data_air' \subseteq data_air, status_air' \subseteq status_air
    PROVE  /\ ListInv' /\ SegmentInv' /\ AccountInv' /\ FateInv'
           /\ SnInv' /\ ReceiverInv' /\ ReportInv'
<1>1. /\ ListInv' /\ SegmentInv' /\ AccountInv' /\ FateInv' /\ SnInv' /\ ReceiverInv'
      /\ Numbered' = Numbered
  BY QuietSides
<1>2. \A s \in Numbered' : \A b \in SegBytes(s) :
         \E t \in Numbered : t.sn = s.sn /\ t.sdu = s.sdu /\ b \in SegBytes(t)
  BY <1>1
<1>3. \A id \in AllSdus : \A b : HasReceived(id, b) => HasReceived(id, b)'
  BY DEF HasReceived, Quiet
<1>4. Numbered \subseteq Segment /\ ReportInv /\ tx_next' = tx_next /\ last_sent' = last_sent
  BY SegmentsType DEF Numbered, LinkInv, Quiet
<1> QED
  BY <1>1, <1>2, <1>3, <1>4, ReportsKept

\* check_t_poll_retransmit
LEMMA PollTimerKeeps ==
    ASSUME LinkInv, TxNextAckIsSmallestUnacked, PollRetransmitExpires,
           UNCHANGED <<rxVars, linkVars>>
    PROVE  /\ ListInv' /\ SegmentInv' /\ AccountInv' /\ FateInv'
           /\ SnInv' /\ ReceiverInv' /\ ReportInv'
           /\ Numbered' = Numbered
<1>1. /\ ListInv /\ SegmentInv /\ AccountInv /\ FateInv /\ SnInv /\ ReceiverInv /\ ReportInv
      /\ NoByteLost
  BY DEF LinkInv, ReceiverInv
<1> DEFINE needed == PollAfterAssembly(tx_list, retransmit_list, tx_next_ack, tx_next)
           same == {i \in DOMAIN wait_list :
                       \A j \in 1 .. i : wait_list[j].sn = wait_list[1].sn}
           n == Cardinality(same)
           again == SubSeq(wait_list, 1, n)
           id == wait_list[1].sdu
<1>2. /\ UNCHANGED <<tx_size, tx_next, tx_next_ack, last_sent, poll_sn, offered, confirmed,
                     dropped, data_air, rx_list, rx_next, rx_next_highest, status_air,
                     delivered, garbled>>
  BY DEF PollRetransmitExpires, snVars, rxVars, linkVars
<1>3. \/ UNCHANGED <<listVars, sdu, bstatus>>
      \/ /\ needed /\ wait_list # <<>>
         /\ wait_list' = SubSeq(wait_list, Len(again) + 1, Len(wait_list))
         /\ wait_end' = IF wait_list' = <<>> THEN NoSegment ELSE wait_end
         /\ retransmit_list' = ListAddAll(retransmit_list, again)
         /\ bstatus' = [bstatus EXCEPT !.retx_size = @ + Sizes(again)]
         /\ sdu' = [sdu EXCEPT ![id].retx_count = Min({@ + 1, RetxCap})]
         /\ UNCHANGED <<tx_list, tx_end>>
  BY DEF PollRetransmitExpires
<1>4. CASE UNCHANGED <<listVars, sdu, bstatus>>
  <2>1. UNCHANGED <<tx_list, tx_end, wait_list, wait_end, retransmit_list, sdu, bstatus>>
    BY <1>4 DEF listVars
  <2>2. Quiet /\ data_air' \subseteq data_air /\ status_air' \subseteq status_air
    BY <1>2, <2>1 DEF Quiet
  <2> QED
    BY <2>2, QuietKeeps, QuietSides
<1>5. CASE ~UNCHANGED <<listVars, sdu, bstatus>>
  <2>1. /\ wait_list # <<>>
        /\ wait_list' = SubSeq(wait_list, Len(again) + 1, Len(wait_list))
        /\ wait_end' = IF wait_list' = <<>> THEN NoSegment ELSE wait_end
        /\ retransmit_list' = ListAddAll(retransmit_list, again)
        /\ bstatus' = [bstatus EXCEPT !.retx_size = @ + Sizes(again)]
        /\ sdu' = [sdu EXCEPT ![id].retx_count = Min({@ + 1, RetxCap})]
        /\ UNCHANGED <<tx_list, tx_end>>
    BY <1>3, <1>5
  <2>2. /\ wait_list \in Seq(Segment) /\ Sorted(wait_list) /\ wait_end = EndOf(wait_list)
        /\ retransmit_list \in Seq(Segment) /\ Sorted(retransmit_list)
        /\ IsFiniteSet(DOMAIN wait_list) /\ DOMAIN wait_list = 1 .. Len(wait_list)
        /\ Len(wait_list) \in Nat
    BY <1>1, RangeIs DEF ListInv
  <2>3. n \in 0 .. Len(wait_list)
    <3>1. n <= Cardinality(1 .. Len(wait_list)) /\ IsFiniteSet(same)
      BY <2>2, FS_Subset
    <3>2. Cardinality(1 .. Len(wait_list)) = Len(wait_list)
      BY <2>2, FirstNumbers
    <3>3. n \in Nat
      BY <3>1, FS_CardinalityType
    <3> QED
      BY <2>2, <3>1, <3>2, <3>3
  <2> HIDE DEF n
  <2>4. /\ again \in Seq(Segment) /\ Sorted(again) /\ Len(again) = n
        /\ wait_list' \in Seq(Segment) /\ Sorted(wait_list')
        /\ Waiting = Range(again) \cup Waiting' /\ Range(again) \cap Waiting' = {}
        /\ wait_end' = EndOf(wait_list')
    <3> DEFINE back == SubSeq(wait_list, n + 1, Len(wait_list))
    <3>1. /\ again \in Seq(Segment) /\ Sorted(again) /\ Len(again) = n
          /\ back \in Seq(Segment) /\ Sorted(back)
          /\ Range(wait_list) = Range(again) \cup Range(back)
          /\ Range(again) \cap Range(back) = {}
          /\ EndOf(back) = IF back = <<>> THEN NoSegment ELSE EndOf(wait_list)
      BY <2>2, <2>3, CutSorted
    <3>2. wait_list' = back
      BY <2>1, <3>1
    <3> HIDE DEF back, again
    <3> QED
      BY <2>1, <2>2, <3>1, <3>2 DEF Waiting
  <2> HIDE DEF again
  <2>5. Waiting \cap Again = {} /\ Unsent \cap Waiting = {} /\ Unsent \cap Again = {}
    BY <1>1 DEF SegmentInv
  <2>6. /\ retransmit_list' \in Seq(Segment) /\ Sorted(retransmit_list')
        /\ Again' = Again \cup Range(again)
    <3>1. Range(retransmit_list) \cap Range(again) = {}
      BY <2>4, <2>5 DEF Again
    <3>2. Comparable(Range(retransmit_list) \cup Range(again))
      <4>1. Comparable(Numbered) /\ Waiting \cup Again \subseteq Numbered
        BY <1>1, NumberedComparable
      <4>2. Range(retransmit_list) \cup Range(again) \subseteq Numbered
        BY <2>4, <4>1 DEF Again
      <4> QED
        BY <4>1, <4>2 DEF Comparable
    <3>3. LET new == ListAddAll(retransmit_list, again)
          IN /\ new \in Seq(Segment) /\ Sorted(new)
             /\ Range(new) = Range(retransmit_list) \cup Range(again)
      BY <2>2, <2>4, <3>1, <3>2, AddAllIs
    <3> QED
      BY <2>1, <3>3 DEF Again
  <2>7. /\ Segments \subseteq Segment /\ Segments = Unsent \cup Waiting \cup Again
        /\ IsFiniteSet(Waiting) /\ IsFiniteSet(Again) /\ Waiting \subseteq Segment
        /\ Again \subseteq Segment
    <3>1. /\ Segments \subseteq Segment /\ Segments = Unsent \cup Waiting \cup Again
          /\ IsFiniteSet(Waiting) /\ IsFiniteSet(Again)
      BY <1>1, SegmentsType
    <3> QED
      BY <3>1
  <2>8. Unsent' = Unsent /\ Segments' = Segments /\ Numbered' = Numbered
    <3>1. Unsent' = Unsent
      BY <2>1 DEF Unsent
    <3>2. Segments' = Unsent' \cup Waiting' \cup Again'
      BY DEF Segments, Unsent, Waiting, Again
    <3>3. Segments' = Segments
      BY <2>4, <2>6, <2>7, <3>1, <3>2
    <3> QED
      BY <3>1, <3>3 DEF Numbered
  <2>9. ListInv'
    BY <1>1, <2>1, <2>4, <2>6 DEF ListInv
  <2>10. SegmentInv'
    <3>1. \A s \in Unsent : (Fresh(s) \/ IsRest(s))'
      BY <1>1, <1>2 DEF SegmentInv, Fresh, IsRest, Age
    <3>2. Waiting' \cup Again' = Waiting \cup Again
      BY <2>4, <2>6
    <3>3. Unsent' \cap Waiting' = {} /\ Unsent' \cap Again' = {} /\ Waiting' \cap Again' = {}
      BY <2>4, <2>5, <2>6, <2>8
    <3> QED
      BY <1>1, <1>2, <2>8, <3>1, <3>2, <3>3 DEF SegmentInv
  <2>11. /\ sdu \in [DOMAIN sdu -> Counters] /\ DOMAIN sdu = {s.sdu : s \in Segments}
         /\ \A j \in DOMAIN sdu :
               sdu[j].ref_count - sdu[j].free_count = Cardinality(Of(Segments, j))
         /\ tx_size = SumFunctionOnSet(SduSize, DOMAIN sdu)
         /\ bstatus = [tx_size |-> SizeOfSegments(Unsent), retx_size |-> SizeOfSegments(Again)]
    BY <1>1 DEF AccountInv
  <2>12. id \in DOMAIN sdu
    <3>1. wait_list[1] \in Waiting
      <4>1. 1 \in 1 .. Len(wait_list)
        BY <2>1, <2>2, EmptySeq
      <4> QED
        BY <2>2, <4>1, RangeIs DEF Waiting
    <3> QED
      BY <2>7, <2>11, <3>1
  <2> HIDE DEF id
  <2>13. /\ DOMAIN sdu' = DOMAIN sdu /\ sdu' \in [DOMAIN sdu -> Counters]
         /\ \A j \in DOMAIN sdu : /\ sdu'[j].ref_count = sdu[j].ref_count
                                  /\ sdu'[j].free_count = sdu[j].free_count
    <3> DEFINE m == Min({sdu[id].retx_count + 1, RetxCap})
               c == [sdu[id] EXCEPT !.retx_count = m]
    <3>1. sdu' = [sdu EXCEPT ![id] = c]
      BY <2>1
    <3>2. sdu[id] \in Counters /\ sdu[id].retx_count + 1 \in Int
      BY <2>11, <2>12 DEF Counters
    <3>3. m \in Int
      BY <3>2, CappedType
    <3> HIDE DEF m
    <3>4. c \in Counters /\ c.ref_count = sdu[id].ref_count /\ c.free_count = sdu[id].free_count
      BY <3>2, <3>3 DEF Counters
    <3> HIDE DEF c
    <3> QED
      BY <2>11, <2>12, <3>1, <3>4
  <2>14. AccountInv'
    <3>1. SizeOfSegments(Again') = SizeOfSegments(Again) + Sizes(again)
      <4> DEFINE S == Again \cup Range(again)
      <4>1. S \in SUBSET Segment /\ IsFiniteSet(S) /\ Again \in SUBSET S /\ S \ Again = Range(again)
        <5>1. IsFiniteSet(Range(again))
          BY <2>4, RangeFinite
        <5> QED
          BY <2>4, <2>5, <2>7, <5>1, FS_Union
      <4>2. S = Again'
        BY <2>6
      <4> HIDE DEF S
      <4>3. /\ SizeOfSegments(S) \in Int /\ SizeOfSegments(Again) \in Int
            /\ SizeOfSegments(S \ Again) = SizeOfSegments(S) - SizeOfSegments(Again)
        BY <4>1, SizeOfSegmentsSplit
      <4>4. Sizes(again) = SizeOfSegments(Range(again))
        BY <2>4, SortedIsInjective, SizesAre
      <4> QED
        BY <4>1, <4>2, <4>3, <4>4
    <3>2. bstatus' = [tx_size |-> SizeOfSegments(Unsent'), retx_size |-> SizeOfSegments(Again')]
      BY <2>1, <2>8, <2>11, <3>1
    <3>3. \A j \in DOMAIN sdu' :
             sdu'[j].ref_count - sdu'[j].free_count = Cardinality(Of(Segments', j))
      BY <2>8, <2>11, <2>13
    <3>4. tx_size' = SumFunctionOnSet(SduSize, DOMAIN sdu')
      BY <1>2, <2>11, <2>13
    <3> QED
      BY <2>8, <2>11, <2>13, <3>2, <3>3, <3>4 DEF AccountInv
  <2>15. FateInv'
    BY <1>1, <1>2, <2>13 DEF FateInv
  <2>16. NoByteLost'
    BY <1>1, <1>2, <2>8 DEF NoByteLost, HasReceived
  <2>17. \A x \in Seen : x.sdu \notin dropped'
    BY <1>1, <1>2 DEF SnInv
  <2>18. SnInv' /\ ReceiverInv' /\ ReportInv'
    BY <1>1, <1>2, <2>8, <2>16, <2>17, SeenKept
  <2> QED
    BY <2>8, <2>9, <2>10, <2>14, <2>15, <2>18
<1> QED
  BY <1>4, <1>5

-----------------------------------------------------------------------------
(* A report is made *)

LEMMA SameSdu ==
    ASSUME SnInv, NEW x \in Seen, NEW y \in Seen
    PROVE  /\ x.sn \in SN /\ y.sn \in SN /\ x.sdu \in Nat /\ y.sdu \in Nat
           /\ x.sn = y.sn <=> x.sdu = y.sdu
           /\ Age(x.sn) \in Nat /\ Age(y.sn) \in Nat
<1>1. x.sn \in SN /\ y.sn \in SN /\ x.sdu \in AllSdus /\ y.sdu \in AllSdus /\ tx_next \in SN
  BY DEF SnInv
<1>2. x.sdu \in Nat /\ y.sdu \in Nat
  BY <1>1, SduNumbers
<1>3. Age(x.sn) \in Nat /\ Age(y.sn) \in Nat
  BY <1>1, AgeType, SnAssumption DEF Age
<1>4. (x.sdu < y.sdu <=> Age(y.sn) < Age(x.sn)) /\ (y.sdu < x.sdu <=> Age(x.sn) < Age(y.sn))
  BY DEF SnInv
<1>5. Age(x.sn) = Age(y.sn) <=> x.sdu = y.sdu
  BY <1>2, <1>3, <1>4
<1>6. Age(x.sn) = Age(y.sn) => x.sn = y.sn
  BY <1>1, AgeInjective DEF Age
<1> QED
  BY <1>1, <1>2, <1>3, <1>5, <1>6

\* The distances of the receiver, as ages
LEMMA RxOffsetIs ==
    ASSUME SnInv, RxTypeOK, NEW sn \in SN
    PROVE  /\ RxOffset(sn) \in Nat /\ Age(sn) \in Nat /\ Age(rx_next) \in Nat
           /\ Age(sn) <= Age(rx_next) => RxOffset(sn) = Age(rx_next) - Age(sn)
           /\ RxOffset(sn) <= Age(rx_next) => Age(sn) <= Age(rx_next)
<1>1. tx_next \in SN /\ rx_next \in SN
  BY DEF SnInv, RxTypeOK
<1>2. Age(sn) \in 0 .. SnModulus - 1 /\ Age(rx_next) \in 0 .. SnModulus - 1
  BY <1>1, AgeType DEF Age
<1>3. RxOffset(sn) = IF Age(sn) <= Age(rx_next) THEN Age(rx_next) - Age(sn)
                     ELSE Age(rx_next) - Age(sn) + SnModulus
  BY <1>1, AgeOffset DEF Age, RxOffset
<1> QED
  BY <1>2, <1>3, SnAssumption

\* A new report NACKs what the receiver does not have.
LEMMA NewReportHonest ==
    ASSUME LinkInv, NEW size \in Nat, size >= StatusHeader
    PROVE  Honest(StatusReport(size))
<1> DEFINE r == StatusReport(size)
<1>1. /\ RxInv /\ RxTypeOK /\ ListFinite /\ SnInv /\ ReceiverInv /\ ListInv
  BY DEF LinkInv, RxInv
<1> SUFFICES ASSUME NEW s \in Numbered, NEW b \in SegBytes(s),
                    Age(r.ack_sn) < Age(s.sn), ~Nacks(r, s.sn, b, b),
                    delivered[s.sdu] # 1,
                    ~\E l \in rx_list : l.sdu = s.sdu /\ b \in Bytes(l)
             PROVE  FALSE
  BY DEF Honest, HasReceived
<1>2. /\ s \in Seen /\ s \in Segment /\ s.sn \in SN /\ Age(s.sn) <= Age(rx_next)
      /\ Fits(s)
  <2>1. s \in Seen /\ s \in Segment
    BY <1>1, SegmentsType DEF Seen, Numbered
  <2>2. s.sn \in SN /\ Fits(s)
    BY <1>1, <2>1 DEF SnInv
  <2>3. Age(s.sn) \in Nat /\ Age(rx_next) \in Nat
    BY <1>1, <2>2, RxOffsetIs
  <2>4. Age(rx_next) < Age(s.sn) => delivered[s.sdu] = 1
    BY <1>1, <2>1 DEF ReceiverInv
  <2> QED
    BY <2>1, <2>2, <2>3, <2>4
<1>3. /\ b \in Nat /\ b < SduSize[s.sdu] /\ s.sdu \in AllSdus /\ SduSize[s.sdu] \in Nat
  BY <1>2, SduNumbers DEF SegBytes, LastByte, Segment, Fits
<1> HIDE DEF r
<1>4. ASSUME NEW sn \in SN
      PROVE  /\ r.ack_sn \in SN
             /\ RxOffset(r.ack_sn) <= RxOffset(rx_highest_status)
             /\ RxOffset(sn) < RxOffset(r.ack_sn) =>
                   \A c \in GapStarts(sn) : \E part \in NackedParts(r.nacks, sn) :
                      /\ part.so_start \in Nat /\ part.so_start <= c
                      /\ part.so_end = ToEnd \/ part.so_end = Gap(sn, c).so_end
  BY <1>1, GapIsNamed DEF r
<1>5. Age(r.ack_sn) <= Age(rx_next) /\ RxOffset(s.sn) < RxOffset(r.ack_sn)
  <2>1. Age(r.ack_sn) \in Nat /\ Age(s.sn) \in Nat /\ Age(rx_next) \in Nat
    BY <1>1, <1>2, <1>4, RxOffsetIs
  <2>2. Age(r.ack_sn) <= Age(rx_next)
    BY <1>2, <2>1
  <2> QED
    BY <1>1, <1>2, <1>4, <2>1, <2>2, RxOffsetIs
<1>6. ASSUME NEW c \in GapStarts(s.sn), c <= b,
             Gap(s.sn, c).so_end = ToEnd \/ b <= Gap(s.sn, c).so_end
      PROVE  FALSE
  <2>1. PICK part \in NackedParts(r.nacks, s.sn) :
           /\ part.so_start \in Nat /\ part.so_start <= c
           /\ part.so_end = ToEnd \/ part.so_end = Gap(s.sn, c).so_end
    BY <1>2, <1>4, <1>5
  <2>2. c \in Nat
    BY <1>1, <1>2, GapIs
  <2>3. part.so_end = ToEnd \/ part.so_end >= b
    BY <1>6, <2>1
  <2>4. part.so_start <= b
    BY <1>3, <1>6, <2>1, <2>2
  <2>5. Overlaps(part, b, b)
    BY <2>3, <2>4 DEF Overlaps
  <2> QED
    BY <2>1, <2>5 DEF Nacks
<1>7. \A l \in SegmentsOf(rx_list, s.sn) :
         /\ l \in rx_list /\ l \in Seen /\ l.sdu = s.sdu /\ Fits(l)
         /\ l.so \in Nat /\ l.size \in Nat \ {0} /\ b \notin Bytes(l)
  <2> SUFFICES ASSUME NEW l \in SegmentsOf(rx_list, s.sn)
               PROVE  /\ l \in rx_list /\ l \in Seen /\ l.sdu = s.sdu /\ Fits(l)
                      /\ l.so \in Nat /\ l.size \in Nat \ {0} /\ b \notin Bytes(l)
    OBVIOUS
  <2>1. l \in rx_list /\ l \in Seen /\ l.sn = s.sn
    BY DEF SegmentsOf, Seen
  <2>2. l.sdu = s.sdu
    BY <1>1, <1>2, <2>1, SameSdu
  <2>3. l.so \in Nat /\ l.size \in Nat \ {0} /\ Fits(l)
    BY <1>1, <2>1 DEF RxTypeOK, StoredPdu, SnInv
  <2> QED
    BY <2>1, <2>2, <2>3
<1>8. b \notin Covered(rx_list, s.sn)
  BY <1>7 DEF Covered
<1>9. CASE \E l \in SegmentsOf(rx_list, s.sn) : b <= l.so
  <2>1. PICK l \in SegmentsOf(rx_list, s.sn) : b <= l.so
    BY <1>9
  <2>2. b \in 0 .. l.so
    BY <1>3, <1>7, <2>1
  <2> QED
    BY <1>1, <1>2, <1>6, <1>8, <2>2, GapOfByte
<1>10. CASE ~\E l \in SegmentsOf(rx_list, s.sn) : b <= l.so
  <2>1. \A l \in SegmentsOf(rx_list, s.sn) : l.so + l.size <= b
    BY <1>3, <1>7, <1>10 DEF Bytes
  <2>2. \A l \in SegmentsOf(rx_list, s.sn) : ~l.last
    BY <1>3, <1>7, <2>1 DEF Fits
  <2>3. PICK c \in GapStarts(s.sn) : Gap(s.sn, c).so_end = ToEnd
    BY <1>1, <1>2, <2>2, GapToEnd
  <2>4. c = 0 \/ \E l \in SegmentsOf(rx_list, s.sn) : c = l.so + l.size
    BY DEF GapStarts
  <2>5. c <= b
    BY <1>3, <2>1, <2>4
  <2> QED
    BY <1>6, <2>3, <2>5
<1> QED
  BY <1>9, <1>10

\* nr_mac_rlc_data_req at the receiver
LEMMA PullReportKeeps ==
    ASSUME LinkInv, MacPullsReport
    PROVE  /\ ListInv' /\ SegmentInv' /\ AccountInv' /\ FateInv'
           /\ SnInv' /\ ReceiverInv' /\ ReportInv'
<1>1. PICK size \in StatusGrants :
         /\ GenerateStatus(size)
         /\ status_air' = status_air \cup {[report |-> StatusReport(size), born |-> last_sent]}
  BY DEF MacPullsReport
<1>2. UNCHANGED <<txVars, delivered, garbled>>
  BY DEF MacPullsReport
<1>3. Quiet /\ data_air' = data_air
  BY <1>1, <1>2 DEF Quiet, GenerateStatus, txVars, listVars, sizeVars, snVars, pollVars, upperVars
<1>4. /\ ListInv' /\ SegmentInv' /\ AccountInv' /\ FateInv' /\ SnInv' /\ ReceiverInv'
      /\ Numbered' = Numbered
  BY <1>3, QuietSides
<1> DEFINE r == StatusReport(size)
<1>5. size \in Nat /\ size >= StatusHeader
  BY <1>1, RxAssumption DEF GenerateStatus, StatusHeader
<1>6. /\ RxInv /\ RxTypeOK /\ RxWindowOrdered /\ ListFinite /\ SnInv /\ ReceiverInv /\ ListInv
      /\ FateInv /\ ReportInv
  BY DEF LinkInv, RxInv
<1>7. Honest(r)
  BY <1>5, NewReportHonest
<1> HIDE DEF r
<1>8. ASSUME NEW sn \in SN
      PROVE  /\ r.ack_sn \in SN
             /\ RxOffset(r.ack_sn) <= RxOffset(rx_highest_status)
             /\ \A part \in NackedParts(r.nacks, sn) :
                   /\ RxOffset(sn) < RxOffset(r.ack_sn)
                   /\ part.so_start \in Int /\ part.so_end \in Int
  BY <1>5, <1>6, GapIsNamed DEF r
<1>9. r.ack_sn \in SN /\ RxOffset(r.ack_sn) <= RxOffset(rx_highest_status)
  BY <1>6, <1>8 DEF SnInv
<1>10. NackedParts(r.nacks, r.ack_sn) = {}
  <2>1. RxOffset(r.ack_sn) \in Nat
    BY <1>6, <1>9, RxOffsetIs
  <2> QED
    BY <1>8, <1>9, <2>1
<1>11. Age(r.ack_sn) <= Age(tx_next_ack)
  <2>1. /\ RxOffset(rx_highest_status) <= RxOffset(rx_next_highest)
        /\ RxOffset(rx_next_highest) <= Age(rx_next) /\ Age(rx_next) <= Age(tx_next_ack)
        /\ rx_highest_status \in SN /\ rx_next_highest \in SN /\ tx_next_ack \in SN
    BY <1>6 DEF RxWindowOrdered, ReceiverInv, RxTypeOK, SnInv
  <2>2. /\ RxOffset(rx_highest_status) \in Nat /\ RxOffset(rx_next_highest) \in Nat
        /\ RxOffset(r.ack_sn) \in Nat /\ Age(rx_next) \in Nat /\ Age(tx_next_ack) \in Nat
        /\ Age(r.ack_sn) \in Nat
    BY <1>6, <1>9, <2>1, RxOffsetIs
  <2>3. RxOffset(r.ack_sn) <= Age(rx_next)
    BY <1>9, <2>1, <2>2
  <2>4. Age(r.ack_sn) <= Age(rx_next)
    BY <1>6, <1>9, <2>3, RxOffsetIs
  <2> QED
    BY <2>1, <2>2, <2>4
<1>12. Age(r.ack_sn) <= WindowSize + last_sent - last_sent /\ last_sent \in Nat
  <2>1. Age(r.ack_sn) \in Nat /\ Age(tx_next_ack) \in Nat /\ last_sent \in Nat
        /\ Age(tx_next_ack) <= WindowSize
    BY <1>6, <1>9, RxOffsetIs, HeldSdus DEF SnInv
  <2> QED
    BY <1>11, <2>1, SnAssumption
<1>13. ReportInv'
  <2>1. /\ \A sn : Age(sn)' = Age(sn)
        /\ \A id, b : HasReceived(id, b)' = HasReceived(id, b)
        /\ last_sent' = last_sent
    BY <1>3 DEF Quiet, Age, HasReceived
  <2>2. \A report : Honest(report) => Honest(report)'
    BY <1>4, <2>1 DEF Honest
  <2>3. ASSUME NEW q \in status_air'
        PROVE  /\ q.report.ack_sn \in SN
               /\ q.born \in Nat /\ q.born <= last_sent /\ last_sent < q.born + WindowSize
               /\ Age(q.report.ack_sn) <= WindowSize + last_sent - q.born
               /\ NackedParts(q.report.nacks, q.report.ack_sn) = {}
               /\ \A sn \in SN : \A part \in NackedParts(q.report.nacks, sn) :
                     part.so_start \in Int /\ part.so_end \in Int
               /\ Honest(q.report)
    <3>1. CASE q \in status_air
      BY <1>6, <3>1 DEF ReportInv
    <3>2. CASE q \notin status_air
      <4>1. q.report = r /\ q.born = last_sent
        BY <1>1, <3>2 DEF r
      <4> QED
        BY <1>7, <1>8, <1>9, <1>10, <1>12, <4>1, SnAssumption
    <3> QED
      BY <3>1, <3>2
  <2>4. \A q \in status_air' :
           /\ q.report.ack_sn \in SN
           /\ q.born \in Nat /\ q.born <= last_sent' /\ last_sent' < q.born + WindowSize
           /\ Age(q.report.ack_sn)' <= WindowSize + last_sent' - q.born
           /\ NackedParts(q.report.nacks, q.report.ack_sn) = {}
           /\ \A sn \in SN : \A part \in NackedParts(q.report.nacks, sn) :
                 part.so_start \in Int /\ part.so_end \in Int
           /\ Honest(q.report)'
    BY <2>1, <2>2, <2>3
  <2> QED
    BY <2>4 DEF ReportInv
<1> QED
  BY <1>4, <1>13

-----------------------------------------------------------------------------
(* The start, and the re-establishment *)

\* Nothing is held and nothing is in flight.
Cleared ==
    /\ tx_list = <<>> /\ tx_end = NoSegment /\ wait_list = <<>> /\ wait_end = NoSegment
    /\ retransmit_list = <<>> /\ sdu = <<>> /\ tx_size = 0
    /\ bstatus = [tx_size |-> 0, retx_size |-> 0]
    /\ tx_next = 0 /\ tx_next_ack = 0 /\ poll_sn = 0 /\ data_air = {} /\ status_air = {}
    /\ rx_list = {} /\ rx_next = 0 /\ rx_next_highest = 0 /\ ~garbled

LEMMA ClearedIs ==
    Cleared /\ FateInv =>
        ListInv /\ SegmentInv /\ AccountInv /\ SnInv /\ ReceiverInv /\ ReportInv
<1> SUFFICES ASSUME Cleared, FateInv
             PROVE  ListInv /\ SegmentInv /\ AccountInv /\ SnInv /\ ReceiverInv /\ ReportInv
  OBVIOUS
<1> USE DEF Cleared
<1>1. /\ Segments = {} /\ Unsent = {} /\ Waiting = {} /\ Again = {} /\ Numbered = {}
      /\ Seen = {}
  BY DEF Segments, Unsent, Waiting, Again, Numbered, Seen, Range
<1>2. ListInv
  BY DEF ListInv, Sorted, EndOf
<1>3. SegmentInv
  BY <1>1 DEF SegmentInv
<1>4. AccountInv
  <2>1. SizeOfSegments({}) = 0 /\ SumFunctionOnSet(SduSize, {}) = 0
    BY SumEmpty DEF SizeOfSegments
  <2>2. DOMAIN sdu = {}
    OBVIOUS
  <2> QED
    BY <1>1, <2>1, <2>2 DEF AccountInv
<1>5. 0 \in SN /\ Modulus(0, 0) = 0 /\ WindowSize \in Nat
  BY SnAssumption DEF SN, Modulus
<1>6. SnInv
  BY <1>1, <1>5 DEF SnInv, Age
<1>7. NoByteLost
  BY <1>4 DEF NoByteLost, HasReceived, FateInv
<1>8. \A sn \in SN : ~SduFull(rx_list, sn)
  BY DEF SduFull, SegmentsOf
<1>9. \A sn \in SN : Age(sn) \in Int
  BY <1>5, AgeType, SnAssumption DEF Age
<1>10. Age(rx_next) = 0 /\ Age(tx_next_ack) = 0 /\ RxOffset(rx_next_highest) = 0
  BY <1>5 DEF Age, RxOffset
<1>11. \A sn \in SN : ~(1 <= Age(sn) /\ Age(sn) <= Age(rx_next))
  BY <1>9, <1>10
<1>12. ReceiverInv
  BY <1>1, <1>7, <1>8, <1>10, <1>11 DEF ReceiverInv, NothingGarbled
<1>13. ReportInv
  BY DEF ReportInv
<1> QED
  BY <1>2, <1>3, <1>4, <1>6, <1>12, <1>13

LEMMA ReestablishKeeps ==
    ASSUME LinkInv, Reestablish
    PROVE  /\ ListInv' /\ SegmentInv' /\ AccountInv' /\ FateInv'
           /\ SnInv' /\ ReceiverInv' /\ ReportInv'
<1>1. Cleared'
  <2>1. ~garbled
    BY DEF LinkInv, ReceiverInv, NothingGarbled
  <2> QED
    BY <2>1 DEF Cleared, Reestablish, TxReestablish, RxReestablish
<1>2. FateInv'
  <2>1. DOMAIN sdu' = {} /\ dropped' = dropped \cup DOMAIN sdu
    BY DEF Reestablish, TxReestablish
  <2>2. UNCHANGED <<offered, last_sent, confirmed, delivered>>
    BY DEF Reestablish, TxReestablish
  <2> QED
    BY <2>1, <2>2 DEF LinkInv, FateInv
<1> QED
  BY <1>1, <1>2, ClearedIs, PTL

LEMMA InitialKeeps == LinkInit => LinkInv
<1> SUFFICES ASSUME LinkInit
             PROVE  LinkInv
  OBVIOUS
<1>1. Cleared
  BY DEF Cleared, LinkInit, TxInit, RxInit
<1>2. FateInv
  <2>1. DOMAIN sdu = {} /\ 1 .. 0 = {}
    BY DEF LinkInit, TxInit
  <2> QED
    BY <2>1, SduNumbers DEF FateInv, LinkInit, TxInit
<1>3. RxInv /\ ListFinite
  <2>1. RxInv
    BY ClearedWindow DEF LinkInit
  <2> QED
    BY <2>1, FS_EmptySet DEF LinkInit, RxInit, ListFinite
<1> QED
  BY <1>1, <1>2, <1>3, ClearedIs DEF LinkInv

-----------------------------------------------------------------------------
(* A data PDU arrives *)

Same(k, l) ==
    /\ l.sn = k.sn /\ l.sdu = k.sdu
    /\ l.so = k.so /\ l.size = k.size /\ l.last = k.last

\* The receiver takes pdu: it lists it, perhaps passes its SDU up, and
\* perhaps forgets SDUs that it has passed up.
Takes(pdu) ==
    /\ rx_next' \in SN /\ Age(rx_next') <= Age(rx_next)
    /\ Modulus(rx_next', rx_next_highest') <= Age(rx_next')
    /\ delivered' \in [AllSdus -> {0, 1}]
    /\ \A id \in AllSdus : /\ delivered[id] = 1 => delivered'[id] = 1
                           /\ delivered'[id] = 1 => delivered[id] = 1 \/ id = pdu.sdu
    /\ \A l \in rx_list' : /\ \E k \in ReceivedList(pdu) : Same(k, l)
                           /\ ~l.data => delivered'[l.sdu] = 1
    /\ \A k \in ReceivedList(pdu) : delivered'[k.sdu] = 1 \/ \E l \in rx_list' : Same(k, l)
    /\ \A x \in Seen : /\ Age(rx_next') < Age(x.sn) => delivered'[x.sdu] = 1
                       /\ Age(x.sn) <= Age(rx_next') /\ delivered'[x.sdu] = 1
                             => SduDelivered(rx_list', x.sn)
    /\ \A sn \in SN : Age(sn) <= Age(rx_next') /\ SduDelivered(rx_list, sn)
                         => SduDelivered(rx_list', sn)
    /\ \A sn \in SN : ~SduFull(rx_list', sn)
    /\ ~garbled'

\* What is listed was in flight or listed.
LEMMA ReceivedSeen ==
    ASSUME NEW pdu \in data_air, NEW k \in ReceivedList(pdu)
    PROVE  \E y \in Seen : Same(y, k)
<1>1. CASE k \in rx_list
  BY <1>1 DEF Seen, Same
<1>2. CASE k \notin rx_list
  <2>1. Same(pdu, k)
    BY <1>2 DEF ReceivedList, Same
  <2> QED
    BY <2>1 DEF Seen
<1> QED
  BY <1>1, <1>2

LEMMA ReceptionKeeps ==
    ASSUME LinkInv, NEW pdu \in data_air, Takes(pdu),
           UNCHANGED <<listVars, sizeVars, snVars, pollVars, upperVars, sdu, crashed, status_air>>,
           data_air' \subseteq data_air
    PROVE  /\ ListInv' /\ SegmentInv' /\ AccountInv' /\ FateInv'
           /\ SnInv' /\ ReceiverInv' /\ ReportInv'
<1>1. /\ ListInv /\ SegmentInv /\ AccountInv /\ FateInv /\ SnInv /\ ReceiverInv /\ ReportInv
      /\ RxTypeOK
  BY DEF LinkInv, RxInv
<1>2. UNCHANGED <<tx_list, tx_end, wait_list, wait_end, retransmit_list, sdu, bstatus, tx_size,
                  tx_next, tx_next_ack, last_sent, poll_sn, offered, confirmed, dropped,
                  status_air>>
  BY DEF listVars, sizeVars, snVars, pollVars, upperVars
<1>3. /\ Segments' = Segments /\ Unsent' = Unsent /\ Waiting' = Waiting /\ Again' = Again
      /\ Numbered' = Numbered
  BY <1>2 DEF Segments, Unsent, Waiting, Again, Numbered
<1>4. ListInv' /\ AccountInv'
  BY <1>1, <1>2, <1>3 DEF ListInv, AccountInv
<1>5. SegmentInv'
  <2>1. \A s \in Unsent : (Fresh(s) \/ IsRest(s))'
    BY <1>1, <1>2 DEF SegmentInv, Fresh, IsRest, Age
  <2> QED
    BY <1>1, <1>2, <1>3, <2>1 DEF SegmentInv
<1>6. \A x \in Seen' : \E y \in Seen : y.sn = x.sn /\ y.sdu = x.sdu /\ Fits(x)
  <2> SUFFICES ASSUME NEW x \in Seen'
               PROVE  \E y \in Seen : y.sn = x.sn /\ y.sdu = x.sdu /\ Fits(x)
    OBVIOUS
  <2>1. CASE x \in Seen
    BY <1>1, <2>1 DEF SnInv
  <2>2. CASE x \notin Seen
    <3>1. x \in rx_list'
      BY <1>3, <2>2 DEF Seen
    <3>2. PICK k \in ReceivedList(pdu) : Same(k, x)
      BY <3>1 DEF Takes
    <3>3. PICK y \in Seen : Same(y, k)
      BY ReceivedSeen
    <3>4. Fits(y)
      BY <1>1 DEF SnInv
    <3> QED
      BY <3>2, <3>3, <3>4 DEF Same, Fits
  <2> QED
    BY <2>1, <2>2
<1>7. SnInv'
  <2>1. \A x \in Seen' : /\ Fits(x) /\ x.sdu \notin dropped'
                         /\ \E y \in Seen : y.sn = x.sn /\ y.sdu = x.sdu
    BY <1>1, <1>2, <1>6 DEF SnInv
  <2>2. tx_next_ack' \in SN /\ Modulus(tx_next_ack', tx_next) <= WindowSize /\ poll_sn' \in SN
    BY <1>1, <1>2 DEF SnInv, Age
  <2> QED
    BY <1>1, <1>2, <2>1, <2>2, SnKept
<1>8. FateInv'
  <2>1. \A id \in AllSdus : delivered'[id] = 1 => id <= last_sent
    <3>1. pdu.sdu <= last_sent
      BY <1>1, SeenIsSent DEF Seen
    <3> QED
      BY <1>1, <3>1 DEF Takes, FateInv
  <2>2. \A id \in confirmed : delivered'[id] = 1
    <3>1. confirmed \subseteq AllSdus
      BY <1>1, SduNumbers DEF FateInv
    <3> QED
      BY <1>1, <3>1 DEF Takes, FateInv
  <2> QED
    BY <1>1, <1>2, <2>1, <2>2 DEF FateInv, Takes
<1>9. \A id \in AllSdus : \A b : HasReceived(id, b) => HasReceived(id, b)'
  <2> SUFFICES ASSUME NEW id \in AllSdus, NEW b, HasReceived(id, b), delivered'[id] # 1
               PROVE  HasReceived(id, b)'
    BY DEF HasReceived
  <2>1. delivered[id] = 0
    BY <1>1 DEF Takes, FateInv
  <2>2. PICK k \in rx_list : k.sdu = id /\ b \in Bytes(k)
    BY <2>1 DEF HasReceived
  <2>3. PICK l \in rx_list' : Same(k, l)
    BY <2>2 DEF Takes, ReceivedList
  <2> QED
    BY <2>2, <2>3 DEF HasReceived, Same, Bytes
<1>10. NoByteLost'
  <2> SUFFICES ASSUME NEW id \in (1 .. offered) \ dropped, NEW b \in 0 .. SduSize[id] - 1
               PROVE  \/ \E t \in Segments : t.sdu = id /\ b \in SegBytes(t)
                      \/ HasReceived(id, b)'
    BY <1>2, <1>3 DEF NoByteLost
  <2>1. id \in AllSdus
    BY <1>1, SduNumbers, HeldSdus
  <2> QED
    BY <1>1, <1>9, <2>1 DEF NoByteLost, ReceiverInv
<1>12. ReceiverInv'
  <2>1. data_air' \subseteq Pdus
    BY <1>1 DEF ReceiverInv
  <2>2. Age(rx_next)' = Age(rx_next') /\ (RxOffset(rx_next_highest) <= Age(rx_next))'
    BY <1>2 DEF Age, RxOffset, Takes
  <2>3. (Age(rx_next) <= Age(tx_next_ack))'
    <3>1. /\ Age(rx_next') \in Int /\ Age(rx_next) \in Int /\ Age(tx_next_ack) \in Int
      BY <1>1, AgeType, SnAssumption DEF Takes, RxTypeOK, SnInv, Age
    <3>2. Age(rx_next) <= Age(tx_next_ack) /\ Age(rx_next') <= Age(rx_next)
      BY <1>1 DEF ReceiverInv, Takes
    <3>3. Age(tx_next_ack)' = Age(tx_next_ack)
      BY <1>2 DEF Age
    <3> QED
      BY <2>2, <3>1, <3>2, <3>3
  <2>4. \A sn \in SN : ~SduFull(rx_list', sn)
    BY DEF Takes
  <2>5. \A l \in rx_list' : ~l.data => delivered'[l.sdu] = 1
    BY DEF Takes
  <2>6. \A x \in Seen' : /\ Age(rx_next') < Age(x.sn) => delivered'[x.sdu] = 1
                         /\ Age(x.sn) <= Age(rx_next') /\ delivered'[x.sdu] = 1
                               => SduDelivered(rx_list', x.sn)
    BY <1>6 DEF Takes
  <2>7. \A sn \in SN : 1 <= Age(sn) /\ Age(sn) <= Age(rx_next') =>
           SduDelivered(rx_list', sn) \/ \E s \in Numbered : s.sn = sn
    <3> SUFFICES ASSUME NEW sn \in SN, 1 <= Age(sn), Age(sn) <= Age(rx_next'),
                        ~\E s \in Numbered : s.sn = sn
                 PROVE  SduDelivered(rx_list', sn)
      OBVIOUS
    <3>1. Age(sn) \in Int /\ Age(rx_next') \in Int /\ Age(rx_next) \in Int
      BY <1>1, AgeType, SnAssumption DEF Takes, RxTypeOK, SnInv, Age
    <3>2. Age(sn) <= Age(rx_next)
      BY <3>1 DEF Takes
    <3>3. SduDelivered(rx_list, sn)
      BY <1>1, <3>2 DEF ReceiverInv
    <3> QED
      BY <3>3 DEF Takes
  <2>8. \A sn : Modulus(sn, tx_next') = Age(sn)
    BY <1>2 DEF Age
  <2>9. NothingGarbled'
    BY DEF NothingGarbled, Takes
  <2>10. \A x \in Seen' : /\ Age(rx_next)' < Modulus(x.sn, tx_next') => delivered'[x.sdu] = 1
                          /\ Modulus(x.sn, tx_next') <= Age(rx_next)' /\ delivered'[x.sdu] = 1
                                => SduDelivered(rx_list', x.sn)
    BY <2>2, <2>6, <2>8
  <2>11. \A sn \in SN : 1 <= Modulus(sn, tx_next') /\ Modulus(sn, tx_next') <= Age(rx_next)' =>
            SduDelivered(rx_list', sn) \/ \E s \in Numbered' : s.sn = sn
    BY <1>3, <2>2, <2>7, <2>8
  <2>12. /\ \A x \in Seen' : /\ (Age(rx_next) < Age(x.sn))' => delivered'[x.sdu] = 1
                             /\ (Age(x.sn) <= Age(rx_next))' /\ delivered'[x.sdu] = 1
                                   => SduDelivered(rx_list', x.sn)
         /\ \A sn \in SN : (1 <= Age(sn) /\ Age(sn) <= Age(rx_next))' =>
               SduDelivered(rx_list', sn) \/ \E s \in Numbered' : s.sn = sn
    BY <2>10, <2>11 DEF Age
  <2> QED
    BY <1>10, <2>1, <2>2, <2>3, <2>4, <2>5, <2>9, <2>12 DEF ReceiverInv
<1>13. ReportInv'
  <2>1. Numbered \subseteq Segment
    BY <1>1, SegmentsType DEF Numbered
  <2> QED
    BY <1>1, <1>2, <1>3, <1>9, <2>1, ReportsKept
<1> QED
  BY <1>4, <1>5, <1>7, <1>8, <1>12, <1>13

LEMMA ArrivalNumbers ==
    ASSUME LinkInv, NEW pdu \in data_air, ~Discarded(pdu)
    PROVE  /\ pdu \in Pdus /\ pdu \in Seen /\ pdu.sn \in SN /\ pdu.sdu \in AllSdus
           /\ Age(pdu.sn) \in Nat /\ 1 <= Age(pdu.sn) /\ Age(pdu.sn) <= Age(rx_next)
           /\ Age(rx_next) \in Nat /\ Age(rx_next) <= WindowSize
           /\ RxOffset(pdu.sn) = Age(rx_next) - Age(pdu.sn)
<1>1. /\ SnInv /\ ReceiverInv /\ RxTypeOK
  BY DEF LinkInv, RxInv
<1>2. /\ pdu \in Pdus /\ pdu \in Seen /\ pdu.sn \in SN /\ pdu.sdu \in AllSdus
      /\ 1 <= Age(pdu.sn) /\ Age(pdu.sn) <= WindowSize
  BY <1>1 DEF ReceiverInv, SnInv, Seen
<1>3. rx_next \in SN /\ tx_next \in SN /\ tx_next_ack \in SN
  BY <1>1 DEF RxTypeOK, SnInv
<1>4. /\ Age(pdu.sn) \in 0 .. SnModulus - 1 /\ Age(rx_next) \in 0 .. SnModulus - 1
      /\ Age(tx_next_ack) \in 0 .. SnModulus - 1
  BY <1>2, <1>3, AgeType DEF Age
<1>5. Age(rx_next) <= WindowSize
  <2>1. Age(rx_next) <= Age(tx_next_ack) /\ Age(tx_next_ack) <= WindowSize
    BY <1>1 DEF ReceiverInv, SnInv
  <2> QED
    BY <1>4, <2>1, SnAssumption
<1>6. RxOffset(pdu.sn) < WindowSize
  BY DEF Discarded, SnInRecvWindow, RxOffset
<1>7. RxOffset(pdu.sn) = IF Age(pdu.sn) <= Age(rx_next) THEN Age(rx_next) - Age(pdu.sn)
                         ELSE Age(rx_next) - Age(pdu.sn) + SnModulus
  BY <1>2, <1>3, AgeOffset DEF Age, RxOffset
<1>8. Age(pdu.sn) <= Age(rx_next)
  BY <1>2, <1>4, <1>6, <1>7, SnAssumption
<1> QED
  BY <1>2, <1>4, <1>5, <1>7, <1>8, SnAssumption

LEMMA ArrivalHighest ==
    ASSUME LinkInv, NEW pdu \in data_air, ~Discarded(pdu), NEW high,
           high = IF Modulus(rx_next, pdu.sn) >= Modulus(rx_next, rx_next_highest)
                  THEN SnNext(pdu.sn) ELSE rx_next_highest
    PROVE  high \in SN /\ 1 <= RxOffset(high) /\ RxOffset(high) <= Age(rx_next)
<1>1. /\ RxTypeOK /\ SnInv /\ RxOffset(rx_next_highest) <= Age(rx_next)
  BY DEF LinkInv, RxInv, ReceiverInv
<1>2. rx_next \in SN /\ rx_next_highest \in SN
  BY <1>1 DEF RxTypeOK
<1>3. /\ pdu.sn \in SN /\ Age(pdu.sn) \in Nat /\ 1 <= Age(pdu.sn) /\ Age(rx_next) \in Nat
      /\ Age(rx_next) <= WindowSize /\ RxOffset(pdu.sn) = Age(rx_next) - Age(pdu.sn)
  BY ArrivalNumbers
<1>4. RxOffset(rx_next_highest) \in Nat /\ RxOffset(pdu.sn) \in Nat
  BY <1>1, <1>2, <1>3, RxOffsetIs
<1>5. SnNext(pdu.sn) \in SN /\ RxOffset(SnNext(pdu.sn)) = RxOffset(pdu.sn) + 1
  <2>1. /\ SnNext(pdu.sn) \in SN
        /\ Modulus(rx_next, SnNext(pdu.sn)) =
             IF Modulus(rx_next, pdu.sn) = SnModulus - 1 THEN 0
             ELSE Modulus(rx_next, pdu.sn) + 1
    BY <1>2, <1>3, ModulusNext, SnAssumption DEF SN, SnNext, SnWrap
  <2> QED
    BY <1>3, <1>4, <2>1, SnAssumption DEF RxOffset
<1>6. CASE RxOffset(pdu.sn) >= RxOffset(rx_next_highest)
  BY <1>3, <1>4, <1>5, <1>6 DEF RxOffset
<1>7. CASE ~(RxOffset(pdu.sn) >= RxOffset(rx_next_highest))
  BY <1>1, <1>2, <1>3, <1>4, <1>7 DEF RxOffset
<1> QED
  BY <1>6, <1>7

\* What is listed after pdu arrived
LEMMA ReceivedNumbers ==
    ASSUME LinkInv, NEW pdu \in data_air, NEW k \in ReceivedList(pdu)
    PROVE  /\ k.sn \in SN /\ k.sdu \in AllSdus /\ Age(k.sn) \in Nat /\ 1 <= Age(k.sn)
           /\ Fits(k) /\ k.so \in Nat /\ k.size \in Nat \ {0}
           /\ \A x \in Seen : k.sn = x.sn <=> k.sdu = x.sdu
<1>1. SnInv /\ RxTypeOK /\ ReceiverInv
  BY DEF LinkInv, RxInv
<1>2. PICK y \in Seen : Same(y, k)
  BY ReceivedSeen
<1>3. k.sn = y.sn /\ k.sdu = y.sdu /\ Fits(k)
  <2>1. Fits(y)
    BY <1>1 DEF SnInv
  <2> QED
    BY <1>2, <2>1 DEF Same, Fits
<1>4. y.sn \in SN /\ y.sdu \in AllSdus /\ 1 <= Age(y.sn)
  BY <1>1 DEF SnInv
<1>5. \A x \in Seen : (y.sn = x.sn <=> y.sdu = x.sdu) /\ Age(y.sn) \in Nat
  BY <1>1, SameSdu
<1>6. k.so \in Nat /\ k.size \in Nat \ {0}
  <2>1. pdu \in Pdus
    BY <1>1 DEF ReceiverInv
  <2>2. ReceivedList(pdu) \subseteq StoredPdu
    BY <1>1, <2>1, ReceivedListType
  <2> QED
    BY <2>2 DEF StoredPdu
<1> QED
  BY <1>3, <1>4, <1>5, <1>6

\* The SDU of pdu is not complete.
LEMMA StoreTakes ==
    ASSUME LinkInv, NEW pdu \in data_air, StorePdu(pdu), DeliverUp(pdu)
    PROVE  Takes(pdu)
<1>1. /\ RxTypeOK /\ SnInv /\ ReceiverInv /\ FateInv
  BY DEF LinkInv, RxInv
<1>2. /\ ~Discarded(pdu) /\ ~Delivers(pdu)
      /\ rx_list' = ReceivedList(pdu) /\ rx_next' = rx_next
      /\ rx_next_highest' = IF Modulus(rx_next, pdu.sn) >= Modulus(rx_next, rx_next_highest)
                            THEN SnNext(pdu.sn) ELSE rx_next_highest
      /\ delivered' = delivered /\ garbled' = garbled
  BY DEF StorePdu, DeliverUp
<1>3. rx_next' \in SN /\ Age(rx_next') = Age(rx_next) /\ Age(rx_next) \in Nat
  BY <1>1, <1>2, ArrivalNumbers DEF RxTypeOK
<1>4. Modulus(rx_next', rx_next_highest') <= Age(rx_next')
  BY <1>2, <1>3, ArrivalHighest DEF RxOffset
<1>5. \A l \in rx_list' : /\ \E k \in ReceivedList(pdu) : Same(k, l)
                          /\ ~l.data => delivered'[l.sdu] = 1
  <2> SUFFICES ASSUME NEW l \in rx_list'
               PROVE  /\ \E k \in ReceivedList(pdu) : Same(k, l)
                      /\ ~l.data => delivered'[l.sdu] = 1
    OBVIOUS
  <2>1. Same(l, l)
    BY DEF Same
  <2>2. l \in rx_list \/ l.data = TRUE
    BY <1>2 DEF ReceivedList
  <2> QED
    BY <1>1, <1>2, <2>1, <2>2 DEF ReceiverInv
<1>6. \A k \in ReceivedList(pdu) : \E l \in rx_list' : Same(k, l)
  BY <1>2 DEF Same
<1>7. \A x : SduDelivered(rx_list', x) <=> SduDelivered(rx_list, x)
  BY <1>2, ReceivedNotDelivered
<1>8. \A x \in Seen : /\ Age(rx_next') < Age(x.sn) => delivered'[x.sdu] = 1
                      /\ Age(x.sn) <= Age(rx_next') /\ delivered'[x.sdu] = 1
                            => SduDelivered(rx_list', x.sn)
  BY <1>1, <1>2, <1>7 DEF ReceiverInv
<1>9. \A sn \in SN : ~SduFull(rx_list', sn)
  <2> SUFFICES ASSUME NEW sn \in SN, sn # pdu.sn
               PROVE  ~SduFull(rx_list', sn)
    BY <1>2 DEF Delivers
  <2>1. SegmentsOf(rx_list', sn) = SegmentsOf(rx_list, sn)
    BY <1>2 DEF SegmentsOf, ReceivedList
  <2>2. SduFull(rx_list', sn) <=> SduFull(rx_list, sn)
    BY <2>1 DEF SduFull, SduDelivered, Covered
  <2> QED
    BY <1>1, <2>2 DEF ReceiverInv
<1>10. ~garbled' /\ delivered' \in [AllSdus -> {0, 1}]
  BY <1>1, <1>2 DEF ReceiverInv, NothingGarbled, FateInv
<1> QED
  BY <1>2, <1>3, <1>4, <1>5, <1>6, <1>7, <1>8, <1>9, <1>10 DEF Takes

\* It is: the SDU is passed up, whole and alone, for the first time.
LEMMA WholeSdu ==
    ASSUME LinkInv, NEW pdu \in data_air, Delivers(pdu)
    PROVE  Reassembled(pdu) /\ delivered[pdu.sdu] = 0
<1>1. /\ ~Discarded(pdu) /\ SduFull(ReceivedList(pdu), pdu.sn)
  BY DEF Delivers
<1>2. /\ pdu \in Seen /\ pdu.sn \in SN /\ pdu.sdu \in AllSdus /\ Age(pdu.sn) <= Age(rx_next)
  BY <1>1, ArrivalNumbers
<1>3. delivered[pdu.sdu] = 0
  <2>1. ~SduDelivered(rx_list, pdu.sn)
    BY <1>1, ReceivedNotDelivered DEF SduFull
  <2>2. delivered[pdu.sdu] # 1
    BY <1>2, <2>1 DEF LinkInv, ReceiverInv
  <2> QED
    BY <1>2, <2>2 DEF LinkInv, FateInv
<1> DEFINE segs == SegmentsOf(ReceivedList(pdu), pdu.sn)
           n == SduSize[pdu.sdu]
<1>4. \A l \in segs : /\ l.sdu = pdu.sdu /\ Fits(l) /\ l.so \in Nat /\ l.size \in Nat \ {0}
  <2> SUFFICES ASSUME NEW l \in segs
               PROVE  /\ l.sdu = pdu.sdu /\ Fits(l) /\ l.so \in Nat /\ l.size \in Nat \ {0}
    OBVIOUS
  <2>1. l \in ReceivedList(pdu) /\ l.sn = pdu.sn
    BY DEF SegmentsOf
  <2> QED
    BY <1>2, <2>1, ReceivedNumbers
<1>5. n \in Nat
  BY <1>2, SduNumbers
<1>6. \A l \in segs : Bytes(l) \subseteq 0 .. n - 1
  <2> SUFFICES ASSUME NEW l \in segs, NEW b \in Bytes(l)
               PROVE  b \in 0 .. n - 1
    OBVIOUS
  <2>1. l.so + l.size <= n /\ l.so \in Nat /\ l.size \in Nat
    BY <1>4 DEF Fits
  <2>2. b \in Int /\ l.so <= b /\ b <= l.so + l.size - 1
    BY <2>1 DEF Bytes
  <2> HIDE DEF n
  <2> QED
    BY <1>5, <2>1, <2>2
<1>7. 0 .. n - 1 \subseteq UNION {Bytes(l) : l \in segs}
  <2>1. PICK l \in segs : l.last /\ 0 .. l.so - 1 \subseteq Covered(ReceivedList(pdu), pdu.sn)
    BY <1>1 DEF SduFull
  <2>2. l.so + l.size = n /\ l.so \in Nat /\ l.size \in Nat
    BY <1>4, <2>1 DEF Fits
  <2> HIDE DEF n
  <2>3. ASSUME NEW b \in 0 .. n - 1
        PROVE  b \in 0 .. l.so - 1 \/ b \in Bytes(l)
    BY <1>5, <2>2 DEF Bytes
  <2> QED
    BY <2>1, <2>3 DEF Covered
<1>8. UNION {Bytes(l) : l \in segs} = 0 .. n - 1
  BY <1>6, <1>7
<1> QED
  BY <1>3, <1>4, <1>8 DEF Reassembled

LEMMA CompleteTakes ==
    ASSUME LinkInv, NEW pdu \in data_air, CompleteSdu(pdu), DeliverUp(pdu)
    PROVE  Takes(pdu)
<1> DEFINE sn == pdu.sn
           received == ReceivedList(pdu)
           list == FreeData(received, sn)
<1>1. /\ RxInv /\ RxTypeOK /\ SnInv /\ ReceiverInv /\ FateInv
  BY DEF LinkInv, RxInv
<1>2. /\ Delivers(pdu) /\ ~Discarded(pdu)
      /\ rx_next_highest' = IF Modulus(rx_next, sn) >= Modulus(rx_next, rx_next_highest)
                            THEN SnNext(sn) ELSE rx_next_highest
      /\ rx_list' = {l \in list : Modulus(rx_next, l.sn) >= Modulus(rx_next, rx_next')}
      /\ delivered' = [delivered EXCEPT ![pdu.sdu] = Min({@ + 1, 2})]
      /\ garbled' = (garbled \/ ~Reassembled(pdu))
  BY Zenon DEF CompleteSdu, DeliverUp, Delivers
<1>3. /\ pdu \in Pdus /\ pdu \in Seen /\ sn \in SN /\ pdu.sdu \in AllSdus
      /\ Age(rx_next) \in Nat /\ Age(rx_next) <= WindowSize
  BY <1>2, ArrivalNumbers
<1>4. /\ RxInv'
      /\ \A m \in SN : RxOffset(m) < RxOffset(rx_next') => SduDelivered(list, m)
  BY <1>1, <1>3, CompleteSduStep
<1>5. /\ delivered' \in [AllSdus -> {0, 1}] /\ ~garbled'
      /\ delivered'[pdu.sdu] = 1
      /\ \A id \in AllSdus : /\ delivered[id] = 1 => delivered'[id] = 1
                             /\ delivered'[id] = 1 => delivered[id] = 1 \/ id = pdu.sdu
  <2>1. Reassembled(pdu) /\ delivered[pdu.sdu] = 0 /\ ~garbled
    BY <1>1, <1>2, WholeSdu DEF ReceiverInv, NothingGarbled
  <2>2. Min({0 + 1, 2}) = 1
    BY DEF Min
  <2>3. delivered' = [delivered EXCEPT ![pdu.sdu] = 1]
    BY <1>2, <2>1, <2>2
  <2> QED
    BY <1>1, <1>2, <1>3, <2>1, <2>3 DEF FateInv
<1>6. /\ received \subseteq StoredPdu
      /\ \A k \in received : k.sn # sn => k \in rx_list
      /\ \E k \in received : k.sn = sn
      /\ rx_list \subseteq received
  <2>1. received \subseteq StoredPdu /\ \A k \in received : k \in rx_list \/ k.sn = pdu.sn
    BY <1>1, <1>3, ReceivedListType
  <2> DEFINE new == [sn |-> pdu.sn, so |-> pdu.so, size |-> pdu.size,
                     last |-> pdu.last, sdu |-> pdu.sdu, data |-> TRUE]
  <2>2. received = rx_list \cup {new}
    BY Zenon DEF ReceivedList
  <2>3. new.sn = sn
    OBVIOUS
  <2> HIDE DEF new, received, sn
  <2> QED
    BY <2>1, <2>2, <2>3 DEF sn, received
<1> HIDE DEF sn, received
<1>7. ASSUME NEW k \in received, k.sn = sn
      PROVE  [k EXCEPT !.data = FALSE] \in list
  BY <1>7, Zenon DEF FreeData
<1>8. ASSUME NEW l \in list
      PROVE  \E k \in received : /\ Same(k, l)
                                 /\ l.sn = sn => ~l.data
                                 /\ l.sn # sn => l = k
  <2>1. PICK k \in received : l = IF k.sn = sn THEN [k EXCEPT !.data = FALSE] ELSE k
    BY <1>8, Zenon DEF FreeData
  <2>2. k \in StoredPdu
    BY <1>6
  <2>3. CASE k.sn = sn
    <3>1. l = [k EXCEPT !.data = FALSE]
      BY <2>1, <2>3
    <3> QED
      BY <2>2, <2>3, <3>1 DEF Same, StoredPdu
  <2>4. CASE k.sn # sn
    BY <2>1, <2>4 DEF Same
  <2> QED
    BY <2>3, <2>4
<1>9. \A k \in received : \E l \in list : Same(k, l) /\ (l.sn = sn => ~l.data) /\ (l.sn # sn => l = k)
  <2> SUFFICES ASSUME NEW k \in received
               PROVE  \E l \in list : Same(k, l) /\ (l.sn = sn => ~l.data) /\ (l.sn # sn => l = k)
    OBVIOUS
  <2>1. CASE k.sn = sn
    <3> DEFINE l == [k EXCEPT !.data = FALSE]
    <3>1. l \in list
      BY <1>7, <2>1
    <3>2. k \in StoredPdu
      BY <1>6
    <3>3. Same(k, l) /\ ~l.data /\ l.sn = sn
      BY <2>1, <3>2 DEF Same, StoredPdu
    <3> HIDE DEF l
    <3> QED
      BY <3>1, <3>3
  <2>2. CASE k.sn # sn
    <3>1. k \in list
      BY <1>6, <2>2, FreeDataEntries
    <3> QED
      BY <2>2, <3>1 DEF Same
  <2> QED
    BY <2>1, <2>2
<1>10. \A k \in received : /\ k.sn \in SN /\ k.sdu \in AllSdus /\ Age(k.sn) \in Nat
                           /\ 1 <= Age(k.sn)
                           /\ \A x \in Seen : k.sn = x.sn <=> k.sdu = x.sdu
  BY ReceivedNumbers DEF received
<1>11. \A k \in received : SduDelivered(list, k.sn) => delivered'[k.sdu] = 1
  <2> SUFFICES ASSUME NEW k \in received, SduDelivered(list, k.sn)
               PROVE  delivered'[k.sdu] = 1
    OBVIOUS
  <2>1. PICK l \in list : l.sn = k.sn /\ ~l.data
    BY DEF SduDelivered, SegmentsOf
  <2>2. CASE k.sn = sn
    <3>1. k.sdu = pdu.sdu
      BY <1>3, <1>10, <2>2 DEF sn
    <3> QED
      BY <1>5, <3>1
  <2>3. CASE k.sn # sn
    <3>1. l \in received /\ l \in rx_list
      BY <1>6, <1>8, <2>1, <2>3
    <3>2. l \in Seen
      BY <3>1 DEF Seen
    <3>3. l.sdu = k.sdu
      BY <1>10, <2>1, <3>2
    <3>4. delivered[l.sdu] = 1
      BY <1>1, <2>1, <3>1 DEF ReceiverInv
    <3> QED
      BY <1>5, <1>10, <3>3, <3>4
  <2> QED
    BY <2>2, <2>3
<1>12. \A x \in Seen : SduDelivered(list, x.sn) => delivered'[x.sdu] = 1
  <2> SUFFICES ASSUME NEW x \in Seen, SduDelivered(list, x.sn)
               PROVE  delivered'[x.sdu] = 1
    OBVIOUS
  <2>1. PICK l \in list : l.sn = x.sn
    BY DEF SduDelivered, SegmentsOf
  <2>2. PICK k \in received : Same(k, l)
    BY <1>8
  <2>3. k.sn = x.sn /\ k.sdu = x.sdu
    BY <1>10, <2>1, <2>2 DEF Same
  <2> QED
    BY <1>11, <2>3
<1>13. rx_next' \in SN /\ rx_next_highest' \in SN /\ rx_next \in SN /\ tx_next \in SN
  BY <1>1, <1>4 DEF RxInv, RxTypeOK, SnInv
<1>14. RxOffset(rx_next') <= Age(rx_next)
  <2>1. RxOffset(tx_next) = Age(rx_next)
    <3>1. Age(tx_next) = 0
      BY <1>13, AgeType DEF Age
    <3> QED
      BY <1>1, <1>3, <1>13, <3>1, RxOffsetIs
  <2>2. ~SduDelivered(list, tx_next)
    <3> SUFFICES ASSUME NEW l \in list, l.sn = tx_next
                 PROVE  FALSE
      BY DEF SduDelivered, SegmentsOf
    <3>1. PICK k \in received : Same(k, l)
      BY <1>8
    <3>2. Age(k.sn) = 0
      BY <1>13, <3>1, AgeType DEF Same, Age
    <3> QED
      BY <1>10, <3>2
  <2>3. ~(RxOffset(tx_next) < RxOffset(rx_next'))
    BY <1>4, <1>13, <2>2
  <2>4. RxOffset(tx_next) \in Nat /\ RxOffset(rx_next') \in Nat
    BY <1>1, <1>13, RxOffsetIs
  <2> QED
    BY <2>1, <2>3, <2>4
<1>15. /\ Age(rx_next') \in Nat /\ RxOffset(rx_next') \in Nat
       /\ Age(rx_next') <= Age(rx_next) /\ RxOffset(rx_next') = Age(rx_next) - Age(rx_next')
  BY <1>1, <1>13, <1>14, RxOffsetIs
<1>16. \A a \in SN : Age(a) <= Age(rx_next') => RxOffset(a) >= RxOffset(rx_next')
  <2> SUFFICES ASSUME NEW a \in SN, Age(a) <= Age(rx_next')
               PROVE  RxOffset(a) >= RxOffset(rx_next')
    OBVIOUS
  <2>1. /\ Age(a) \in Nat /\ RxOffset(a) \in Nat
        /\ Age(a) <= Age(rx_next) => RxOffset(a) = Age(rx_next) - Age(a)
    BY <1>1, RxOffsetIs
  <2> QED
    BY <1>3, <1>15, <2>1
<1>17. Modulus(rx_next', rx_next_highest') <= Age(rx_next')
  <2> DEFINE high == rx_next_highest'
  <2>1. high \in SN /\ 1 <= RxOffset(high) /\ RxOffset(high) <= Age(rx_next)
    BY <1>2, ArrivalHighest DEF sn
  <2>2. /\ RxOffset(high) \in Nat /\ Age(high) \in Nat /\ Age(high) <= Age(rx_next)
        /\ RxOffset(high) = Age(rx_next) - Age(high)
    <3> HIDE DEF high
    <3> QED
      BY <1>1, <2>1, RxOffsetIs
  <2>3. Modulus(rx_next', high) = IF Age(high) <= Age(rx_next') THEN Age(rx_next') - Age(high)
                                  ELSE Age(rx_next') - Age(high) + SnModulus
    BY <1>13, AgeOffset DEF Age
  <2>4. Modulus(rx_next', high) <= WindowSize
    BY <1>4 DEF RxInv, RxWindowOrdered, RxOffset
  <2> HIDE DEF high
  <2>5. Modulus(rx_next', high) <= Age(rx_next')
    BY <1>3, <1>15, <2>1, <2>2, <2>3, <2>4, SnAssumption
  <2> QED
    BY <2>5 DEF high
<1>18. \A l \in rx_list' : /\ \E k \in received : Same(k, l)
                           /\ ~l.data => delivered'[l.sdu] = 1
  <2> SUFFICES ASSUME NEW l \in rx_list'
               PROVE  /\ \E k \in received : Same(k, l)
                      /\ ~l.data => delivered'[l.sdu] = 1
    OBVIOUS
  <2>1. l \in list
    BY <1>2
  <2>2. PICK k \in received : Same(k, l)
    BY <1>8, <2>1
  <2>3. ~l.data => SduDelivered(list, k.sn)
    BY <2>1, <2>2 DEF SduDelivered, SegmentsOf, Same
  <2> QED
    BY <1>11, <2>2, <2>3 DEF Same
<1>19. \A k \in received : delivered'[k.sdu] = 1 \/ \E l \in rx_list' : Same(k, l)
  <2> SUFFICES ASSUME NEW k \in received, delivered'[k.sdu] # 1
               PROVE  \E l \in rx_list' : Same(k, l)
    OBVIOUS
  <2>1. PICK l \in list : Same(k, l)
    BY <1>9
  <2>2. ~(RxOffset(k.sn) < RxOffset(rx_next'))
    BY <1>4, <1>10, <1>11
  <2>3. RxOffset(k.sn) \in Nat /\ RxOffset(rx_next') \in Nat
    BY <1>1, <1>10, <1>13, RxOffsetIs
  <2>4. l \in rx_list'
    BY <1>2, <2>1, <2>2, <2>3 DEF Same, RxOffset
  <2> QED
    BY <2>1, <2>4
<1>20. \A a \in SN : Age(a) <= Age(rx_next') /\ SduDelivered(rx_list, a)
                        => SduDelivered(rx_list', a)
  <2> SUFFICES ASSUME NEW a \in SN, Age(a) <= Age(rx_next'), SduDelivered(rx_list, a)
               PROVE  SduDelivered(rx_list', a)
    OBVIOUS
  <2>1. PICK k \in rx_list : k.sn = a /\ ~k.data
    BY DEF SduDelivered, SegmentsOf
  <2>2. PICK l \in list : Same(k, l) /\ (l.sn = sn => ~l.data) /\ (l.sn # sn => l = k)
    BY <1>6, <1>9
  <2>3. ~l.data /\ l.sn = a
    BY <2>1, <2>2 DEF Same
  <2>4. l \in rx_list'
    BY <1>2, <1>16, <2>3 DEF RxOffset
  <2> QED
    BY <2>3, <2>4 DEF SduDelivered, SegmentsOf
<1>21. \A x \in Seen : /\ Age(rx_next') < Age(x.sn) => delivered'[x.sdu] = 1
                       /\ Age(x.sn) <= Age(rx_next') /\ delivered'[x.sdu] = 1
                             => SduDelivered(rx_list', x.sn)
  <2> SUFFICES ASSUME NEW x \in Seen
               PROVE  /\ Age(rx_next') < Age(x.sn) => delivered'[x.sdu] = 1
                      /\ Age(x.sn) <= Age(rx_next') /\ delivered'[x.sdu] = 1
                            => SduDelivered(rx_list', x.sn)
    OBVIOUS
  <2>1. /\ x.sn \in SN /\ x.sdu \in AllSdus /\ Age(x.sn) \in Nat /\ RxOffset(x.sn) \in Nat
        /\ Age(x.sn) <= Age(rx_next) => RxOffset(x.sn) = Age(rx_next) - Age(x.sn)
    BY <1>1, RxOffsetIs DEF SnInv
  <2>2. ASSUME Age(rx_next') < Age(x.sn)
        PROVE  delivered'[x.sdu] = 1
    <3>1. CASE Age(rx_next) < Age(x.sn)
      BY <1>1, <1>5, <2>1, <3>1 DEF ReceiverInv
    <3>2. CASE ~(Age(rx_next) < Age(x.sn))
      <4>1. RxOffset(x.sn) < RxOffset(rx_next')
        BY <1>3, <1>15, <2>1, <2>2, <3>2
      <4> QED
        BY <1>4, <1>12, <2>1, <4>1
    <3> QED
      BY <3>1, <3>2
  <2>3. ASSUME Age(x.sn) <= Age(rx_next'), delivered'[x.sdu] = 1
        PROVE  SduDelivered(rx_list', x.sn)
    <3>1. CASE x.sn = sn
      <4>1. PICK k \in received : k.sn = sn
        BY <1>6
      <4>2. PICK l \in list : Same(k, l) /\ ~l.data
        BY <1>9, <4>1 DEF Same
      <4>3. l.sn = x.sn
        BY <3>1, <4>1, <4>2 DEF Same
      <4>4. l \in rx_list'
        BY <1>2, <1>16, <2>1, <2>3, <4>3 DEF RxOffset
      <4> QED
        BY <4>2, <4>3, <4>4 DEF SduDelivered, SegmentsOf
    <3>2. CASE x.sn # sn
      <4>1. x.sdu # pdu.sdu
        BY <1>1, <1>3, <3>2, SameSdu DEF sn
      <4>2. delivered[x.sdu] = 1
        BY <1>5, <2>1, <2>3, <4>1
      <4>3. Age(x.sn) <= Age(rx_next)
        BY <1>3, <1>15, <2>1, <2>3
      <4>4. SduDelivered(rx_list, x.sn)
        BY <1>1, <4>2, <4>3 DEF ReceiverInv
      <4> QED
        BY <1>20, <2>1, <2>3, <4>4
    <3> QED
      BY <3>1, <3>2
  <2> QED
    BY <2>2, <2>3
<1>22. \A a \in SN : ~SduFull(rx_list', a)
  <2> SUFFICES ASSUME NEW a \in SN, SduFull(rx_list', a)
               PROVE  FALSE
    OBVIOUS
  <2>1. PICK l \in rx_list' : l.sn = a
    BY DEF SduFull, SegmentsOf
  <2>2. ~SduDelivered(rx_list', a)
    BY DEF SduFull
  <2>3. a # sn
    <3> SUFFICES ASSUME a = sn
                 PROVE  FALSE
      OBVIOUS
    <3>1. ~l.data
      BY <1>2, <1>8, <2>1
    <3> QED
      BY <2>1, <2>2, <3>1 DEF SduDelivered, SegmentsOf
  <2>4. SegmentsOf(rx_list', a) = SegmentsOf(rx_list, a)
    <3>1. Modulus(rx_next, a) >= Modulus(rx_next, rx_next')
      BY <1>2, <2>1
    <3>2. ASSUME NEW k \in rx_list, k.sn = a
          PROVE  k \in rx_list'
      <4>1. k \in list
        BY <1>6, <1>9, <2>3, <3>2 DEF Same
      <4> QED
        BY <1>2, <3>1, <3>2, <4>1
    <3>3. ASSUME NEW k \in rx_list', k.sn = a
          PROVE  k \in rx_list
      BY <1>2, <1>6, <1>8, <2>3, <3>3
    <3> QED
      BY <3>2, <3>3 DEF SegmentsOf
  <2>5. SduFull(rx_list, a)
    BY <2>4 DEF SduFull, SduDelivered, Covered
  <2> QED
    BY <1>1, <2>5 DEF ReceiverInv
<1> QED
  BY <1>5, <1>13, <1>15, <1>17, <1>18, <1>19, <1>20, <1>21, <1>22 DEF Takes, received

\* nr_mac_rlc_data_ind at the receiver
LEMMA ArrivalKeeps ==
    ASSUME LinkInv, DataArrives
    PROVE  /\ ListInv' /\ SegmentInv' /\ AccountInv' /\ FateInv'
           /\ SnInv' /\ ReceiverInv' /\ ReportInv'
<1>1. PICK pdu \in data_air :
         /\ RecvDataPdu(pdu) /\ DeliverUp(pdu)
         /\ data_air' = data_air \ {pdu} \/ data_air' = data_air
  BY DEF DataArrives
<1>2. UNCHANGED <<listVars, sizeVars, snVars, pollVars, upperVars, sdu, crashed, status_air>>
  BY DEF DataArrives
<1>3. data_air' \subseteq data_air
  BY <1>1
<1>4. CASE DiscardPdu(pdu)
  <2>1. UNCHANGED <<rx_list, rx_next, rx_next_highest, delivered, garbled>>
    BY <1>1, <1>4 DEF DiscardPdu, DeliverUp, Delivers
  <2>2. Quiet /\ status_air' \subseteq status_air
    BY <1>2, <2>1 DEF Quiet, listVars, sizeVars, snVars, pollVars, upperVars
  <2> QED
    BY <1>3, <2>2, QuietKeeps
<1>5. CASE StorePdu(pdu)
  BY <1>1, <1>2, <1>3, <1>5, StoreTakes, ReceptionKeeps
<1>6. CASE CompleteSdu(pdu)
  BY <1>1, <1>2, <1>3, <1>6, CompleteTakes, ReceptionKeeps
<1> QED
  BY <1>1, <1>4, <1>5, <1>6 DEF RecvDataPdu

-----------------------------------------------------------------------------
(* A status report arrives *)

\* An SDU of which every byte arrived was passed up.
LEMMA AllReceived ==
    ASSUME LinkInv, NEW id \in AllSdus, \A b \in 0 .. SduSize[id] - 1 : HasReceived(id, b)
    PROVE  delivered[id] = 1
<1> SUFFICES ASSUME delivered[id] # 1
             PROVE  FALSE
  OBVIOUS
<1>1. RxTypeOK /\ SnInv /\ ReceiverInv /\ FateInv
  BY DEF LinkInv, RxInv
<1> DEFINE n == SduSize[id]
<1>2. n \in Nat \ {0}
  BY SduNumbers
<1> HIDE DEF n
<1>3. \A b \in 0 .. n - 1 : \E l \in rx_list : l.sdu = id /\ b \in Bytes(l)
  <2>1. delivered[id] = 0
    BY <1>1 DEF FateInv
  <2> QED
    BY <2>1 DEF HasReceived, n
<1>4. \A l \in rx_list : /\ l.so \in Nat /\ l.size \in Nat \ {0} /\ l.sn \in SN
                         /\ l.sdu = id => Fits(l)
  BY <1>1 DEF RxTypeOK, StoredPdu, SnInv, Seen
<1>5. PICK l \in rx_list : l.sdu = id /\ n - 1 \in Bytes(l)
  BY <1>2, <1>3
<1>6. l.last /\ l.so \in Nat /\ l.so <= n - 1
  <2>1. l.so + l.size <= n /\ l.so \in Nat /\ l.size \in Nat \ {0}
        /\ (l.last <=> l.so + l.size = n)
    BY <1>4, <1>5 DEF Fits, n
  <2>2. l.so + l.size = n
    BY <1>2, <1>5, <2>1 DEF Bytes
  <2> QED
    BY <1>2, <2>1, <2>2
<1>7. \A k \in rx_list : k.sdu = id => k.sn = l.sn
  BY <1>1, <1>5, SameSdu DEF Seen
<1>8. 0 .. l.so - 1 \subseteq Covered(rx_list, l.sn)
  <2> SUFFICES ASSUME NEW b \in 0 .. l.so - 1
               PROVE  b \in Covered(rx_list, l.sn)
    OBVIOUS
  <2>1. b \in 0 .. n - 1
    BY <1>2, <1>6
  <2>2. PICK k \in rx_list : k.sdu = id /\ b \in Bytes(k)
    BY <1>3, <2>1
  <2> QED
    BY <1>7, <2>2 DEF Covered, SegmentsOf
<1>9. ~SduDelivered(rx_list, l.sn)
  <2> SUFFICES ASSUME NEW k \in rx_list, k.sn = l.sn, ~k.data
               PROVE  FALSE
    BY DEF SduDelivered, SegmentsOf
  <2>1. k.sdu = id
    BY <1>1, <1>5, SameSdu DEF Seen
  <2> QED
    BY <1>1, <2>1 DEF ReceiverInv
<1>10. SduFull(rx_list, l.sn)
  BY <1>6, <1>8, <1>9 DEF SduFull, SegmentsOf
<1> QED
  BY <1>1, <1>4, <1>10 DEF ReceiverInv

\* A valid report of the peer acknowledges no SN that is still to come, and
\* the shortcut at the end of the walk never cuts the retransmit list.
LEMMA ReportAges ==
    ASSUME LinkInv, TxNextAckIsSmallestUnacked, NEW r \in status_air, ValidReport(r.report)
    PROVE  /\ r.report.ack_sn \in SN /\ Age(r.report.ack_sn) <= Age(tx_next_ack)
           /\ \A s \in Numbered : Acked(r.report, s) => Age(r.report.ack_sn) < Age(s.sn)
           /\ CutFrom(r.report) = {}
<1> DEFINE ack == r.report.ack_sn
           A == Age(tx_next_ack)
<1>1. SnInv /\ ReportInv
  BY DEF LinkInv
<1>2. ack \in SN /\ tx_next \in SN /\ tx_next_ack \in SN
  BY <1>1 DEF SnInv, ReportInv
<1>3. /\ Age(ack) \in 0 .. SnModulus - 1 /\ A \in 0 .. SnModulus - 1
  BY <1>2, AgeType DEF Age
<1>4. TxOffset(ack) <= A
  BY DEF ValidReport, TxOffset, Age
<1>5. TxOffset(ack) = IF Age(ack) <= A THEN A - Age(ack) ELSE A - Age(ack) + SnModulus
  BY <1>2, AgeOffset DEF Age, TxOffset
<1> HIDE DEF ack, A
<1>6. Age(ack) <= A /\ TxOffset(ack) = A - Age(ack)
  BY <1>3, <1>4, <1>5, SnAssumption
<1>7. ASSUME NEW s \in Numbered, Acked(r.report, s)
      PROVE  Age(ack) < Age(s.sn)
  <2>1. s.sn \in SN /\ Age(s.sn) \in Int /\ Age(s.sn) <= A
    BY <1>1, NumberedAge DEF A
  <2>2. TxOffset(s.sn) = A - Age(s.sn)
    BY <1>2, <2>1, OffsetOfAge DEF A
  <2>3. TxOffset(s.sn) < TxOffset(ack)
    BY <1>7 DEF Acked, ack
  <2> QED
    BY <1>3, <1>6, <2>1, <2>2, <2>3
<1>8. CutFrom(r.report) = {}
  BY <1>1 DEF CutFrom, ReportInv
<1> QED
  BY <1>2, <1>6, <1>7, <1>8 DEF ack, A

\* So what a report acknowledges was received.
LEMMA AckedReceived ==
    ASSUME LinkInv, TxNextAckIsSmallestUnacked, NEW r \in status_air, ValidReport(r.report),
           NEW s \in Numbered, Acked(r.report, s), NEW b \in SegBytes(s)
    PROVE  HasReceived(s.sdu, b)
<1>1. ReportInv /\ SnInv /\ ListInv
  BY DEF LinkInv
<1>2. s.sn \in SN /\ s \in Segment
  BY <1>1, NumberedAge, SegmentsType DEF Numbered
<1>3. s.so \in Nat /\ LastByte(s) \in Int /\ b \in Int /\ s.so <= b /\ b <= LastByte(s)
  BY <1>2 DEF SegBytes, LastByte, Segment
<1>4. Age(r.report.ack_sn) < Age(s.sn)
  BY ReportAges
<1>5. ~Nacks(r.report, s.sn, b, b)
  <2> SUFFICES ASSUME NEW part \in NackedParts(r.report.nacks, s.sn), Overlaps(part, b, b)
               PROVE  FALSE
    BY DEF Nacks
  <2>1. part.so_start \in Int /\ part.so_end \in Int
    BY <1>1, <1>2 DEF ReportInv
  <2>2. Overlaps(part, s.so, LastByte(s))
    BY <1>3, <2>1 DEF Overlaps, ToEnd
  <2> QED
    BY <2>2 DEF Acked, Nacked, Nacks
<1> QED
  BY <1>1, <1>4, <1>5 DEF ReportInv, Honest

NackedOf(report, S) == {s \in S : Nacked(report, s)}
AckedOf(report, S) == {s \in S : Acked(report, s)}

\* The sublists of process_control_pdu, as sets
LEMMA SublistOf ==
    ASSUME NEW list \in Seq(Segment), Sorted(list), NEW I \in SUBSET DOMAIN list,
           NEW S, \A i \in DOMAIN list : i \in I <=> list[i] \in S
    PROVE  /\ Entries(list, I) \in Seq(Segment) /\ Sorted(Entries(list, I))
           /\ Range(Entries(list, I)) = Range(list) \cap S
<1>1. /\ Entries(list, I) \in Seq(Segment) /\ Sorted(Entries(list, I))
      /\ Range(Entries(list, I)) = {list[i] : i \in I}
  BY EntriesSorted
<1>2. Range(list) = {list[i] : i \in DOMAIN list}
  BY DEF Range
<1> QED
  BY <1>1, <1>2

LEMMA ReportSublists ==
    ASSUME LinkInv, TxNextAckIsSmallestUnacked, NEW r \in status_air, ValidReport(r.report)
    PROVE  LET report == r.report
           IN /\ /\ Moved(report) \in Seq(Segment) /\ Sorted(Moved(report))
                 /\ Range(Moved(report)) = NackedOf(report, Waiting)
              /\ /\ StaysWaiting(report) \in Seq(Segment) /\ Sorted(StaysWaiting(report))
                 /\ Range(StaysWaiting(report)) =
                       Waiting \ (NackedOf(report, Waiting) \cup AckedOf(report, Waiting))
              /\ /\ StaysRetransmit(report) \in Seq(Segment) /\ Sorted(StaysRetransmit(report))
                 /\ Range(StaysRetransmit(report)) = Again \ AckedOf(report, Again)
              /\ /\ FreedWaiting(report) \in Seq(Segment) /\ Sorted(FreedWaiting(report))
                 /\ Range(FreedWaiting(report)) = AckedOf(report, Waiting)
              /\ /\ FreedRetransmit(report) \in Seq(Segment)
                 /\ Sorted(FreedRetransmit(report))
                 /\ Range(FreedRetransmit(report)) = AckedOf(report, Again)
<1> DEFINE report == r.report
           W == wait_list
           R == retransmit_list
<1>1. /\ W \in Seq(Segment) /\ Sorted(W) /\ R \in Seq(Segment) /\ Sorted(R)
      /\ Waiting = Range(W) /\ Again = Range(R)
  BY DEF LinkInv, ListInv, Waiting, Again
<1>2. CutFrom(report) = {}
  BY ReportAges
<1>3. /\ \A i \in DOMAIN W : W[i] \in Waiting
      /\ \A i \in DOMAIN R : R[i] \in Again
  BY <1>1 DEF Range
<1> HIDE DEF W, R, report
<1>4. /\ Moved(report) \in Seq(Segment) /\ Sorted(Moved(report))
      /\ Range(Moved(report)) = NackedOf(report, Waiting)
  <2> DEFINE I == {i \in DOMAIN W : Nacked(report, W[i])}
             S == NackedOf(report, Waiting)
  <2>1. I \in SUBSET DOMAIN W /\ \A i \in DOMAIN W : i \in I <=> W[i] \in S
    BY <1>3 DEF NackedOf
  <2>2. Moved(report) = Entries(W, I) /\ S \subseteq Waiting
    BY DEF Moved, W, NackedOf
  <2> HIDE DEF I, S
  <2>3. /\ Entries(W, I) \in Seq(Segment) /\ Sorted(Entries(W, I))
        /\ Range(Entries(W, I)) = Waiting \cap S
    BY <1>1, <2>1, SublistOf
  <2> QED
    BY <2>2, <2>3 DEF S
<1>5. /\ StaysWaiting(report) \in Seq(Segment) /\ Sorted(StaysWaiting(report))
      /\ Range(StaysWaiting(report)) =
            Waiting \ (NackedOf(report, Waiting) \cup AckedOf(report, Waiting))
  <2> DEFINE I == {i \in DOMAIN W : ~Nacked(report, W[i]) /\ ~Acked(report, W[i])}
             S == Waiting \ (NackedOf(report, Waiting) \cup AckedOf(report, Waiting))
  <2>1. I \in SUBSET DOMAIN W /\ \A i \in DOMAIN W : i \in I <=> W[i] \in S
    BY <1>3 DEF NackedOf, AckedOf
  <2>2. StaysWaiting(report) = Entries(W, I) /\ S \subseteq Waiting
    BY DEF StaysWaiting, W
  <2> HIDE DEF I, S
  <2>3. /\ Entries(W, I) \in Seq(Segment) /\ Sorted(Entries(W, I))
        /\ Range(Entries(W, I)) = Waiting \cap S
    BY <1>1, <2>1, SublistOf
  <2> QED
    BY <2>2, <2>3 DEF S
<1>6. /\ StaysRetransmit(report) \in Seq(Segment) /\ Sorted(StaysRetransmit(report))
      /\ Range(StaysRetransmit(report)) = Again \ AckedOf(report, Again)
  <2> DEFINE I == {i \in DOMAIN R : /\ ~Acked(report, R[i])
                                    /\ \A j \in CutFrom(report) : i < j}
             S == Again \ AckedOf(report, Again)
  <2>1. I \in SUBSET DOMAIN R /\ \A i \in DOMAIN R : i \in I <=> R[i] \in S
    BY <1>2, <1>3 DEF AckedOf
  <2>2. StaysRetransmit(report) = Entries(R, I) /\ S \subseteq Again
    BY DEF StaysRetransmit, R
  <2> HIDE DEF I, S
  <2>3. /\ Entries(R, I) \in Seq(Segment) /\ Sorted(Entries(R, I))
        /\ Range(Entries(R, I)) = Again \cap S
    BY <1>1, <2>1, SublistOf
  <2> QED
    BY <2>2, <2>3 DEF S
<1>7. /\ FreedWaiting(report) \in Seq(Segment) /\ Sorted(FreedWaiting(report))
      /\ Range(FreedWaiting(report)) = AckedOf(report, Waiting)
  <2> DEFINE I == {i \in DOMAIN W : Acked(report, W[i])}
             S == AckedOf(report, Waiting)
  <2>1. I \in SUBSET DOMAIN W /\ \A i \in DOMAIN W : i \in I <=> W[i] \in S
    BY <1>3 DEF AckedOf
  <2>2. FreedWaiting(report) = Entries(W, I) /\ S \subseteq Waiting
    BY DEF FreedWaiting, W, AckedOf
  <2> HIDE DEF I, S
  <2>3. /\ Entries(W, I) \in Seq(Segment) /\ Sorted(Entries(W, I))
        /\ Range(Entries(W, I)) = Waiting \cap S
    BY <1>1, <2>1, SublistOf
  <2> QED
    BY <2>2, <2>3 DEF S
<1>8. /\ FreedRetransmit(report) \in Seq(Segment) /\ Sorted(FreedRetransmit(report))
      /\ Range(FreedRetransmit(report)) = AckedOf(report, Again)
  <2> DEFINE I == {i \in DOMAIN R : Acked(report, R[i])}
             S == AckedOf(report, Again)
  <2>1. I \in SUBSET DOMAIN R /\ \A i \in DOMAIN R : i \in I <=> R[i] \in S
    BY <1>3 DEF AckedOf
  <2>2. FreedRetransmit(report) = Entries(R, I) /\ S \subseteq Again
    BY DEF FreedRetransmit, R, AckedOf
  <2> HIDE DEF I, S
  <2>3. /\ Entries(R, I) \in Seq(Segment) /\ Sorted(Entries(R, I))
        /\ Range(Entries(R, I)) = Again \cap S
    BY <1>1, <2>1, SublistOf
  <2> QED
    BY <2>2, <2>3 DEF S
<1> QED
  BY <1>4, <1>5, <1>6, <1>7, <1>8 DEF report

LEMMA ReportLists ==
    ASSUME LinkInv, TxNextAckIsSmallestUnacked, NEW r \in status_air, ValidReport(r.report),
           ProcessReport(r.report)
    PROVE  /\ ListInv' /\ Unsent' = Unsent
           /\ Waiting' = Waiting \ (NackedOf(r.report, Waiting) \cup AckedOf(r.report, Waiting))
           /\ Again' = (Again \ AckedOf(r.report, Again)) \cup NackedOf(r.report, Waiting)
<1> DEFINE report == r.report
           N == NackedOf(report, Waiting)
           A == AckedOf(report, Waiting)
           stays == StaysWaiting(report)
           resent == StaysRetransmit(report)
           moved == Moved(report)
<1>1. /\ ListInv /\ SegmentInv /\ SnInv
      /\ wait_list \in Seq(Segment) /\ Sorted(wait_list) /\ wait_end = EndOf(wait_list)
  BY DEF LinkInv, ListInv
<1>2. /\ moved \in Seq(Segment) /\ Sorted(moved) /\ Range(moved) = N
      /\ stays \in Seq(Segment) /\ Sorted(stays) /\ Range(stays) = Waiting \ (N \cup A)
      /\ resent \in Seq(Segment) /\ Sorted(resent)
      /\ Range(resent) = Again \ AckedOf(report, Again)
  <2>1. LET x == r.report
        IN /\ Moved(x) \in Seq(Segment) /\ Sorted(Moved(x))
           /\ Range(Moved(x)) = NackedOf(x, Waiting)
           /\ StaysWaiting(x) \in Seq(Segment) /\ Sorted(StaysWaiting(x))
           /\ Range(StaysWaiting(x)) = Waiting \ (NackedOf(x, Waiting) \cup AckedOf(x, Waiting))
           /\ StaysRetransmit(x) \in Seq(Segment) /\ Sorted(StaysRetransmit(x))
           /\ Range(StaysRetransmit(x)) = Again \ AckedOf(x, Again)
    BY ReportSublists
  <2> QED
    BY <2>1
<1>3. /\ tx_list' = tx_list /\ tx_end' = tx_end /\ wait_list' = stays
      /\ wait_end' = IF wait_end # NoSegment
                        /\ (Nacked(report, wait_end) \/ Acked(report, wait_end))
                     THEN EndOf(stays) ELSE wait_end
      /\ retransmit_list' = ListAddAll(resent, moved)
  BY DEF ProcessReport, EndOf
<1>4. N \subseteq Waiting /\ A \subseteq Waiting
  BY DEF NackedOf, AckedOf
<1>5. wait_end' = EndOf(stays)
  <2>1. CASE wait_list = <<>>
    <3>1. Waiting = {} /\ wait_end = NoSegment
      BY <1>1, <2>1 DEF Waiting, Range, EndOf
    <3>2. stays = <<>>
      <4> HIDE DEF stays
      <4> QED
        BY <1>2, <3>1, RangeIs
    <3> QED
      BY <1>3, <3>1, <3>2 DEF EndOf
  <2>2. CASE wait_list # <<>> /\ (Nacked(report, wait_end) \/ Acked(report, wait_end))
    <3>1. wait_end # NoSegment
      BY <1>1, <2>2, EndIsHighest
    <3> QED
      BY <1>3, <2>2, <3>1
  <2>3. CASE wait_list # <<>> /\ ~(Nacked(report, wait_end) \/ Acked(report, wait_end))
    <3>1. /\ wait_end \in Waiting
          /\ \A s \in Waiting : s = wait_end \/ Less(s, wait_end)
      BY <1>1, <2>3, EndIsHighest DEF Waiting
    <3>2. wait_end \in Range(stays) /\ \A s \in Range(stays) : s = wait_end \/ Less(s, wait_end)
      BY <1>2, <2>3, <3>1 DEF NackedOf, AckedOf
    <3> HIDE DEF stays
    <3>3. EndOf(stays) = wait_end
      BY <1>2, <3>2, HighestIsEnd
    <3> QED
      BY <1>3, <2>3, <3>3 DEF stays
  <2> QED
    BY <2>1, <2>2, <2>3
<1> HIDE DEF stays, resent, moved, N, A
<1>6. /\ retransmit_list' \in Seq(Segment) /\ Sorted(retransmit_list')
      /\ Again' = Range(resent) \cup N
  <2>1. Range(resent) \cap Range(moved) = {}
    <3>1. Waiting \cap Again = {}
      BY <1>1 DEF SegmentInv
    <3> QED
      BY <1>2, <1>4, <3>1
  <2>2. Comparable(Range(resent) \cup Range(moved))
    <3>1. Comparable(Numbered) /\ Waiting \cup Again \subseteq Numbered
      BY <1>1, NumberedComparable
    <3>2. Range(resent) \cup Range(moved) \subseteq Numbered
      BY <1>2, <1>4, <3>1
    <3> QED
      BY <3>1, <3>2 DEF Comparable
  <2>3. LET new == ListAddAll(resent, moved)
        IN /\ new \in Seq(Segment) /\ Sorted(new)
           /\ Range(new) = Range(resent) \cup Range(moved)
    BY <1>2, <2>1, <2>2, AddAllIs
  <2> QED
    BY <1>2, <1>3, <2>3 DEF Again
<1>7. ListInv'
  BY <1>1, <1>2, <1>3, <1>5, <1>6 DEF ListInv
<1>8. Unsent' = Unsent /\ Waiting' = Waiting \ (N \cup A)
  BY <1>2, <1>3 DEF Unsent, Waiting
<1> QED
  BY <1>2, <1>6, <1>7, <1>8 DEF N, A

\* Everything that remains was held before; what is gone was acknowledged.
LEMMA ReportSegments ==
    ASSUME LinkInv, TxNextAckIsSmallestUnacked, NEW r \in status_air, ValidReport(r.report),
           ProcessReport(r.report)
    PROVE  LET freed == AckedOf(r.report, Waiting) \cup AckedOf(r.report, Again)
           IN /\ Segments' = Segments \ freed /\ Numbered' = Numbered \ freed
              /\ freed \subseteq Numbered /\ SegmentInv'
<1> DEFINE N == NackedOf(r.report, Waiting)
           A == AckedOf(r.report, Waiting)
           B == AckedOf(r.report, Again)
           freed == A \cup B
<1>1. ListInv /\ SegmentInv /\ SnInv
  BY DEF LinkInv
<1>2. /\ Unsent' = Unsent /\ Waiting' = Waiting \ (N \cup A) /\ Again' = (Again \ B) \cup N
      /\ tx_next' = tx_next /\ offered' = offered /\ last_sent' = last_sent
  BY ReportLists DEF ProcessReport
<1>3. /\ N \subseteq Waiting /\ A \subseteq Waiting /\ B \subseteq Again /\ N \cap A = {}
  BY DEF NackedOf, AckedOf, Acked
<1>4. /\ Segments = Unsent \cup Waiting \cup Again
      /\ Segments' = Unsent' \cup Waiting' \cup Again'
      /\ Unsent \cap Waiting = {} /\ Unsent \cap Again = {} /\ Waiting \cap Again = {}
  BY <1>1 DEF SegmentInv, Segments, Unsent, Waiting, Again
<1>5. Waiting \cup Again \subseteq Numbered
  BY <1>1, NumberedComparable
<1> HIDE DEF N, A, B
<1>6. Segments' = Segments \ freed
  BY <1>2, <1>3, <1>4
<1>7. Numbered' = Numbered \ freed
  BY <1>6 DEF Numbered
<1>8. SegmentInv'
  <2>1. \A s \in Unsent : (Fresh(s) \/ IsRest(s))'
    BY <1>1, <1>2 DEF SegmentInv, Fresh, IsRest, Age
  <2>2. Waiting' \cup Again' \subseteq Waiting \cup Again
    BY <1>2, <1>3
  <2>3. Unsent' \cap Waiting' = {} /\ Unsent' \cap Again' = {} /\ Waiting' \cap Again' = {}
    BY <1>2, <1>3, <1>4
  <2> QED
    BY <1>1, <1>2, <1>6, <2>1, <2>2, <2>3 DEF SegmentInv
<1> QED
  BY <1>3, <1>5, <1>6, <1>7, <1>8 DEF A, B

LEMMA SduSizesSplit ==
    ASSUME NEW S, IsFiniteSet(S), \A id \in S : SduSize[id] \in Nat, NEW T \in SUBSET S
    PROVE  /\ SumFunctionOnSet(SduSize, T) \in Nat
           /\ SumFunctionOnSet(SduSize, S \ T) \in Nat
           /\ SumFunctionOnSet(SduSize, S) =
                 SumFunctionOnSet(SduSize, T) + SumFunctionOnSet(SduSize, S \ T)
BY SumSplit, SMTT(20)

\* The counters after the report
LEMMA ReportAccounts ==
    ASSUME LinkInv, TxNextAckIsSmallestUnacked, NEW r \in status_air, ValidReport(r.report),
           ProcessReport(r.report)
    PROVE  /\ AccountInv' /\ DOMAIN sdu' \subseteq DOMAIN sdu
           /\ confirmed' = confirmed \cup (DOMAIN sdu \ DOMAIN sdu')
<1> DEFINE report == r.report
           moved == Moved(report)
           freed == Freed(report)
           N == NackedOf(report, Waiting)
           A == AckedOf(report, Waiting)
           B == AckedOf(report, Again)
           F == A \cup B
           counted == [id \in DOMAIN sdu |->
              [sdu[id] EXCEPT !.retx_count = Min({@ + CountOf(moved, id), RetxCap}),
                              !.free_count = @ + CountOf(freed, id)]]
           D == {id \in DOMAIN sdu : counted[id].free_count = counted[id].ref_count}
<1>1. /\ ListInv /\ SegmentInv /\ AccountInv /\ FateInv
  BY DEF LinkInv
<1>2. /\ moved \in Seq(Segment) /\ Sorted(moved) /\ Range(moved) = N
      /\ FreedWaiting(report) \in Seq(Segment) /\ Sorted(FreedWaiting(report))
      /\ Range(FreedWaiting(report)) = A
      /\ FreedRetransmit(report) \in Seq(Segment) /\ Sorted(FreedRetransmit(report))
      /\ Range(FreedRetransmit(report)) = B
  <2>1. LET x == r.report
        IN /\ Moved(x) \in Seq(Segment) /\ Sorted(Moved(x))
           /\ Range(Moved(x)) = NackedOf(x, Waiting)
           /\ FreedWaiting(x) \in Seq(Segment) /\ Sorted(FreedWaiting(x))
           /\ Range(FreedWaiting(x)) = AckedOf(x, Waiting)
           /\ FreedRetransmit(x) \in Seq(Segment) /\ Sorted(FreedRetransmit(x))
           /\ Range(FreedRetransmit(x)) = AckedOf(x, Again)
    BY ReportSublists
  <2> QED
    BY <2>1
<1>3. /\ sdu' = Restrict(counted, DOMAIN sdu \ D)
      /\ confirmed' = confirmed \cup D
      /\ tx_size' = tx_size - SumFunctionOnSet(SduSize, D)
      /\ bstatus' = [bstatus EXCEPT !.retx_size =
                        @ + Sizes(moved) - Sizes(FreedRetransmit(report))]
  BY DEF ProcessReport
<1>4. /\ Unsent' = Unsent /\ Again' = (Again \ B) \cup N /\ Segments' = Segments \ F
      /\ F \subseteq Segments
  <2>1. Unsent' = Unsent /\ Again' = (Again \ B) \cup N
    BY ReportLists
  <2>2. LET f == AckedOf(r.report, Waiting) \cup AckedOf(r.report, Again)
        IN Segments' = Segments \ f /\ f \subseteq Numbered
    BY ReportSegments
  <2> QED
    BY <2>1, <2>2 DEF Numbered
<1>5. /\ Segments \subseteq Segment /\ IsFiniteSet(Segments)
      /\ IsFiniteSet(Waiting) /\ IsFiniteSet(Again)
      /\ Segments = Unsent \cup Waiting \cup Again
      /\ Waiting \cap Again = {}
  BY <1>1, SegmentsType DEF SegmentInv
<1>6. N \subseteq Waiting /\ A \subseteq Waiting /\ B \subseteq Again
  BY DEF NackedOf, AckedOf
<1>7. /\ sdu \in [DOMAIN sdu -> Counters] /\ DOMAIN sdu = {s.sdu : s \in Segments}
      /\ \A id \in DOMAIN sdu :
            sdu[id].ref_count - sdu[id].free_count = Cardinality(Of(Segments, id))
      /\ tx_size = SumFunctionOnSet(SduSize, DOMAIN sdu)
      /\ bstatus = [tx_size |-> SizeOfSegments(Unsent), retx_size |-> SizeOfSegments(Again)]
  BY <1>1 DEF AccountInv
<1>8. /\ freed \in Seq(Segment) /\ Injective(freed) /\ Range(freed) = F
  <2>1. Range(FreedWaiting(report)) \cap Range(FreedRetransmit(report)) = {}
    BY <1>2, <1>5, <1>6
  <2>2. Injective(FreedWaiting(report)) /\ Injective(FreedRetransmit(report))
    BY <1>2, SortedIsInjective
  <2> QED
    BY <1>2, <2>1, <2>2, ConcatInjective DEF Freed
<1>9. \A id : /\ CountOf(freed, id) = Cardinality(Of(F, id))
              /\ CountOf(moved, id) = Cardinality(Of(N, id))
  <2>1. Injective(moved)
    BY <1>2, SortedIsInjective
  <2> HIDE DEF freed, moved, F, N
  <2> QED
    BY <1>2, <1>8, <2>1, CountIs
<1>10. ASSUME NEW id
       PROVE  /\ IsFiniteSet(Of(Segments, id)) /\ IsFiniteSet(Of(Segments', id))
              /\ Cardinality(Of(F, id)) \in Int /\ Cardinality(Of(N, id)) \in Int
              /\ Cardinality(Of(Segments, id)) \in Int
              /\ Cardinality(Of(Segments', id)) =
                    Cardinality(Of(Segments, id)) - Cardinality(Of(F, id))
  <2> DEFINE S == Of(Segments, id)
  <2>1. /\ S \subseteq Segments /\ Of(F, id) \subseteq S
        /\ Of(N, id) \subseteq Waiting /\ Of(Segments', id) = S \ Of(F, id)
    BY <1>4, <1>6 DEF Of
  <2>2. IsFiniteSet(S)
    BY <1>5, <2>1, FS_Subset
  <2> HIDE DEF S
  <2>3. IsFiniteSet(Of(F, id)) /\ IsFiniteSet(Of(N, id)) /\ IsFiniteSet(S \ Of(F, id))
    BY <1>5, <2>1, <2>2, FS_Subset, FS_Difference
  <2>4. S \cap Of(F, id) = Of(F, id)
    BY <2>1
  <2>5. Cardinality(S \ Of(F, id)) = Cardinality(S) - Cardinality(S \cap Of(F, id))
    BY <2>2, FS_Difference
  <2>6. /\ Cardinality(S) \in Int /\ Cardinality(Of(F, id)) \in Int
        /\ Cardinality(Of(N, id)) \in Int
    <3>1. \A n \in Nat : n \in Int
      OBVIOUS
    <3> QED
      BY <2>2, <2>3, <3>1, FS_CardinalityType
  <2>7. Cardinality(Of(Segments', id)) = Cardinality(S) - Cardinality(Of(F, id))
    BY <2>1, <2>4, <2>5
  <2>8. IsFiniteSet(Of(Segments', id))
    BY <2>1, <2>3
  <2> QED
    BY <2>2, <2>6, <2>7, <2>8 DEF S
<1> HIDE DEF moved, freed, F, N, A, B, report
<1>11. ASSUME NEW id \in DOMAIN sdu
       PROVE  /\ counted[id] \in Counters
              /\ counted[id].ref_count - counted[id].free_count = Cardinality(Of(Segments', id))
  <2> DEFINE c == sdu[id]
             m == Min({c.retx_count + CountOf(moved, id), RetxCap})
             k == c.free_count + CountOf(freed, id)
  <2>1. counted[id] = [c EXCEPT !.retx_count = m, !.free_count = k]
    OBVIOUS
  <2>2. c \in Counters /\ c.ref_count - c.free_count = Cardinality(Of(Segments, id))
    BY <1>7
  <2>3. CountOf(moved, id) \in Int /\ CountOf(freed, id) \in Int
    BY <1>9, <1>10
  <2>4. c.retx_count \in Int /\ c.ref_count \in Int /\ c.free_count \in Int
    BY <2>2 DEF Counters
  <2>5. m \in Int
    <3>1. c.retx_count + CountOf(moved, id) \in Int
      BY <2>3, <2>4
    <3> QED
      BY <3>1, CappedType
  <2>6. k \in Int
    BY <2>3, <2>4
  <2> HIDE DEF m, c, counted
  <2>7. /\ counted[id] \in Counters /\ counted[id].ref_count = c.ref_count
        /\ counted[id].free_count = k
    <3> HIDE DEF k
    <3> QED
      BY <2>1, <2>2, <2>5, <2>6 DEF Counters
  <2> QED
    BY <1>9, <1>10, <2>2, <2>3, <2>4, <2>7
<1> HIDE DEF counted
<1>12. \A id \in DOMAIN sdu : id \in D <=> Of(Segments', id) = {}
  <2> SUFFICES ASSUME NEW id \in DOMAIN sdu
               PROVE  counted[id].free_count = counted[id].ref_count <=> Of(Segments', id) = {}
    OBVIOUS
  <2>1. counted[id].free_count \in Int /\ counted[id].ref_count \in Int
    BY <1>11 DEF Counters
  <2>2. IsFiniteSet(Of(Segments', id))
    BY <1>10
  <2>3. Cardinality(Of(Segments', id)) = 0 <=> Of(Segments', id) = {}
    BY <2>2, FS_EmptySet
  <2> QED
    BY <1>11, <2>1, <2>3
<1>13. D \subseteq DOMAIN sdu
  OBVIOUS
<1> HIDE DEF D
<1>14. /\ DOMAIN sdu' = DOMAIN sdu \ D
       /\ \A id \in DOMAIN sdu' : sdu'[id] = counted[id]
       /\ sdu' \in [DOMAIN sdu' -> Counters]
  BY <1>3, <1>11 DEF Restrict
<1>15. DOMAIN sdu' = {s.sdu : s \in Segments'}
  BY <1>4, <1>7, <1>12, <1>14 DEF Of
<1>16. \A id \in DOMAIN sdu' :
          sdu'[id].ref_count - sdu'[id].free_count = Cardinality(Of(Segments', id))
  BY <1>11, <1>14
<1>17. tx_size' = SumFunctionOnSet(SduSize, DOMAIN sdu')
  <2>1. IsFiniteSet(DOMAIN sdu) /\ \A id \in DOMAIN sdu : SduSize[id] \in Nat
    BY <1>1, HeldSdus, SduNumbers
  <2>3. /\ SumFunctionOnSet(SduSize, D) \in Nat
        /\ SumFunctionOnSet(SduSize, DOMAIN sdu \ D) \in Nat
        /\ SumFunctionOnSet(SduSize, DOMAIN sdu) =
              SumFunctionOnSet(SduSize, D) + SumFunctionOnSet(SduSize, DOMAIN sdu \ D)
    BY <1>13, <2>1, SduSizesSplit
  <2> QED
    BY <1>3, <1>7, <1>14, <2>3
<1>18. bstatus' = [tx_size |-> SizeOfSegments(Unsent'), retx_size |-> SizeOfSegments(Again')]
  <2>1. Sizes(moved) = SizeOfSegments(N) /\ Sizes(FreedRetransmit(report)) = SizeOfSegments(B)
    BY <1>2, SortedIsInjective, SizesAre
  <2> DEFINE G == Again \cup N
  <2>2. /\ G \in SUBSET Segment /\ IsFiniteSet(G) /\ Again \in SUBSET G /\ B \in SUBSET G
        /\ G \ Again = N /\ G \ B = Again'
    <3>1. IsFiniteSet(N)
      BY <1>5, <1>6, FS_Subset
    <3>2. IsFiniteSet(G)
      BY <1>5, <3>1, FS_Union
    <3> QED
      BY <1>4, <1>5, <1>6, <3>2
  <2> HIDE DEF G
  <2>3. /\ SizeOfSegments(G) \in Int /\ SizeOfSegments(Again) \in Int
        /\ SizeOfSegments(N) = SizeOfSegments(G) - SizeOfSegments(Again)
    BY <2>2, SizeOfSegmentsSplit
  <2>4. /\ SizeOfSegments(B) \in Int
        /\ SizeOfSegments(Again') = SizeOfSegments(G) - SizeOfSegments(B)
    BY <2>2, SizeOfSegmentsSplit
  <2>5. SizeOfSegments(Again) + SizeOfSegments(N) - SizeOfSegments(B) = SizeOfSegments(Again')
    BY <2>3, <2>4
  <2> QED
    BY <1>3, <1>4, <1>7, <2>1, <2>5
<1>19. AccountInv'
  BY <1>14, <1>15, <1>16, <1>17, <1>18 DEF AccountInv
<1> QED
  BY <1>3, <1>13, <1>14, <1>19

\* What the report acknowledges arrived, so that nothing is lost with it, and
\* an SDU of which nothing numbered is left was delivered.
LEMMA ReportFrees ==
    ASSUME LinkInv, TxNextAckIsSmallestUnacked, NEW r \in status_air, ValidReport(r.report),
           ProcessReport(r.report), UNCHANGED <<rx_list, delivered>>
    PROVE  /\ NoByteLost'
           /\ \A id \in DOMAIN sdu : id \notin DOMAIN sdu' => delivered[id] = 1
           /\ \A s \in Numbered :
                 delivered[s.sdu] = 1 \/ \E t \in Numbered' : t.sn = s.sn
<1> DEFINE freed == AckedOf(r.report, Waiting) \cup AckedOf(r.report, Again)
<1>1. /\ ListInv /\ SegmentInv /\ FateInv /\ SnInv /\ ReceiverInv /\ NoByteLost
  BY DEF LinkInv, ReceiverInv
<1>2. /\ Segments' = Segments \ freed /\ Numbered' = Numbered \ freed
      /\ freed \subseteq Numbered
  BY ReportSegments
<1>3. \A s \in freed : \A b \in SegBytes(s) : HasReceived(s.sdu, b)
  <2>1. \A s \in freed : Acked(r.report, s)
    BY DEF AckedOf
  <2> HIDE DEF freed
  <2> QED
    BY <1>2, <2>1, AckedReceived
<1> HIDE DEF freed
<1>4. offered' = offered /\ dropped' = dropped
  BY DEF ProcessReport
<1>5. NoByteLost'
  <2> SUFFICES ASSUME NEW id \in (1 .. offered) \ dropped, NEW b \in 0 .. SduSize[id] - 1
               PROVE  \/ \E seg \in Segments' : seg.sdu = id /\ b \in SegBytes(seg)
                      \/ HasReceived(id, b)'
    BY <1>4 DEF NoByteLost
  <2>1. HasReceived(id, b) => HasReceived(id, b)'
    BY DEF HasReceived
  <2>2. \/ \E seg \in Segments : seg.sdu = id /\ b \in SegBytes(seg)
        \/ HasReceived(id, b)
    BY <1>1 DEF NoByteLost
  <2> QED
    BY <1>2, <1>3, <2>1, <2>2
<1>6. ASSUME NEW id \in (1 .. offered) \ dropped,
             \A s \in Segments : s.sdu = id => s \in freed
      PROVE  delivered[id] = 1
  <2>1. id \in AllSdus
    BY <1>1, SduNumbers, HeldSdus
  <2>2. \A b \in 0 .. SduSize[id] - 1 : HasReceived(id, b)
    BY <1>1, <1>3, <1>6 DEF NoByteLost
  <2> QED
    BY <2>1, <2>2, AllReceived
<1>7. ASSUME NEW id \in DOMAIN sdu, id \notin DOMAIN sdu'
      PROVE  delivered[id] = 1
  <2>1. id \in (1 .. offered) \ dropped
    BY <1>1 DEF FateInv
  <2>2. DOMAIN sdu' = {s.sdu : s \in Segments'}
    BY ReportAccounts DEF AccountInv
  <2>3. \A s \in Segments : s.sdu = id => s \in freed
    BY <1>2, <1>7, <2>2
  <2> QED
    BY <1>6, <2>1, <2>3
<1>8. ASSUME NEW s \in Numbered, ~ \E t \in Numbered' : t.sn = s.sn
      PROVE  delivered[s.sdu] = 1
  <2>1. s \in Seen /\ s \in Segments
    BY DEF Seen, Numbered
  <2>2. s.sdu \in (1 .. offered) \ dropped
    <3>1. s.sdu \in Nat \ {0} /\ s.sdu \notin dropped /\ s.sdu <= offered
      BY <1>1, <2>1, SduNumbers DEF SnInv, SegmentInv
    <3> QED
      BY <1>1, <3>1, HeldSdus
  <2>3. ASSUME NEW t \in Segments, t.sdu = s.sdu
        PROVE  t \in freed
    <3>1. t \in Numbered
      <4> SUFFICES ASSUME t.sn = NoSn
                   PROVE  FALSE
        BY DEF Numbered
      <4>1. t.sn \notin SN
        BY SnAssumption DEF SN, NoSn
      <4>2. Fresh(t)
        BY <1>1, <4>1, SegmentsType DEF SegmentInv, IsRest
      <4>3. s.sdu \in Nat /\ s.sdu <= last_sent /\ last_sent \in Nat
        BY <1>1, <2>1, SeenIsSent, HeldSdus
      <4> QED
        BY <2>3, <4>2, <4>3 DEF Fresh
    <3>2. t.sn = s.sn
      BY <1>1, <2>1, <2>3, <3>1, SameSdu DEF Seen
    <3> QED
      BY <1>2, <1>8, <3>1, <3>2
  <2> QED
    BY <1>6, <2>2, <2>3
<1> QED
  BY <1>5, <1>7, <1>8

\* The CHOOSE of process_control_pdu has something to choose: the closest to
\* the old tx_next_ack.
LEMMA NextAckIs ==
    ASSUME NEW report, NEW wait, NEW retransmit, tx_next \in SN, tx_next_ack \in SN,
           report.ack_sn \in SN,
           wait # <<>> => Head(wait).sn \in SN,
           retransmit # <<>> => Head(retransmit).sn \in SN
    PROVE  LET heads == {tx_next, report.ack_sn}
                        \cup (IF wait = <<>> THEN {} ELSE {Head(wait).sn})
                        \cup (IF retransmit = <<>> THEN {} ELSE {Head(retransmit).sn})
               next  == NextAck(report, wait, retransmit)
           IN /\ next \in heads
              /\ \A other \in heads : TxOffset(next) <= TxOffset(other)
<1> DEFINE heads == {tx_next, report.ack_sn}
                    \cup (IF wait = <<>> THEN {} ELSE {Head(wait).sn})
                    \cup (IF retransmit = <<>> THEN {} ELSE {Head(retransmit).sn})
           offsets == {TxOffset(sn) : sn \in heads}
<1>1. heads \subseteq SN /\ tx_next \in heads
  BY Zenon
<1>2. NextAck(report, wait, retransmit) =
         CHOOSE sn \in heads : \A other \in heads : TxOffset(sn) <= TxOffset(other)
  BY DEF NextAck
<1> HIDE DEF heads
<1>3. \A sn \in SN : TxOffset(sn) \in Nat
  BY SnAssumption DEF TxOffset, Modulus, SN
<1>4. offsets \in SUBSET Nat /\ offsets # {}
  BY <1>1, <1>3
<1>5. Min(offsets) \in offsets /\ \A n \in offsets : Min(offsets) <= n
  <2> HIDE DEF offsets
  <2> QED
    BY <1>4, MinOfNumbers
<1>6. \E sn \in heads : \A other \in heads : TxOffset(sn) <= TxOffset(other)
  BY <1>5
<1>7. /\ NextAck(report, wait, retransmit) \in heads
      /\ \A other \in heads : TxOffset(NextAck(report, wait, retransmit)) <= TxOffset(other)
  BY <1>2, <1>6
<1> QED
  BY <1>7 DEF heads

\* A report that is processed
LEMMA ValidReportKeeps ==
    ASSUME LinkInv, TxNextAckIsSmallestUnacked, TxNextAckIsSmallestUnacked',
           NEW r \in status_air, ValidReport(r.report), ProcessReport(r.report),
           status_air' \subseteq status_air, UNCHANGED <<rxVars, delivered, garbled>>
    PROVE  /\ ListInv' /\ SegmentInv' /\ AccountInv' /\ FateInv'
           /\ SnInv' /\ ReceiverInv' /\ ReportInv'
<1> DEFINE freed == AckedOf(r.report, Waiting) \cup AckedOf(r.report, Again)
<1>1. /\ ListInv /\ SegmentInv /\ FateInv /\ SnInv /\ ReceiverInv /\ ReportInv
      /\ RxTypeOK /\ RxEdgesNotDelivered
  BY DEF LinkInv, RxInv
<1>2. UNCHANGED <<rx_list, rx_next, rx_next_highest, delivered, garbled>>
  BY DEF rxVars
<1>3. UNCHANGED <<tx_next, last_sent, poll_sn, offered, dropped, data_air>>
  BY DEF ProcessReport
<1>4. /\ Numbered' \subseteq Numbered /\ SegmentInv' /\ Numbered \subseteq Segment
      /\ Waiting' \cup Again' \subseteq Numbered'
  <2>1. LET f == AckedOf(r.report, Waiting) \cup AckedOf(r.report, Again)
        IN /\ Segments' = Segments \ f /\ Numbered' = Numbered \ f
           /\ f \subseteq Numbered /\ SegmentInv'
    BY ReportSegments
  <2>2. \A s \in Waiting' \cup Again' : s.sn # NoSn
    BY <2>1, SnAssumption DEF SegmentInv, SN, NoSn
  <2>3. Waiting' \cup Again' \subseteq Segments'
    BY DEF Segments, Waiting, Again
  <2> QED
    BY <1>1, <2>1, <2>2, <2>3, SegmentsType DEF Numbered
<1>5. ListInv'
  BY ReportLists
<1>6. /\ AccountInv' /\ DOMAIN sdu' \subseteq DOMAIN sdu
      /\ confirmed' = confirmed \cup (DOMAIN sdu \ DOMAIN sdu')
  BY ReportAccounts
<1>7. /\ NoByteLost'
      /\ \A id \in DOMAIN sdu : id \notin DOMAIN sdu' => delivered[id] = 1
      /\ \A s \in Numbered : delivered[s.sdu] = 1 \/ \E t \in Numbered' : t.sn = s.sn
  BY <1>2, ReportFrees
<1>8. FateInv'
  <2>1. confirmed' \cap dropped = {} /\ DOMAIN sdu' \cap (confirmed' \cup dropped) = {}
    BY <1>1, <1>6 DEF FateInv
  <2>2. 1 .. offered = DOMAIN sdu' \cup confirmed' \cup dropped
    BY <1>1, <1>6 DEF FateInv
  <2>3. \A id \in confirmed' : delivered[id] = 1
    BY <1>1, <1>6, <1>7 DEF FateInv
  <2> QED
    BY <1>1, <1>2, <1>3, <2>1, <2>2, <2>3 DEF FateInv
<1>9. /\ tx_next_ack' \in SN /\ Modulus(tx_next_ack', tx_next) <= WindowSize
  <2>1. /\ tx_next \in SN /\ tx_next_ack \in SN /\ r.report.ack_sn \in SN
        /\ Age(tx_next_ack) \in Nat /\ Age(tx_next_ack) <= WindowSize
        /\ Age(r.report.ack_sn) <= Age(tx_next_ack)
    BY <1>1, AgeType, ReportAges, SnAssumption DEF SnInv, Age
  <2>2. ASSUME NEW list, list \in {wait_list', retransmit_list'}, list # <<>>
        PROVE  Head(list).sn \in SN /\ Age(Head(list).sn) <= Age(tx_next_ack)
    <3>1. list \in Seq(Segment) /\ Range(list) \subseteq Numbered
      BY <1>4, <1>5, <2>2 DEF ListInv, Waiting, Again
    <3>2. Head(list) \in Range(list)
      <4>1. Head(list) = list[1] /\ 1 \in 1 .. Len(list)
        BY <2>2, <3>1, EmptySeq, LenProperties
      <4> QED
        BY <3>1, <4>1, RangeIs
    <3> QED
      BY <1>1, <3>1, <3>2, NumberedAge
  <2>3. tx_next_ack' = NextAck(r.report, wait_list', retransmit_list')
    BY DEF ProcessReport
  <2>4. tx_next_ack' \in {tx_next, r.report.ack_sn}
                         \cup (IF wait_list' = <<>> THEN {} ELSE {Head(wait_list').sn})
                         \cup (IF retransmit_list' = <<>> THEN {} ELSE {Head(retransmit_list').sn})
    BY <2>1, <2>2, <2>3, NextAckIs
  <2>5. Age(tx_next) = 0
    BY <2>1, AgeType DEF Age
  <2>6. tx_next_ack' \in SN /\ Age(tx_next_ack') <= Age(tx_next_ack)
    BY <2>1, <2>2, <2>4, <2>5
  <2>7. Age(tx_next_ack') \in Int /\ WindowSize \in Int
    BY <2>1, <2>6, AgeType, SnAssumption DEF Age
  <2> QED
    BY <2>1, <2>6, <2>7 DEF Age
<1>10. Seen' \subseteq Seen
  BY <1>2, <1>3, <1>4 DEF Seen
<1>11. SnInv'
  <2>1. \A x \in Seen' : /\ Fits(x) /\ x.sdu \notin dropped'
                         /\ \E y \in Seen : y.sn = x.sn /\ y.sdu = x.sdu
    BY <1>1, <1>3, <1>10 DEF SnInv
  <2>2. poll_sn' \in SN
    BY <1>1, <1>3 DEF SnInv
  <2> QED
    BY <1>1, <1>3, <1>9, <2>1, <2>2, SnKept
<1>12. \A s \in Numbered : Age(s.sn) <= Age(rx_next) =>
          SduDelivered(rx_list, s.sn) \/ \E t \in Numbered' : t.sn = s.sn
  BY <1>1, <1>7 DEF ReceiverInv, Seen
<1>13. Age(rx_next) <= Modulus(tx_next_ack', tx_next)
  <2> DEFINE A == Modulus(tx_next_ack', tx_next)
  <2>1. tx_next \in SN /\ rx_next \in SN /\ A \in Nat /\ Age(rx_next) \in Nat
    BY <1>1, <1>9, AgeType, SnAssumption DEF Age, SnInv, RxTypeOK
  <2>2. CASE Age(rx_next) = 0
    BY <2>1, <2>2
  <2>3. CASE Age(rx_next) # 0
    <3>1. ~SduDelivered(rx_list, rx_next)
      BY <1>1 DEF RxEdgesNotDelivered
    <3>2. PICK s \in Numbered : s.sn = rx_next
      BY <1>1, <2>1, <2>3, <3>1 DEF ReceiverInv
    <3>3. PICK t \in Numbered' : t.sn = rx_next
      BY <1>12, <2>1, <3>1, <3>2
    <3>4. Modulus(tx_next_ack', rx_next) < Modulus(tx_next_ack', tx_next)
      BY <1>3, <3>3 DEF TxNextAckIsSmallestUnacked, Numbered, TxOffset
    <3>5. Modulus(tx_next_ack', rx_next) =
             IF Age(rx_next) <= A THEN A - Age(rx_next) ELSE A - Age(rx_next) + SnModulus
      BY <1>9, <2>1, AgeOffset DEF Age
    <3>6. Age(rx_next) \in 0 .. SnModulus - 1
      BY <2>1, AgeType DEF Age
    <3> QED
      BY <2>1, <3>4, <3>5, <3>6, SnAssumption
  <2> QED
    BY <2>2, <2>3
<1>14. ReceiverInv'
  <2>1. \A x \in Seen' : \E y \in Seen : y.sn = x.sn /\ y.sdu = x.sdu
    BY <1>10
  <2>2. data_air' \subseteq Pdus
    BY <1>1, <1>3 DEF ReceiverInv
  <2> QED
    BY <1>1, <1>2, <1>3, <1>7, <1>12, <1>13, <2>1, <2>2, ReceiverKept
<1>15. ReportInv'
  <2>1. \A s \in Numbered' : \A b \in SegBytes(s) :
           \E t \in Numbered : t.sn = s.sn /\ t.sdu = s.sdu /\ b \in SegBytes(t)
    BY <1>4
  <2>2. \A id \in AllSdus : \A b : HasReceived(id, b) => HasReceived(id, b)'
    BY <1>2 DEF HasReceived
  <2> QED
    BY <1>1, <1>3, <1>4, <2>1, <2>2, ReportsKept
<1> QED
  BY <1>4, <1>5, <1>6, <1>8, <1>11, <1>14, <1>15

\* process_control_pdu
LEMMA ReportKeeps ==
    ASSUME LinkInv, TxNextAckIsSmallestUnacked, TxNextAckIsSmallestUnacked', ReportArrives
    PROVE  /\ ListInv' /\ SegmentInv' /\ AccountInv' /\ FateInv'
           /\ SnInv' /\ ReceiverInv' /\ ReportInv'
<1>1. PICK r \in status_air : ReceiveReport(r.report) /\ status_air' = status_air \ {r}
  BY DEF ReportArrives
<1>2. UNCHANGED <<rxVars, delivered, garbled>> /\ status_air' \subseteq status_air
  BY <1>1 DEF ReportArrives
<1>3. CASE ValidReport(r.report)
  BY <1>1, <1>2, <1>3, ValidReportKeeps DEF ReceiveReport
<1>4. CASE ~ValidReport(r.report)
  <2>1. UNCHANGED txVars
    BY <1>1, <1>4 DEF ReceiveReport
  <2>2. Quiet /\ data_air' \subseteq data_air
    BY <1>2, <2>1 DEF Quiet, txVars, rxVars, listVars, sizeVars, snVars, pollVars, upperVars
  <2> QED
    BY <1>2, <2>2, QuietKeeps
<1> QED
  BY <1>3, <1>4

-----------------------------------------------------------------------------
(* The invariant *)

\* nr_rlc_entity_am_recv_sdu
LEMMA OfferKeeps ==
    ASSUME LinkInv, UpperLayerSends
    PROVE  /\ ListInv' /\ SegmentInv' /\ AccountInv' /\ FateInv'
           /\ SnInv' /\ ReceiverInv' /\ ReportInv'
           /\ Numbered' = Numbered
<1> DEFINE id == offered + 1
           seg == [sdu |-> id, sn |-> NoSn, so |-> 0, size |-> SduSize[id], last |-> TRUE]
<1>1. /\ offered < Len(SduSize) /\ offered' = id
      /\ UNCHANGED <<wait_list, wait_end, retransmit_list, snVars, pollVars,
                     confirmed, rlf, crashed, data_air, rxVars, linkVars>>
  BY DEF UpperLayerSends, RecvSdu
<1>2. CASE tx_size + SduSize[id] > TxMaxSize
  <2>1. dropped' = dropped \cup {id} /\ UNCHANGED <<tx_list, tx_end, sdu, sizeVars>>
    BY <1>2 DEF UpperLayerSends, RecvSdu
  <2>2. UNCHANGED <<listVars, sizeVars, sdu, snVars, pollVars, confirmed, data_air,
                    rxVars, linkVars>>
    BY <1>1, <2>1 DEF listVars
  <2> QED
    BY <1>1, <2>1, <2>2, RejectionKeeps
<1>3. CASE ~(tx_size + SduSize[id] > TxMaxSize)
  <2>1. /\ tx_size' = tx_size + SduSize[id]
        /\ sdu' = [i \in DOMAIN sdu \cup {id} |->
                      IF i = id THEN [retx_count |-> -1, ref_count |-> 1, free_count |-> 0]
                      ELSE sdu[i]]
        /\ tx_list' = ListAppend(tx_list, tx_end, seg) /\ tx_end' = seg
        /\ bstatus' = [bstatus EXCEPT !.tx_size = @ + PduSize(seg)]
        /\ UNCHANGED dropped
    BY <1>3 DEF UpperLayerSends, RecvSdu
  <2>2. UNCHANGED <<wait_list, wait_end, retransmit_list, snVars, pollVars,
                    confirmed, dropped, data_air, rxVars, linkVars>>
    BY <1>1, <2>1
  <2> QED
    BY <1>1, <2>1, <2>2, AcceptanceKeeps
<1> QED
  BY <1>2, <1>3

\* generate_data_pdu
LEMMA SendingStepKeeps ==
    ASSUME LinkInv, TxNextAckIsSmallestUnacked, MacPullsData
    PROVE  /\ ListInv' /\ SegmentInv' /\ AccountInv' /\ FateInv'
           /\ SnInv' /\ ReceiverInv' /\ ReportInv'
           /\ TxNextAckIsSmallestUnacked'
<1>1. /\ status_air' = {r \in status_air : last_sent' < r.born + WindowSize}
      /\ UNCHANGED <<rxVars, delivered, garbled>>
  BY DEF MacPullsData
<1>2. PICK size \in Grants : GeneratePdu(size)
  BY DEF MacPullsData
<1>3. size \in Nat
  BY TxAssumption
<1>4. CASE GenerateRetxPdu(size)
  <2>1. status_air' \subseteq status_air
    BY <1>1
  <2> QED
    BY <1>1, <1>3, <1>4, <2>1, RetransmissionKeeps
<1>5. CASE GenerateTxPdu(size)
  BY <1>1, <1>3, <1>5, TransmissionKeeps
<1> QED
  BY <1>2, <1>4, <1>5 DEF GeneratePdu

\* What does nothing to the lists of either side
LEMMA QuietStepKeeps ==
    ASSUME LinkInv,
           \/ DataIsLost \/ ReportIsLost \/ ReassemblyTimer \/ ProhibitTimer
           \/ UNCHANGED vars
    PROVE  /\ ListInv' /\ SegmentInv' /\ AccountInv' /\ FateInv'
           /\ SnInv' /\ ReceiverInv' /\ ReportInv'
<1> USE DEF Quiet, txVars, rxVars, listVars, sizeVars, snVars, pollVars, upperVars, linkVars
<1>1. Quiet /\ data_air' \subseteq data_air /\ status_air' \subseteq status_air
  <2>1. CASE DataIsLost
    BY <2>1 DEF DataIsLost
  <2>2. CASE ReportIsLost
    BY <2>2 DEF ReportIsLost
  <2>3. CASE ReassemblyTimer
    BY <2>3 DEF ReassemblyTimer, ReassemblyExpires
  <2>4. CASE ProhibitTimer
    BY <2>4 DEF ProhibitTimer, ProhibitElapses
  <2>5. CASE UNCHANGED vars
    BY <2>5 DEF vars
  <2> QED
    BY <2>1, <2>2, <2>3, <2>4, <2>5
<1> QED
  BY <1>1, QuietKeeps

\* The receiver takes a step of its own specification, or none.
LEMMA LinkStepIsRxStep ==
    ASSUME LinkInv, [LinkNext]_vars
    PROVE  [RxNext]_rxVars
<1>1. CASE DataArrives
  <2>1. PICK pdu \in data_air : RecvDataPdu(pdu)
    BY <1>1 DEF DataArrives
  <2>2. pdu \in Pdus
    BY DEF LinkInv, ReceiverInv
  <2> QED
    BY <2>1, <2>2 DEF RxNext
<1>2. CASE MacPullsReport
  BY <1>2 DEF MacPullsReport, RxNext
<1>3. CASE ReassemblyTimer
  BY <1>3 DEF ReassemblyTimer, RxNext
<1>4. CASE ProhibitTimer
  BY <1>4 DEF ProhibitTimer, RxNext
<1>5. CASE Reestablish
  BY <1>5 DEF Reestablish, RxNext
<1>6. CASE UpperLayerSends \/ UpperLayerDiscards \/ MacPullsData \/ ReportArrives
  BY <1>6 DEF UpperLayerSends, UpperLayerDiscards, MacPullsData, ReportArrives
<1>7. CASE DataIsLost \/ ReportIsLost \/ PollTimer
  BY <1>7 DEF DataIsLost, ReportIsLost, PollTimer
<1>8. CASE UNCHANGED vars
  BY <1>8 DEF vars
<1> QED
  BY <1>1, <1>2, <1>3, <1>4, <1>5, <1>6, <1>7, <1>8 DEF LinkNext

LEMMA LinkStep ==
    ASSUME LinkInv, TxNextAckIsSmallestUnacked, TxNextAckIsSmallestUnacked', [LinkNext]_vars
    PROVE  LinkInv'
<1>1. RxInv' /\ ListFinite'
  <2>1. RxInv /\ ListFinite /\ [RxNext]_rxVars
    BY LinkStepIsRxStep DEF LinkInv
  <2> QED
    BY <2>1, RxStep, ListStaysFinite
<1>2. /\ ListInv' /\ SegmentInv' /\ AccountInv' /\ FateInv'
      /\ SnInv' /\ ReceiverInv' /\ ReportInv'
  <2>1. CASE UpperLayerSends
    BY <2>1, OfferKeeps
  <2>2. CASE UpperLayerDiscards
    BY <2>2, DiscardKeeps DEF UpperLayerDiscards
  <2>3. CASE MacPullsData
    BY <2>3, SendingStepKeeps
  <2>4. CASE MacPullsReport
    BY <2>4, PullReportKeeps
  <2>5. CASE DataArrives
    BY <2>5, ArrivalKeeps
  <2>6. CASE ReportArrives
    BY <2>6, ReportKeeps
  <2>7. CASE PollTimer
    BY <2>7, PollTimerKeeps DEF PollTimer
  <2>8. CASE Reestablish
    BY <2>8, ReestablishKeeps
  <2>9. CASE DataIsLost \/ ReportIsLost \/ ReassemblyTimer \/ ProhibitTimer \/ UNCHANGED vars
    BY <2>9, QuietStepKeeps
  <2> QED
    BY <2>1, <2>2, <2>3, <2>4, <2>5, <2>6, <2>7, <2>8, <2>9 DEF LinkNext
<1> QED
  BY <1>1, <1>2 DEF LinkInv

\* The invariant all of the following rests on: as long as tx_next_ack is the
\* smallest SN that is not acknowledged, the lists, counters and SNs of the
\* sender, what is in flight and what the receiver holds fit together.
THEOREM LinkInvariant == LinkSpec /\ []TxNextAckIsSmallestUnacked => []LinkInv
<1>1. LinkInit => LinkInv
  BY InitialKeeps
<1>2. ASSUME LinkInv, TxNextAckIsSmallestUnacked, TxNextAckIsSmallestUnacked', [LinkNext]_vars
      PROVE  LinkInv'
  BY <1>2, LinkStep
<1> QED
  BY <1>1, <1>2, PTL DEF LinkSpec

\* No byte of an SDU that was accepted and not dropped is lost: it is in a
\* list of the sender, or the receiver has it.
THEOREM LinkLosesNoByte == LinkSpec /\ []TxNextAckIsSmallestUnacked => []NoByteLost
<1>1. LinkInv => NoByteLost
  BY DEF LinkInv, ReceiverInv
<1> QED
  BY <1>1, LinkInvariant, PTL

\* deliver_sdu is only called with whole SDUs.
THEOREM LinkGarblesNothing == LinkSpec /\ []TxNextAckIsSmallestUnacked => []NothingGarbled
<1>1. LinkInv => NothingGarbled
  BY DEF LinkInv, ReceiverInv
<1> QED
  BY <1>1, LinkInvariant, PTL

\* However late it arrives, a valid report acknowledges only what was received.
THEOREM LinkReportsAreHonest ==
    LinkSpec /\ []TxNextAckIsSmallestUnacked => []ReportsAreHonest
<1>1. LinkInv /\ TxNextAckIsSmallestUnacked => ReportsAreHonest
  <2> SUFFICES ASSUME LinkInv, TxNextAckIsSmallestUnacked,
                      NEW r \in status_air, ValidReport(r.report),
                      NEW seg \in Range(wait_list) \cup Range(retransmit_list),
                      Acked(r.report, seg), NEW b \in SegBytes(seg)
               PROVE  HasReceived(seg.sdu, b)
    BY DEF ReportsAreHonest
  <2>1. seg \in Numbered
    BY NumberedComparable DEF LinkInv, Waiting, Again
  <2> QED
    BY <2>1, AckedReceived
<1> QED
  BY <1>1, LinkInvariant, PTL

\* The end pointers designate the ends, and the lists that process_control_pdu
\* merges are in the order it merges them in.
THEOREM LinkListsAreWellFormed ==
    LinkSpec /\ []TxNextAckIsSmallestUnacked => []ListsWellFormed
<1>1. LinkInv /\ TxNextAckIsSmallestUnacked => ListsWellFormed
  <2> SUFFICES ASSUME LinkInv, TxNextAckIsSmallestUnacked
               PROVE  ListsWellFormed
    OBVIOUS
  <2>1. ListInv /\ Comparable(Numbered) /\ Waiting \cup Again \subseteq Numbered
    BY NumberedComparable DEF LinkInv
  <2>2. ASSUME NEW list \in {wait_list, retransmit_list}, NEW i \in 1 .. Len(list) - 1
        PROVE  After(list[i + 1], list[i])
    <3>1. list \in Seq(Segment) /\ Sorted(list) /\ Range(list) \subseteq Numbered
      BY <2>1 DEF ListInv, Waiting, Again
    <3>2. /\ Len(list) \in Nat /\ i \in 1 .. Len(list) /\ i + 1 \in 1 .. Len(list) /\ i < i + 1
          /\ Range(list) = {list[j] : j \in 1 .. Len(list)}
      BY <3>1, LenProperties, RangeIs
    <3>3. Less(list[i], list[i + 1])
      BY <3>1, <3>2 DEF Sorted
    <3>4. list[i] \in Numbered /\ list[i + 1] \in Numbered
      BY <3>1, <3>2
    <3> QED
      BY <2>1, <3>3, <3>4 DEF Comparable
  <2> QED
    BY <2>1, <2>2 DEF ListsWellFormed, ListInv, EndOf
<1> QED
  BY <1>1, LinkInvariant, PTL

\* The counters of the sender agree with its lists.
THEOREM LinkAccountsAgree == LinkSpec /\ []TxNextAckIsSmallestUnacked => []TxAccountsInv
<1>1. LinkInv => TxAccountsInv
  <2> SUFFICES ASSUME LinkInv
               PROVE  TxAccountsInv
    OBVIOUS
  <2>1. ListInv /\ SegmentInv /\ AccountInv
    BY DEF LinkInv
  <2>2. /\ tx_list \in Seq(Segment) /\ Injective(tx_list)
        /\ wait_list \in Seq(Segment) /\ Injective(wait_list)
        /\ retransmit_list \in Seq(Segment) /\ Injective(retransmit_list)
    BY <2>1, SortedIsInjective DEF ListInv
  <2> DEFINE two == tx_list \o wait_list
             all == two \o retransmit_list
  <2>3. two \in Seq(Segment) /\ Injective(two) /\ Range(two) = Unsent \cup Waiting
    BY <2>1, <2>2, ConcatInjective DEF SegmentInv, Unsent, Waiting
  <2>4. all \in Seq(Segment) /\ Injective(all) /\ Range(all) = Segments
    <3>1. Range(two) \cap Range(retransmit_list) = {}
      BY <2>1, <2>3 DEF SegmentInv, Again
    <3> HIDE DEF two
    <3>2. all \in Seq(Segment) /\ Injective(all) /\ Range(all) = Range(two) \cup Range(retransmit_list)
      BY <2>2, <2>3, <3>1, ConcatInjective
    <3> QED
      BY <2>3, <3>2 DEF Segments, Unsent, Waiting
  <2>5. \A id : CountOf(all, id) = Cardinality(Of(Segments, id))
    <3> HIDE DEF all
    <3> QED
      BY <2>4, CountIs
  <2>6. all = tx_list \o wait_list \o retransmit_list
    OBVIOUS
  <2>7. Sizes(tx_list) = SizeOfSegments(Unsent) /\ Sizes(retransmit_list) = SizeOfSegments(Again)
    BY <2>2, SizesAre DEF Unsent, Again
  <2> QED
    BY <2>1, <2>5, <2>6, <2>7 DEF TxAccountsInv, AccountInv
<1> QED
  BY <1>1, LinkInvariant, PTL

\* Every variable of the link has its type.
THEOREM LinkTypeCorrect == LinkSpec /\ []TxNextAckIsSmallestUnacked => []LinkTypeOK
<1>1. LinkInv => LinkTypeOK
  <2> SUFFICES ASSUME LinkInv
               PROVE  LinkTypeOK
    OBVIOUS
  <2>1. ListInv /\ SegmentInv /\ AccountInv /\ FateInv /\ SnInv /\ ReceiverInv /\ RxTypeOK
    BY DEF LinkInv, RxInv
  <2>2. ASSUME NEW seg \in Segments
        PROVE  /\ seg.sdu \in DOMAIN sdu /\ seg.size > 0
               /\ seg.so + seg.size <= SduSize[seg.sdu]
               /\ seg.last = (seg.so + seg.size = SduSize[seg.sdu])
    <3>1. seg \in Segment /\ seg.last \in BOOLEAN /\ seg.size > 0
      BY <2>1, SegmentsType DEF Segment
    <3>2. Fits(seg) /\ seg.sdu \in DOMAIN sdu
      BY <2>1 DEF SegmentInv, AccountInv
    <3> QED
      BY <3>1, <3>2 DEF Fits
  <2>3. delivered \in [AllSdus -> 0 .. 2]
    BY <2>1 DEF FateInv
  <2>4. confirmed \subseteq 1 .. offered /\ dropped \subseteq 1 .. offered
    BY <2>1 DEF FateInv
  <2> QED
    BY <2>1, <2>2, <2>3, <2>4 DEF LinkTypeOK, SnInv, ReceiverInv
<1> QED
  BY <1>1, LinkInvariant, PTL

-----------------------------------------------------------------------------
(* The link implements its service *)

\* The calls of the upper layers in one step of the link are a step of
\* RlcAmService, or there are none.
LEMMA LinkStepServes ==
    ASSUME LinkInv, LinkInv', TxNextAckIsSmallestUnacked, [LinkNext]_vars
    PROVE  [AbstractService!ServiceNext]_(AbstractService!vars)
<1> DEFINE P == AbstractService!Pending
<1>1. FateInv /\ FateInv' /\ SnInv /\ ReceiverInv
  BY DEF LinkInv
<1>2. P = (1 .. offered) \ (confirmed \cup dropped)
  BY DEF AbstractService!Pending
<1>3. DOMAIN sdu = P
  BY <1>1, <1>2 DEF FateInv
<1>4. CASE UpperLayerSends
  <2>1. /\ offered < Len(SduSize) /\ offered' = offered + 1
        /\ dropped' = dropped \/ dropped' = dropped \cup {offered + 1}
        /\ UNCHANGED <<delivered, confirmed>>
    BY <1>4 DEF UpperLayerSends, RecvSdu, linkVars
  <2> QED
    BY <2>1 DEF AbstractService!ServiceNext, AbstractService!Offer
<1>5. CASE UpperLayerDiscards
  <2>1. PICK id \in AllSdus : DiscardSdu(id)
    BY <1>5 DEF UpperLayerDiscards
  <2>2. /\ dropped' = dropped \cup {id} /\ UNCHANGED <<offered, delivered, confirmed>>
    BY <1>5, <2>1 DEF UpperLayerDiscards, DiscardSdu, linkVars
  <2>3. id \in DOMAIN sdu
    <3>1. PICK i \in DOMAIN tx_list : tx_list[i].sdu = id
      BY <2>1 DEF DiscardSdu
    <3>2. tx_list[i] \in Segments
      BY DEF Segments, Range
    <3> QED
      BY <3>1, <3>2 DEF LinkInv, AccountInv
  <2>4. AbstractService!Drop({id})
    BY <1>3, <2>2, <2>3 DEF AbstractService!Drop
  <2>5. {id} \in SUBSET P
    BY <1>3, <2>3
  <2> QED
    BY <2>4, <2>5 DEF AbstractService!ServiceNext
<1>6. CASE DataArrives
  <2>1. PICK pdu \in data_air : DeliverUp(pdu)
    BY <1>6 DEF DataArrives
  <2>2. UNCHANGED <<offered, confirmed, dropped>>
    BY <1>6 DEF DataArrives, upperVars
  <2>3. CASE Delivers(pdu)
    <3>1. delivered' = [delivered EXCEPT ![pdu.sdu] = Min({@ + 1, 2})]
      BY <2>1, <2>3 DEF DeliverUp
    <3>2. pdu \in Seen /\ pdu.sdu \in AllSdus /\ pdu.sdu \notin dropped
      BY <1>1 DEF SnInv, Seen
    <3>3. delivered[pdu.sdu] = 0 /\ delivered'[pdu.sdu] = 1
      <4>1. /\ delivered \in [AllSdus -> {0, 1}] /\ delivered' \in [AllSdus -> {0, 1}]
            /\ delivered'[pdu.sdu] = Min({delivered[pdu.sdu] + 1, 2})
        BY <1>1, <3>1, <3>2 DEF FateInv
      <4>2. Min({1 + 1, 2}) = 2
        <5>1. {1 + 1, 2} \in SUBSET Nat /\ {1 + 1, 2} # {} /\ {1 + 1, 2} = {2}
          OBVIOUS
        <5>2. Min({1 + 1, 2}) \in {1 + 1, 2}
          BY <5>1, MinOfNumbers
        <5> QED
          BY <5>1, <5>2
      <4>3. delivered[pdu.sdu] # 1
        BY <3>2, <4>1, <4>2
      <4>4. Min({0 + 1, 2}) = 1
        <5>1. {0 + 1, 2} \in SUBSET Nat /\ {0 + 1, 2} # {} /\ {0 + 1, 2} = {1, 2}
          OBVIOUS
        <5>2. Min({0 + 1, 2}) \in {0 + 1, 2} /\ \A n \in {0 + 1, 2} : Min({0 + 1, 2}) <= n
          BY <5>1, MinOfNumbers
        <5> QED
          BY <5>1, <5>2
      <4> QED
        BY <3>2, <4>1, <4>3, <4>4
    <3>4. pdu.sdu \in P
      <4>1. pdu.sdu \in Nat \ {0} /\ pdu.sdu <= last_sent /\ last_sent <= offered
            /\ last_sent \in Nat /\ offered \in Nat
        BY <1>1, <3>2, SeenIsSent, SduNumbers, HeldSdus
      <4>2. pdu.sdu \notin confirmed
        BY <1>1, <3>3 DEF FateInv
      <4> QED
        BY <1>2, <3>2, <4>1, <4>2
    <3>5. delivered' = [delivered EXCEPT ![pdu.sdu] = 1]
      BY <3>1, <3>3 DEF FateInv
    <3>6. AbstractService!Deliver(pdu.sdu)
      BY <2>2, <3>3, <3>4, <3>5 DEF AbstractService!Deliver
    <3>7. pdu.sdu \in 1 .. Len(SduSize)
      BY <3>2, SduNumbers
    <3> QED
      BY <3>6, <3>7 DEF AbstractService!ServiceNext
  <2>4. CASE ~Delivers(pdu)
    <3>1. delivered' = delivered
      BY <2>1, <2>4 DEF DeliverUp
    <3> QED
      BY <2>2, <3>1 DEF AbstractService!vars
  <2> QED
    BY <2>3, <2>4
<1>7. CASE ReportArrives
  <2>1. PICK r \in status_air : ReceiveReport(r.report)
    BY <1>7 DEF ReportArrives
  <2>2. delivered' = delivered
    BY <1>7 DEF ReportArrives
  <2>3. CASE ValidReport(r.report)
    <3>1. ProcessReport(r.report) /\ UNCHANGED <<offered, dropped>>
      BY <2>1, <2>3 DEF ReceiveReport, ProcessReport
    <3> DEFINE D == DOMAIN sdu \ DOMAIN sdu'
    <3>2. confirmed' = confirmed \cup D
      BY <2>3, <3>1, ReportAccounts
    <3>3. \A id \in D : delivered[id] = 1
      <4>1. \A id \in confirmed' : delivered'[id] = 1
        BY <1>1 DEF FateInv
      <4> QED
        BY <2>2, <3>2, <4>1
    <3>4. AbstractService!Confirm(D) /\ D \in SUBSET P
      BY <1>3, <2>2, <3>1, <3>2, <3>3 DEF AbstractService!Confirm
    <3> QED
      BY <3>4 DEF AbstractService!ServiceNext
  <2>4. CASE ~ValidReport(r.report)
    BY <2>1, <2>2, <2>4 DEF ReceiveReport, txVars, upperVars, AbstractService!vars
  <2> QED
    BY <2>3, <2>4
<1>8. CASE Reestablish
  <2>1. /\ dropped' = dropped \cup DOMAIN sdu /\ UNCHANGED <<offered, delivered, confirmed>>
    BY <1>8 DEF Reestablish, TxReestablish
  <2>2. AbstractService!Drop(DOMAIN sdu) /\ DOMAIN sdu \in SUBSET P
    BY <1>3, <2>1 DEF AbstractService!Drop
  <2> QED
    BY <2>2 DEF AbstractService!ServiceNext
<1>9. CASE MacPullsData
  <2>1. UNCHANGED <<offered, confirmed, dropped>>
    BY <1>9 DEF MacPullsData, GeneratePdu, GenerateRetxPdu, GenerateTxPdu, CanTransmit, upperVars
  <2> QED
    BY <1>9, <2>1 DEF MacPullsData, AbstractService!vars
<1>10. CASE MacPullsReport
  BY <1>10 DEF MacPullsReport, txVars, upperVars, AbstractService!vars
<1>11. CASE DataIsLost
  BY <1>11 DEF DataIsLost, linkVars, upperVars, AbstractService!vars
<1>12. CASE ReportIsLost
  BY <1>12 DEF ReportIsLost, txVars, upperVars, AbstractService!vars
<1>13. CASE PollTimer
  BY <1>13 DEF PollTimer, PollRetransmitExpires, linkVars, AbstractService!vars
<1>14. CASE ReassemblyTimer \/ ProhibitTimer
  BY <1>14 DEF ReassemblyTimer, ProhibitTimer, txVars, linkVars, upperVars, AbstractService!vars
<1>15. CASE UNCHANGED vars
  BY <1>15 DEF vars, txVars, linkVars, upperVars, AbstractService!vars
<1> QED
  BY <1>4, <1>5, <1>6, <1>7, <1>8, <1>9, <1>10, <1>11, <1>12, <1>13, <1>14, <1>15 DEF LinkNext

\* Every behaviour of the two entities, their timers, what MAC loses, repeats
\* and reorders between them and the resets of both, is one of the service:
\* what is confirmed was delivered, nothing is delivered twice, nothing that
\* was dropped is delivered.
THEOREM LinkImplementsService ==
    LinkSpec /\ []TxNextAckIsSmallestUnacked => ImplementsService
<1>1. LinkInit => AbstractService!ServiceInit
  BY DEF LinkInit, TxInit, AbstractService!ServiceInit, AllSdus
<1>2. ASSUME LinkInv, LinkInv', TxNextAckIsSmallestUnacked, [LinkNext]_vars
      PROVE  [AbstractService!ServiceNext]_(AbstractService!vars)
  BY <1>2, LinkStepServes
<1> QED
  BY <1>1, <1>2, LinkInvariant, PTL DEF LinkSpec, ImplementsService, AbstractService!Service

-----------------------------------------------------------------------------
(* What follows for the receiving entity *)

\* In the link the receiving entity keeps to its specification, so that what
\* is proved of it alone, for any PDUs, holds there.
THEOREM LinkRunsTheReceiver == LinkSpec /\ []TxNextAckIsSmallestUnacked => RxSpec
<1>1. LinkInit => RxInit
  BY DEF LinkInit
<1>2. ASSUME LinkInv, [LinkNext]_vars
      PROVE  [RxNext]_rxVars
  BY <1>2, LinkStepIsRxStep
<1> QED
  BY <1>1, <1>2, LinkInvariant, PTL DEF LinkSpec, RxSpec

\* The segments that the sending entity makes agree on where an SDU ends.
LEMMA LinkSegmentsAgree == LinkSpec /\ []TxNextAckIsSmallestUnacked => []SegmentsAgree
<1>1. LinkInv => SegmentsAgree
  <2> SUFFICES ASSUME LinkInv, NEW k \in rx_list, NEW l \in rx_list, k.sn = l.sn, l.last
               PROVE  k.so + k.size <= l.so + l.size
    BY DEF SegmentsAgree
  <2>1. SnInv /\ k \in Seen /\ l \in Seen
    BY DEF LinkInv, Seen
  <2>2. k.sdu = l.sdu /\ Fits(k) /\ Fits(l)
    BY <2>1, SameSdu DEF SnInv
  <2> QED
    BY <2>2 DEF Fits
<1> QED
  BY <1>1, LinkInvariant, PTL

\* rx_size counts the bytes held: what RxSizeIsBytesHeld has to assume of the
\* segments holds of those of the sending entity.
THEOREM LinkSizeIsBytesHeld == LinkSpec /\ []TxNextAckIsSmallestUnacked => []RxSizeInv
BY LinkSegmentsAgree, LinkRunsTheReceiver, RxSizeIsBytesHeld, PTL

\* In the link the walk of generate_status over rx_list writes the report that
\* the sets of missing bytes define, in every state and for every buffer.
THEOREM LinkStatusWalkAgrees == LinkSpec /\ []TxNextAckIsSmallestUnacked => []StatusWalkAgrees
BY LinkSegmentsAgree, LinkRunsTheReceiver, RxStatusWalkAgrees, PTL

-----------------------------------------------------------------------------
(* When tx_next_ack is the smallest SN that is not acknowledged *)

\* An SDU of which a part was sent is still at the head of the queue
HalfSent == \E seg \in Unsent : seg.sn # NoSn

\* A buffer of MAC holds a whole SDU, or nothing of it
WholeSdus ==
    \A size \in Grants, id \in AllSdus :
        HeaderSize(0) + 1 <= size => HeaderSize(0) + SduSize[id] <= size

\* Of the segments of a sorted list, the head has the smallest SN.
LEMMA HeadIsSmallest ==
    ASSUME NEW list \in Seq(Segment), Sorted(list), list # <<>>, Comparable(Range(list)),
           \A s \in Range(list) : s.sn \in SN, tx_next_ack \in SN
    PROVE  /\ Head(list).sn \in SN
           /\ \A s \in Range(list) : TxOffset(Head(list).sn) <= TxOffset(s.sn)
<1>1. /\ Head(list) \in Range(list)
      /\ \A s \in Range(list) : s = Head(list) \/ Less(Head(list), s)
  BY TailSorted
<1>2. ASSUME NEW s \in Range(list)
      PROVE  TxOffset(Head(list).sn) <= TxOffset(s.sn)
  <2>1. TxOffset(Head(list).sn) \in Int /\ TxOffset(s.sn) \in Int
    BY <1>1, <1>2, ModulusType, SnAssumption DEF TxOffset
  <2>2. CASE s = Head(list)
    BY <2>1, <2>2
  <2>3. CASE Less(Head(list), s)
    <3>1. After(s, Head(list))
      BY <1>1, <1>2, <2>3 DEF Comparable
    <3> QED
      BY <2>1, <3>1 DEF After
  <2> QED
    BY <1>1, <1>2, <2>2, <2>3
<1> QED
  BY <1>1, <1>2

\* The minimum that process_control_pdu takes is below every SDU held, if none
\* is left in the queue that it does not look at.
LEMMA ProcessedReportNextAck ==
    ASSUME LinkInv, TxNextAckIsSmallestUnacked, ~HalfSent,
           NEW r \in status_air, ValidReport(r.report), ProcessReport(r.report)
    PROVE  TxNextAckIsSmallestUnacked'
<1>1. /\ ListInv /\ SegmentInv /\ SnInv
      /\ tx_next \in SN /\ tx_next_ack \in SN /\ r.report.ack_sn \in SN /\ tx_next' = tx_next
      /\ tx_next_ack' = NextAck(r.report, wait_list', retransmit_list')
  BY ReportAges DEF LinkInv, SnInv, ProcessReport
<1>2. /\ ListInv' /\ Unsent' = Unsent /\ Numbered' \subseteq Numbered
      /\ Waiting' \cup Again' \subseteq Numbered
  <2>1. ListInv' /\ Unsent' = Unsent /\ Waiting' \cup Again' \subseteq Waiting \cup Again
    BY ReportLists DEF NackedOf
  <2>2. Waiting \cup Again \subseteq Numbered
    BY <1>1, NumberedComparable
  <2>3. Segments' \subseteq Segments
    BY ReportSegments
  <2> QED
    BY <2>1, <2>2, <2>3 DEF Numbered
<1>3. Comparable(Numbered) /\ \A s \in Numbered : s.sn \in SN
  BY <1>1, NumberedComparable DEF SnInv, Seen
<1>4. ASSUME NEW list, list \in {wait_list', retransmit_list'}, list # <<>>
      PROVE  /\ Head(list).sn \in SN
             /\ \A s \in Range(list) : TxOffset(Head(list).sn) <= TxOffset(s.sn)
  <2>1. list \in Seq(Segment) /\ Sorted(list) /\ Range(list) \subseteq Numbered
    BY <1>2, <1>4 DEF ListInv, Waiting, Again
  <2>2. Comparable(Range(list)) /\ \A s \in Range(list) : s.sn \in SN
    BY <1>3, <2>1 DEF Comparable
  <2> QED
    BY <1>1, <1>4, <2>1, <2>2, HeadIsSmallest
<1> DEFINE heads == {tx_next, r.report.ack_sn}
                    \cup (IF wait_list' = <<>> THEN {} ELSE {Head(wait_list').sn})
                    \cup (IF retransmit_list' = <<>> THEN {} ELSE {Head(retransmit_list').sn})
<1>5. /\ tx_next_ack' \in heads
      /\ \A other \in heads : TxOffset(tx_next_ack') <= TxOffset(other)
  BY <1>1, <1>4, NextAckIs
<1>6. heads \subseteq SN
  BY <1>1, <1>4
<1>7. ASSUME NEW s \in Waiting' \cup Again'
      PROVE  TxOffset(tx_next_ack') <= TxOffset(s.sn)
  <2>1. PICK list \in {wait_list', retransmit_list'} : s \in Range(list)
    BY <1>7 DEF Waiting, Again
  <2>2. list # <<>>
    BY <2>1 DEF Range
  <2>3. Head(list).sn \in heads
    BY <2>1, <2>2
  <2>4. TxOffset(tx_next_ack') <= TxOffset(Head(list).sn) /\ Head(list).sn \in SN
        /\ TxOffset(Head(list).sn) <= TxOffset(s.sn)
    BY <1>4, <1>5, <2>1, <2>2, <2>3
  <2>5. /\ TxOffset(tx_next_ack') \in Int /\ TxOffset(Head(list).sn) \in Int
        /\ TxOffset(s.sn) \in Int
    <3>1. tx_next_ack' \in SN /\ Head(list).sn \in SN /\ s.sn \in SN
      BY <1>2, <1>3, <1>5, <1>6, <1>7, <2>4
    <3>2. \A sn \in SN : TxOffset(sn) \in Int
      BY <1>1, ModulusType DEF TxOffset
    <3> QED
      BY <3>1, <3>2
  <2> QED
    BY <2>4, <2>5
<1>8. Numbered' \subseteq Waiting' \cup Again'
  BY <1>2 DEF HalfSent, Numbered, Segments, Unsent, Waiting, Again
<1>9. tx_next \in heads
  OBVIOUS
<1> HIDE DEF heads
<1>10. ASSUME NEW s \in Numbered'
       PROVE  Modulus(tx_next_ack', s.sn) < Modulus(tx_next_ack', tx_next)
  <2>1. /\ s.sn \in SN /\ TxOffset(s.sn) < TxOffset(tx_next)
        /\ TxOffset(tx_next_ack') <= TxOffset(s.sn)
        /\ TxOffset(tx_next_ack') <= TxOffset(tx_next) /\ tx_next_ack' \in SN
    BY <1>2, <1>3, <1>5, <1>6, <1>7, <1>8, <1>9, <1>10 DEF TxNextAckIsSmallestUnacked, Numbered
  <2>2. /\ TxOffset(s.sn) \in Int /\ TxOffset(tx_next) \in Int /\ TxOffset(tx_next_ack') \in Int
    BY <1>1, <2>1, ModulusType DEF TxOffset
  <2>3. /\ Modulus(tx_next_ack', s.sn) = TxOffset(s.sn) - TxOffset(tx_next_ack')
        /\ Modulus(tx_next_ack', tx_next) = TxOffset(tx_next) - TxOffset(tx_next_ack')
    BY <1>1, <2>1, <2>2, ModulusRebase DEF TxOffset
  <2> QED
    BY <2>1, <2>2, <2>3
<1> QED
  BY <1>1, <1>10 DEF TxNextAckIsSmallestUnacked, TxOffset, Numbered

\* A step that leaves the SNs alone
LEMMA SameNumbersNextAck ==
    ASSUME TxNextAckIsSmallestUnacked, UNCHANGED <<tx_next, tx_next_ack>>,
           Numbered' \subseteq Numbered
    PROVE  TxNextAckIsSmallestUnacked'
BY DEF TxNextAckIsSmallestUnacked, TxOffset, Numbered

\* Every step but the processing of a report while an SDU is half sent
LEMMA NextAckStep ==
    ASSUME LinkInv, TxNextAckIsSmallestUnacked, [LinkNext]_vars, ReportArrives => ~HalfSent
    PROVE  TxNextAckIsSmallestUnacked'
<1>1. CASE UpperLayerSends
  <2>1. UNCHANGED <<tx_next, tx_next_ack>>
    BY <1>1 DEF UpperLayerSends, RecvSdu, snVars
  <2> QED
    BY <1>1, <2>1, OfferKeeps, SameNumbersNextAck
<1>2. CASE UpperLayerDiscards
  <2>1. PICK id \in AllSdus : DiscardSdu(id) /\ UNCHANGED <<rxVars, linkVars>>
    BY <1>2 DEF UpperLayerDiscards
  <2>2. UNCHANGED <<tx_next, tx_next_ack>>
    BY <2>1 DEF DiscardSdu, snVars
  <2> QED
    BY <2>1, <2>2, DiscardKeeps, SameNumbersNextAck
<1>3. CASE MacPullsData
  BY <1>3, SendingStepKeeps
<1>4. CASE ReportArrives
  <2>1. PICK r \in status_air : ReceiveReport(r.report)
    BY <1>4 DEF ReportArrives
  <2>2. CASE ValidReport(r.report)
    BY <1>4, <2>1, <2>2, ProcessedReportNextAck DEF ReceiveReport
  <2>3. CASE ~ValidReport(r.report)
    <3>1. UNCHANGED <<tx_next, tx_next_ack>> /\ Numbered' = Numbered
      BY <2>1, <2>3 DEF ReceiveReport, txVars, listVars, snVars, Numbered, Segments
    <3> QED
      BY <3>1, SameNumbersNextAck
  <2> QED
    BY <2>2, <2>3
<1>5. CASE PollTimer
  <2>1. UNCHANGED <<tx_next, tx_next_ack>>
    BY <1>5 DEF PollTimer, PollRetransmitExpires, snVars
  <2> QED
    BY <1>5, <2>1, PollTimerKeeps, SameNumbersNextAck DEF PollTimer
<1>6. CASE Reestablish
  <2>1. Segments' = {}
    BY <1>6 DEF Reestablish, TxReestablish, Segments, Range
  <2> QED
    BY <2>1 DEF TxNextAckIsSmallestUnacked
<1>7. CASE \/ MacPullsReport \/ DataArrives \/ DataIsLost \/ ReportIsLost
           \/ ReassemblyTimer \/ ProhibitTimer \/ UNCHANGED vars
  <2>1. UNCHANGED <<listVars, snVars>>
    BY <1>7 DEF MacPullsReport, DataArrives, DataIsLost, ReportIsLost, ReassemblyTimer,
                ProhibitTimer, vars, txVars
  <2>2. UNCHANGED <<tx_next, tx_next_ack>> /\ Numbered' = Numbered
    BY <2>1 DEF listVars, snVars, Numbered, Segments
  <2> QED
    BY <2>2, SameNumbersNextAck
<1> QED
  BY <1>1, <1>2, <1>3, <1>4, <1>5, <1>6, <1>7 DEF LinkNext

LEMMA NextAckInitially == LinkInit => TxNextAckIsSmallestUnacked
BY DEF LinkInit, TxInit, TxNextAckIsSmallestUnacked, Segments, Range

\* The comment of process_control_pdu is right as long as no report is
\* processed while an SDU is half sent: then tx_next_ack passes no SDU that
\* is not acknowledged.
THEOREM NextAckIsSmallest ==
    LinkSpec /\ [][ReportArrives => ~HalfSent]_vars => []TxNextAckIsSmallestUnacked
<1>1. LinkInit => LinkInv /\ TxNextAckIsSmallestUnacked
  BY InitialKeeps, NextAckInitially
<1>2. ASSUME LinkInv, TxNextAckIsSmallestUnacked, [LinkNext]_vars,
             [ReportArrives => ~HalfSent]_vars
      PROVE  LinkInv' /\ TxNextAckIsSmallestUnacked'
  <2>1. CASE UNCHANGED vars
    <3>1. TxNextAckIsSmallestUnacked'
      <4>1. UNCHANGED <<tx_next, tx_next_ack>> /\ Numbered' = Numbered
        BY <2>1 DEF vars, txVars, listVars, snVars, Numbered, Segments
      <4> QED
        BY <1>2, <4>1, SameNumbersNextAck
    <3> QED
      BY <1>2, <3>1, LinkStep
  <2>2. CASE ReportArrives => ~HalfSent
    <3>1. TxNextAckIsSmallestUnacked'
      BY <1>2, <2>2, NextAckStep
    <3> QED
      BY <1>2, <3>1, LinkStep
  <2> QED
    BY <1>2, <2>1, <2>2
<1> QED
  BY <1>1, <1>2, PTL DEF LinkSpec

\* A buffer that holds some of an SDU holds all of it.
LEMMA WholeSent ==
    ASSUME WholeSdus, LinkInv, ~HalfSent, NEW size \in Grants, GenerateTxPdu(size)
    PROVE  Unsent' \subseteq Unsent
<1> DEFINE head == Head(tx_list)
           seg  == [head EXCEPT !.sn = tx_next]
<1>1. /\ ListInv /\ SegmentInv /\ tx_list \in Seq(Segment) /\ Sorted(tx_list) /\ tx_list # <<>>
      /\ HeaderSize(head.so) + 1 <= size /\ size \in Nat
  BY TxAssumption DEF LinkInv, ListInv, GenerateTxPdu, CanTransmit
<1>2. /\ head \in Unsent /\ head \in Segment /\ Tail(tx_list) \in Seq(Segment)
      /\ Range(Tail(tx_list)) \subseteq Unsent
  <2>1. /\ head \in Unsent /\ Tail(tx_list) \in Seq(Segment)
        /\ Range(Tail(tx_list)) \subseteq Unsent
    BY <1>1, TailSorted DEF Unsent
  <2>2. Unsent \subseteq Segment
    BY <1>1, SegmentsType
  <2> QED
    BY <2>1, <2>2
<1>3. head.sn = NoSn /\ head.so = 0 /\ head.sdu \in AllSdus
  <2>1. head.sn = NoSn /\ (Fresh(head) \/ IsRest(head))
    BY <1>1, <1>2 DEF HalfSent, SegmentInv
  <2>2. ~IsRest(head)
    BY <2>1, SnAssumption DEF IsRest, SN, NoSn
  <2> QED
    BY <1>2, <2>1, <2>2 DEF Fresh, Segment
<1>4. Fits(head) /\ SduSize[head.sdu] \in Nat /\ head.size \in Nat /\ HeaderSize(0) \in Nat
  <2>1. Fits(head)
    BY <1>1, <1>2 DEF SegmentInv, Segments, Unsent
  <2>2. SduSize[head.sdu] \in Nat
    BY <1>3, SduNumbers
  <2>3. head.size \in Nat
    BY <1>2 DEF Segment
  <2>4. HeaderSize(0) \in Nat
    BY PduAssumption DEF HeaderSize
  <2> QED
    BY <2>1, <2>2, <2>3, <2>4
<1>5. HeaderSize(0) + SduSize[head.sdu] <= size
  BY <1>1, <1>3 DEF WholeSdus
<1>6. head.size <= SduSize[head.sdu]
  BY <1>3, <1>4 DEF Fits
<1>7. tx_list' = (IF Cut(seg, size) THEN <<BackPart(seg, size)>> ELSE <<>>) \o Tail(tx_list)
  BY <1>3 DEF GenerateTxPdu
<1>8. seg.so = 0 /\ seg.size = head.size
  BY <1>2, <1>3 DEF Segment
<1> HIDE DEF head, seg
<1>9. ~Cut(seg, size)
  BY <1>1, <1>4, <1>5, <1>6, <1>8 DEF Cut, PduSize
<1>10. tx_list' = Tail(tx_list)
  BY <1>2, <1>7, <1>9
<1> QED
  BY <1>2, <1>10 DEF Unsent

\* With such buffers no SDU is ever half sent.
LEMMA StaysWhole ==
    ASSUME WholeSdus, LinkInv, ~HalfSent, [LinkNext]_vars
    PROVE  ~HalfSent'
<1>1. /\ ListInv /\ FateInv /\ tx_list \in Seq(Segment) /\ Sorted(tx_list)
      /\ tx_end = EndOf(tx_list)
  BY DEF LinkInv, ListInv
<1>2. CASE UpperLayerSends
  <2> DEFINE id  == offered + 1
             seg == [sdu |-> id, sn |-> NoSn, so |-> 0, size |-> SduSize[id], last |-> TRUE]
  <2>1. tx_list' = tx_list \/ tx_list' = ListAppend(tx_list, tx_end, seg)
    BY <1>2 DEF UpperLayerSends, RecvSdu
  <2>2. seg \in Segment /\ seg.sn = NoSn
    <3>1. id \in AllSdus /\ SduSize[id] \in Nat \ {0}
      <4>1. offered < Len(SduSize) /\ offered \in Nat
        BY <1>1, <1>2, HeldSdus DEF UpperLayerSends
      <4> QED
        BY <4>1, SduNumbers
    <3> QED
      BY <3>1 DEF Segment
  <2> HIDE DEF seg
  <2>3. CASE tx_list' = tx_list
    BY <2>3 DEF HalfSent, Unsent
  <2>4. CASE tx_list' = ListAppend(tx_list, tx_end, seg)
    <3>1. tx_list' = Append(tx_list, seg)
      BY <1>1, <2>2, <2>4, AppendIs
    <3>2. \A i \in DOMAIN tx_list' : tx_list'[i] \in Unsent \/ tx_list'[i] = seg
      BY <1>1, <2>2, <3>1 DEF Unsent, Range
    <3> QED
      BY <2>2, <3>2 DEF HalfSent, Unsent, Range
  <2> QED
    BY <2>1, <2>3, <2>4
<1>3. CASE UpperLayerDiscards
  <2>1. PICK i \in DOMAIN tx_list : tx_list' = RemoveAt(tx_list, i)
    BY <1>3 DEF UpperLayerDiscards, DiscardSdu
  <2>2. i \in 1 .. Len(tx_list)
    BY <1>1, <2>1, RangeIs
  <2>3. Unsent' \subseteq Unsent
    BY <1>1, <2>1, <2>2, RemoveSorted DEF Unsent
  <2> QED
    BY <2>3 DEF HalfSent
<1>4. CASE MacPullsData
  <2>1. PICK size \in Grants : GenerateRetxPdu(size) \/ GenerateTxPdu(size)
    BY <1>4 DEF MacPullsData, GeneratePdu
  <2>2. GenerateRetxPdu(size) => Unsent' = Unsent
    BY DEF GenerateRetxPdu, Unsent
  <2>3. Unsent' \subseteq Unsent
    BY <2>1, <2>2, WholeSent
  <2> QED
    BY <2>3 DEF HalfSent
<1>5. CASE Reestablish
  BY <1>5 DEF Reestablish, TxReestablish, HalfSent, Unsent, Range
<1>6. CASE ReportArrives \/ PollTimer
  <2>1. tx_list' = tx_list
    BY <1>6 DEF ReportArrives, ReceiveReport, ProcessReport, PollTimer, PollRetransmitExpires,
                txVars, listVars
  <2> QED
    BY <2>1 DEF HalfSent, Unsent
<1>7. CASE \/ MacPullsReport \/ DataArrives \/ DataIsLost \/ ReportIsLost
           \/ ReassemblyTimer \/ ProhibitTimer \/ UNCHANGED vars
  <2>1. UNCHANGED listVars
    BY <1>7 DEF MacPullsReport, DataArrives, DataIsLost, ReportIsLost, ReassemblyTimer,
                ProhibitTimer, vars, txVars
  <2> QED
    BY <2>1 DEF listVars, HalfSent, Unsent
<1> QED
  BY <1>2, <1>3, <1>4, <1>5, <1>6, <1>7 DEF LinkNext

\* When the buffers of MAC hold whole SDUs, nothing has to be assumed of
\* tx_next_ack.
THEOREM NextAckOfWholeSdus ==
    ASSUME WholeSdus
    PROVE  LinkSpec => []TxNextAckIsSmallestUnacked
<1>1. LinkInit => LinkInv /\ TxNextAckIsSmallestUnacked /\ ~HalfSent
  <2>1. LinkInit => ~HalfSent
    BY DEF LinkInit, TxInit, HalfSent, Unsent, Range
  <2> QED
    BY <2>1, InitialKeeps, NextAckInitially
<1>2. ASSUME LinkInv, TxNextAckIsSmallestUnacked, ~HalfSent, [LinkNext]_vars
      PROVE  LinkInv' /\ TxNextAckIsSmallestUnacked' /\ ~HalfSent'
  <2>1. ~HalfSent'
    BY <1>2, StaysWhole
  <2>2. TxNextAckIsSmallestUnacked'
    BY <1>2, NextAckStep
  <2> QED
    BY <1>2, <2>1, <2>2, LinkStep
<1> QED
  BY <1>1, <1>2, PTL DEF LinkSpec

\* Then the link keeps all its promises, whatever is lost, late, repeated or
\* reordered, however often its SNs wrap.
THEOREM LinkIsCorrectForWholeSdus ==
    ASSUME WholeSdus
    PROVE  LinkSpec => /\ []LinkTypeOK /\ []NoByteLost /\ []NothingGarbled /\ []ReportsAreHonest
                       /\ []ListsWellFormed /\ []TxAccountsInv /\ []RxSizeInv
                       /\ []StatusWalkAgrees /\ ImplementsService
BY NextAckOfWholeSdus, LinkLosesNoByte, LinkGarblesNothing, LinkReportsAreHonest,
   LinkListsAreWellFormed, LinkAccountsAgree, LinkSizeIsBytesHeld, LinkStatusWalkAgrees,
   LinkTypeCorrect, LinkImplementsService, PTL

=============================================================================
