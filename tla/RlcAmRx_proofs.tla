--------------------------- MODULE RlcAmRx_proofs ---------------------------
(***************************************************************************)
(* Proofs about the receiving side of the RLC AM entity, for every window  *)
(* size, every set of PDUs a peer may send, and every buffer size.         *)
(*                                                                         *)
(* The inductive invariant is RxInv.  The order of the window variables    *)
(* alone is not inductive: that rx_next and rx_highest_status never pass   *)
(* one another, or rx_next_highest, depends on where their loops stop, and *)
(* they stop at an SDU that was not delivered.                             *)
(***************************************************************************)
EXTENDS RlcAmRx, RlcLemmas_proofs

RxInv ==
    /\ RxTypeOK
    /\ RxWindowOrdered
    /\ RxEdgesNotDelivered
    /\ RxTriggerNotOvertaken

-----------------------------------------------------------------------------
(* The walks over the list *)

\* The loops that look for the first SDU not delivered stop, and stop there,
\* provided that there is one.
LEMMA FirstNotDeliveredStops ==
    ASSUME NEW list, NEW sn \in SN, NEW limit \in SN, ~SduDelivered(list, limit)
    PROVE  LET n == FirstNotDelivered(list, sn)
           IN /\ n \in SN
              /\ ~SduDelivered(list, n)
              /\ \A m \in SN : Modulus(sn, m) < Modulus(sn, n) => SduDelivered(list, m)
              /\ Modulus(sn, n) <= Modulus(sn, limit)
<1> DEFINE S == {n \in SN : ~SduDelivered(list, n)}
<1>1. S \in SUBSET SN /\ limit \in S
  OBVIOUS
<1>2. PICK n \in S : \A m \in S : Modulus(sn, n) <= Modulus(sn, m)
  <2>1. S # {}
    BY <1>1
  <2> QED
    BY <1>1, <2>1, ModulusMinimum, Zenon
<1>3. \A a, b \in SN : Modulus(sn, a) \in Int /\ Modulus(sn, b) \in Int
  BY ModulusType, SnAssumption
<1>4. \E k \in SN :
         /\ ~SduDelivered(list, k)
         /\ \A m \in SN : Modulus(sn, m) < Modulus(sn, k) => SduDelivered(list, m)
  BY <1>2, <1>3
<1>5. LET k == FirstNotDelivered(list, sn)
      IN /\ k \in SN
         /\ ~SduDelivered(list, k)
         /\ \A m \in SN : Modulus(sn, m) < Modulus(sn, k) => SduDelivered(list, m)
  BY <1>4 DEF FirstNotDelivered
<1> QED
  BY <1>3, <1>5

\* A PDU that is stored delivers nothing by itself.
LEMMA ReceivedNotDelivered ==
    ASSUME NEW pdu, NEW sn
    PROVE  SduDelivered(ReceivedList(pdu), sn) <=> SduDelivered(rx_list, sn)
BY DEF SduDelivered, SegmentsOf, ReceivedList

\* reassemble_and_deliver keeps the entries and their SNs, and changes none of
\* another SN.
LEMMA FreeDataEntries ==
    ASSUME NEW list, list \subseteq StoredPdu, NEW sn
    PROVE  /\ FreeData(list, sn) \subseteq StoredPdu
           /\ \A l \in FreeData(list, sn) : \E k \in list : k.sn = l.sn
           /\ \A l \in FreeData(list, sn) : l.sn # sn => l \in list
           /\ \A l \in list : l.sn # sn => l \in FreeData(list, sn)
<1>1. ASSUME NEW k \in list
      PROVE  /\ [k EXCEPT !.data = FALSE] \in StoredPdu
             /\ [k EXCEPT !.data = FALSE].sn = k.sn
  BY DEF StoredPdu
<1>2. ASSUME NEW l \in FreeData(list, sn)
      PROVE  \E k \in list : l = IF k.sn = sn THEN [k EXCEPT !.data = FALSE] ELSE k
  BY <1>2, Zenon DEF FreeData
<1>3. ASSUME NEW l \in FreeData(list, sn)
      PROVE  l \in StoredPdu /\ (\E k \in list : k.sn = l.sn) /\ (l.sn # sn => l \in list)
  <2>1. PICK k \in list : l = IF k.sn = sn THEN [k EXCEPT !.data = FALSE] ELSE k
    BY <1>2, <1>3, Zenon
  <2>2. CASE k.sn = sn
    <3>1. l = [k EXCEPT !.data = FALSE]
      BY <2>1, <2>2, Zenon
    <3> QED
      BY <1>1, <2>2, <3>1, Zenon
  <2>3. CASE k.sn # sn
    BY <2>1, <2>3, Zenon
  <2> QED
    BY <2>2, <2>3
<1>4. ASSUME NEW l \in list, l.sn # sn
      PROVE  l \in FreeData(list, sn)
  BY <1>4, Zenon DEF FreeData
<1> QED
  BY <1>3, <1>4, Zenon

\* So it delivers the SDU it works on and no other.
LEMMA FreeDataDelivers ==
    ASSUME NEW list, list \subseteq StoredPdu, NEW sn, NEW x, x # sn
    PROVE  SduDelivered(FreeData(list, sn), x) <=> SduDelivered(list, x)
BY FreeDataEntries, Zenon DEF SduDelivered, SegmentsOf

-----------------------------------------------------------------------------
(* Types *)

LEMMA ReceivedListType ==
    ASSUME RxTypeOK, NEW pdu \in Pdus
    PROVE  /\ pdu.sn \in SN
           /\ ReceivedList(pdu) \subseteq StoredPdu
           /\ \A l \in ReceivedList(pdu) : l \in rx_list \/ l.sn = pdu.sn
<1> DEFINE new == [sn |-> pdu.sn, so |-> pdu.so, size |-> pdu.size,
                   last |-> pdu.last, sdu |-> pdu.sdu, data |-> TRUE]
<1>1. pdu \in DataPdu
  BY RxAssumption
<1>2. new \in StoredPdu /\ new.sn = pdu.sn /\ pdu.sn \in SN
  BY <1>1 DEF StoredPdu, DataPdu
<1>3. ReceivedList(pdu) = rx_list \cup {new}
  BY Zenon DEF ReceivedList
<1> HIDE DEF new
<1> QED
  BY <1>2, <1>3 DEF RxTypeOK

\* The distances from rx_next, as numbers.
LEMMA OffsetType ==
    ASSUME RxTypeOK, NEW sn \in SN
    PROVE  RxOffset(sn) \in Int /\ 0 <= RxOffset(sn) /\ RxOffset(sn) < SnModulus
BY ModulusType, SnAssumption DEF RxOffset, RxTypeOK

-----------------------------------------------------------------------------
(* The reassembly timer at the end of reception_actions *)

\* Whatever rx_next has become, the trigger of a timer that runs afterwards
\* lies between the new rx_next, excluded, and the new rx_next_highest.  When
\* rx_next has passed the trigger, the trigger is more than a window away, so
\* that the test of sn_in_recv_window stops the timer: this is where the SN
\* space must be twice the window.
LEMMA TimerStep ==
    ASSUME RxTypeOK, RxWindowOrdered, UpdateReassemblyTimer,
           rx_next' \in SN, rx_next_highest' \in SN,
           RxOffset(rx_next') <= RxOffset(rx_next_highest'),
           RxOffset(rx_next_highest) <= RxOffset(rx_next_highest'),
           RxOffset(rx_next_highest') <= WindowSize
    PROVE  /\ t_reassembly' \in BOOLEAN
           /\ rx_next_status_trigger' \in SN
           /\ t_reassembly' =>
                 /\ 0 < Modulus(rx_next', rx_next_status_trigger')
                 /\ Modulus(rx_next', rx_next_status_trigger')
                       <= Modulus(rx_next', rx_next_highest')
                 /\ \/ rx_next_status_trigger' = rx_next_highest'
                    \/ /\ t_reassembly
                       /\ rx_next_status_trigger' = rx_next_status_trigger
                       /\ RxOffset(rx_next') <= RxOffset(rx_next_status_trigger)
<1> DEFINE next == rx_next'
           high == rx_next_highest'
           trig == rx_next_status_trigger
<1>1. /\ next \in SN /\ high \in SN /\ trig \in SN /\ rx_next \in SN
      /\ rx_next_highest \in SN /\ t_reassembly \in BOOLEAN
  BY DEF RxTypeOK
<1>2. Modulus(next, high) = RxOffset(high) - RxOffset(next)
  BY <1>1, ModulusRebase, OffsetType DEF RxOffset
<1>3. CASE t_reassembly /\ ~StopReassembly
  <2>1. rx_next_status_trigger' = trig /\ t_reassembly'
    BY <1>3 DEF UpdateReassemblyTimer
  <2>2. RxOffset(trig) <= RxOffset(high)
    BY <1>1, <1>3, OffsetType DEF RxWindowOrdered
  <2>3. trig # next
    BY <1>3 DEF StopReassembly
  <2>4. \/ Modulus(next, trig) < WindowSize
        \/ trig = SnWrap(next + WindowSize)
    BY <1>3 DEF StopReassembly, SnInRecvWindow
  <2>5. Modulus(next, trig) <= WindowSize
    BY <1>1, <2>4, ModulusWindow, ModulusType, SnAssumption
  <2>6. RxOffset(next) <= RxOffset(trig)
    <3>1. RxOffset(next) \in Int /\ RxOffset(trig) \in Int /\ RxOffset(high) \in Int
      BY <1>1, OffsetType
    <3>2. 0 < RxOffset(trig)
      BY <1>3 DEF RxWindowOrdered
    <3>3. Modulus(next, trig) =
             IF RxOffset(trig) >= RxOffset(next) THEN RxOffset(trig) - RxOffset(next)
             ELSE RxOffset(trig) - RxOffset(next) + SnModulus
      BY <1>1, ModulusRebase DEF RxOffset
    <3> QED
      BY <2>5, <3>1, <3>2, <3>3, SnAssumption
  <2>7. Modulus(next, trig) = RxOffset(trig) - RxOffset(next)
    BY <1>1, <2>6, ModulusRebase, OffsetType DEF RxOffset
  <2>8. 0 < Modulus(next, trig)
    BY <1>1, <2>3, ModulusType, SnAssumption
  <2> QED
    BY <1>1, <1>2, <1>3, <2>1, <2>2, <2>6, <2>7, <2>8, OffsetType
<1>4. CASE ~(t_reassembly /\ ~StopReassembly)
  <2>1. CASE HoleFrom(rx_list', next, high, next)
    <3>1. t_reassembly' = TRUE /\ rx_next_status_trigger' = high
      BY <1>4, <2>1, Zenon DEF UpdateReassemblyTimer
    <3>2. Modulus(next, SnNext(next)) = 1 /\ SnNext(next) \in SN
      BY <1>1, ModulusNext, ModulusType, SnAssumption
    <3>3. 0 < Modulus(next, high)
      BY <1>1, <2>1, <3>2, ModulusType, SnAssumption DEF HoleFrom
    <3> QED
      BY <1>1, <3>1, <3>3, ModulusType, SnAssumption
  <2>2. CASE ~HoleFrom(rx_list', next, high, next)
    <3>1. t_reassembly' = FALSE /\ rx_next_status_trigger' = trig
      BY <1>4, <2>2, Zenon DEF UpdateReassemblyTimer
    <3> QED
      BY <1>1, <3>1
  <2> QED
    BY <2>1, <2>2
<1> QED
  BY <1>3, <1>4

-----------------------------------------------------------------------------
(* The steps *)

\* Discarding a PDU, sending a report, the end of the prohibit timer: nothing
\* the invariant speaks of changes.
LEMMA WindowUntouched ==
    ASSUME RxInv, status_triggered' \in BOOLEAN, status_prohibited' \in BOOLEAN,
           UNCHANGED <<rx_list, rx_next, rx_next_status_trigger, rx_highest_status,
                       rx_next_highest, t_reassembly>>
    PROVE  /\ RxInv'
           /\ RxOffset(rx_highest_status) <= RxOffset(rx_highest_status')
           /\ RxOffset(rx_next_highest) <= RxOffset(rx_next_highest')
           /\ RxOffset(rx_next') <= RxOffset(rx_highest_status')
<1>1. RxInv'
  BY DEF RxInv, RxTypeOK, RxWindowOrdered, RxEdgesNotDelivered, RxTriggerNotOvertaken,
         RxOffset
<1>2. RxOffset(rx_next) = 0
  BY ModulusType DEF RxInv, RxTypeOK, RxOffset
<1> QED
  BY <1>1, <1>2, OffsetType DEF RxInv, RxTypeOK

\* A stored PDU widens the window to its SN at most.
LEMMA StorePduStep ==
    ASSUME RxInv, NEW pdu \in Pdus, StorePdu(pdu)
    PROVE  /\ RxInv'
           /\ RxOffset(rx_highest_status) <= RxOffset(rx_highest_status')
           /\ RxOffset(rx_next_highest) <= RxOffset(rx_next_highest')
           /\ RxOffset(rx_next') <= RxOffset(rx_highest_status')
<1>1. /\ RxTypeOK /\ RxWindowOrdered /\ RxEdgesNotDelivered /\ RxTriggerNotOvertaken
      /\ rx_next \in SN /\ rx_next_highest \in SN /\ rx_highest_status \in SN
      /\ rx_next_status_trigger \in SN /\ rx_list \subseteq StoredPdu
  BY DEF RxInv, RxTypeOK
<1>2. pdu.sn \in SN
  BY ReceivedListType, <1>1
<1>3. rx_next' = rx_next /\ rx_highest_status' = rx_highest_status
  BY DEF StorePdu
<1>4. RxOffset(pdu.sn) < WindowSize
  BY DEF StorePdu, Discarded, SnInRecvWindow, RxOffset
<1>5. /\ rx_next_highest' \in SN
      /\ RxOffset(pdu.sn) < RxOffset(rx_next_highest')
      /\ RxOffset(rx_next_highest) <= RxOffset(rx_next_highest')
      /\ RxOffset(rx_next_highest') <= WindowSize
  <2>1. rx_next_highest' = IF RxOffset(pdu.sn) >= RxOffset(rx_next_highest)
                           THEN SnNext(pdu.sn) ELSE rx_next_highest
    BY DEF StorePdu, RxOffset
  <2>2. SnNext(pdu.sn) \in SN /\ RxOffset(SnNext(pdu.sn)) = RxOffset(pdu.sn) + 1
    BY <1>1, <1>2, <1>4, ModulusNext, OffsetType, SnAssumption DEF RxOffset
  <2>3. RxOffset(rx_next_highest) <= WindowSize
    BY <1>1 DEF RxWindowOrdered
  <2> QED
    BY <1>1, <1>2, <1>4, <2>1, <2>2, <2>3, OffsetType, SnAssumption
<1>6. RxOffset(rx_next) = 0
  BY <1>1, ModulusType DEF RxOffset
<1>7. \A sn \in SN : SduDelivered(rx_list', sn) <=> SduDelivered(rx_list, sn)
  BY ReceivedNotDelivered DEF StorePdu
<1>8. rx_list' \subseteq StoredPdu /\ \A l \in rx_list' : l \in rx_list \/ l.sn = pdu.sn
  BY <1>1, ReceivedListType DEF StorePdu
<1>9. /\ t_reassembly' \in BOOLEAN
      /\ rx_next_status_trigger' \in SN
      /\ t_reassembly' =>
            /\ 0 < RxOffset(rx_next_status_trigger')
            /\ RxOffset(rx_next_status_trigger') <= RxOffset(rx_next_highest')
            /\ \/ rx_next_status_trigger' = rx_next_highest'
               \/ t_reassembly /\ rx_next_status_trigger' = rx_next_status_trigger
  <2>1. UpdateReassemblyTimer
    BY DEF StorePdu
  <2>2. RxOffset(rx_next') <= RxOffset(rx_next_highest')
    BY <1>1, <1>3, <1>5, <1>6, OffsetType
  <2> QED
    BY <1>1, <1>3, <1>5, <2>1, <2>2, TimerStep DEF RxOffset
<1>10. RxTypeOK'
  <2>1. status_triggered' \in BOOLEAN /\ status_prohibited' \in BOOLEAN
    BY <1>1 DEF StorePdu, RxTypeOK
  <2> QED
    BY <1>1, <1>3, <1>5, <1>8, <1>9, <2>1 DEF RxTypeOK
<1>11. RxOffset(rx_highest_status) <= RxOffset(rx_next_highest')
  BY <1>1, <1>5, OffsetType DEF RxWindowOrdered
<1>12. \A l \in rx_list' : RxOffset(l.sn) < RxOffset(rx_next_highest')
  <2>1. ASSUME NEW l \in rx_list'
        PROVE  RxOffset(l.sn) < RxOffset(rx_next_highest')
    <3>1. CASE l.sn = pdu.sn
      BY <1>5, <3>1
    <3>2. CASE l \in rx_list
      <4>1. l.sn \in SN /\ RxOffset(l.sn) < RxOffset(rx_next_highest)
        BY <1>1, <3>2 DEF RxWindowOrdered, StoredPdu
      <4> QED
        BY <1>1, <1>5, <4>1, OffsetType
    <3> QED
      BY <1>8, <3>1, <3>2
  <2> QED
    BY <2>1
<1>13. RxWindowOrdered'
  BY <1>3, <1>5, <1>9, <1>11, <1>12 DEF RxWindowOrdered, RxOffset
<1>14. RxEdgesNotDelivered'
  BY <1>1, <1>3, <1>7 DEF RxEdgesNotDelivered
<1>15. RxTriggerNotOvertaken'
  <2>1. CASE rx_next_status_trigger' = rx_next_highest'
    BY <1>1, <1>3, <1>5, <1>11, <2>1, OffsetType DEF RxTriggerNotOvertaken, RxOffset
  <2>2. CASE t_reassembly /\ rx_next_status_trigger' = rx_next_status_trigger
    BY <1>1, <1>3, <1>7, <2>2 DEF RxTriggerNotOvertaken, RxOffset
  <2> QED
    BY <1>9, <2>1, <2>2 DEF RxTriggerNotOvertaken
<1> QED
  BY <1>1, <1>3, <1>5, <1>6, <1>10, <1>13, <1>14, <1>15, OffsetType DEF RxInv

\* A delivered SDU moves rx_highest_status and rx_next over delivered SDUs, at
\* most up to rx_next_highest, and frees what lies below rx_next.
LEMMA CompleteSduStep ==
    ASSUME RxInv, NEW pdu \in Pdus, CompleteSdu(pdu)
    PROVE  /\ RxInv'
           /\ RxOffset(rx_highest_status) <= RxOffset(rx_highest_status')
           /\ RxOffset(rx_next_highest) <= RxOffset(rx_next_highest')
           /\ RxOffset(rx_next') <= RxOffset(rx_highest_status')
           /\ \A m \in SN : RxOffset(m) < RxOffset(rx_next') =>
                 SduDelivered(FreeData(ReceivedList(pdu), pdu.sn), m)
<1> DEFINE sn == pdu.sn
           list == FreeData(ReceivedList(pdu), sn)
<1>1. /\ RxTypeOK /\ RxWindowOrdered /\ RxEdgesNotDelivered /\ RxTriggerNotOvertaken
      /\ rx_next \in SN /\ rx_next_highest \in SN /\ rx_highest_status \in SN
      /\ rx_next_status_trigger \in SN /\ rx_list \subseteq StoredPdu
  BY DEF RxInv, RxTypeOK
<1>2. sn \in SN
  BY ReceivedListType, <1>1
<1>3. /\ rx_next_highest' = IF RxOffset(sn) >= RxOffset(rx_next_highest)
                            THEN SnNext(sn) ELSE rx_next_highest
      /\ rx_highest_status' = IF sn = rx_highest_status
                              THEN FirstNotDelivered(list, sn) ELSE rx_highest_status
      /\ rx_next' = IF sn = rx_next THEN FirstNotDelivered(list, sn) ELSE rx_next
      /\ rx_list' = {l \in list : RxOffset(l.sn) >= Modulus(rx_next, rx_next')}
      /\ UpdateReassemblyTimer
      /\ status_triggered' \in BOOLEAN
      /\ status_prohibited' \in BOOLEAN
  BY <1>1 DEF CompleteSdu, RxOffset, RxTypeOK
<1>4. RxOffset(sn) < WindowSize
  BY DEF CompleteSdu, Delivers, Discarded, SnInRecvWindow, RxOffset
<1>5. /\ rx_next_highest' \in SN
      /\ RxOffset(sn) < RxOffset(rx_next_highest')
      /\ RxOffset(rx_next_highest) <= RxOffset(rx_next_highest')
      /\ RxOffset(rx_next_highest') <= WindowSize
  <2>1. SnNext(sn) \in SN /\ RxOffset(SnNext(sn)) = RxOffset(sn) + 1
    BY <1>1, <1>2, <1>4, ModulusNext, OffsetType, SnAssumption DEF RxOffset
  <2>2. RxOffset(rx_next_highest) <= WindowSize
    BY <1>1 DEF RxWindowOrdered
  <2> QED
    BY <1>1, <1>2, <1>3, <1>4, <2>1, <2>2, OffsetType, SnAssumption
<1>6. list \subseteq StoredPdu /\ \A l \in list : RxOffset(l.sn) < RxOffset(rx_next_highest')
  <2>1. ReceivedList(pdu) \subseteq StoredPdu
    BY <1>1, ReceivedListType
  <2>2. ASSUME NEW k \in ReceivedList(pdu)
        PROVE  RxOffset(k.sn) < RxOffset(rx_next_highest')
    <3>1. CASE k.sn = sn
      BY <1>5, <3>1
    <3>2. CASE k \in rx_list
      <4>1. k.sn \in SN /\ RxOffset(k.sn) < RxOffset(rx_next_highest)
        BY <1>1, <3>2 DEF RxWindowOrdered, StoredPdu
      <4> QED
        BY <1>1, <1>5, <4>1, OffsetType
    <3> QED
      BY <1>1, <3>1, <3>2, ReceivedListType
  <2> QED
    BY <2>1, <2>2, FreeDataEntries
<1>7. \A x \in SN : x # sn => (SduDelivered(list, x) <=> SduDelivered(rx_list, x))
  <2>1. ReceivedList(pdu) \subseteq StoredPdu
    BY <1>1, ReceivedListType
  <2> QED
    BY <2>1, FreeDataDelivers, ReceivedNotDelivered, Zenon
<1>8. ~SduDelivered(list, rx_next_highest')
  BY <1>1, <1>5, <1>6, OffsetType DEF SduDelivered, SegmentsOf
<1> HIDE DEF list
<1>9. /\ rx_highest_status' \in SN
      /\ ~SduDelivered(list, rx_highest_status')
      /\ RxOffset(rx_highest_status) <= RxOffset(rx_highest_status')
      /\ RxOffset(rx_highest_status') <= RxOffset(rx_next_highest')
      /\ \A m \in SN : /\ RxOffset(rx_highest_status) <= RxOffset(m)
                       /\ RxOffset(m) < RxOffset(rx_highest_status')
                       => SduDelivered(list, m)
  <2>1. RxOffset(rx_highest_status) <= RxOffset(rx_next_highest')
    BY <1>1, <1>5, OffsetType DEF RxWindowOrdered
  <2>2. CASE sn = rx_highest_status
    <3> DEFINE hs == FirstNotDelivered(list, sn)
    <3>1. /\ hs \in SN /\ ~SduDelivered(list, hs)
          /\ \A m \in SN : Modulus(sn, m) < Modulus(sn, hs) => SduDelivered(list, m)
          /\ Modulus(sn, hs) <= Modulus(sn, rx_next_highest')
      BY <1>2, <1>5, <1>8, FirstNotDeliveredStops
    <3>2. rx_highest_status' = hs
      BY <1>3, <2>2
    <3> HIDE DEF hs
    <3>3. \A m \in SN : Modulus(sn, m) = IF RxOffset(m) >= RxOffset(sn)
                                          THEN RxOffset(m) - RxOffset(sn)
                                          ELSE RxOffset(m) - RxOffset(sn) + SnModulus
      BY <1>1, <1>2, ModulusRebase DEF RxOffset
    <3>4. RxOffset(sn) <= RxOffset(hs) /\ RxOffset(hs) <= RxOffset(rx_next_highest')
      BY <1>1, <1>2, <1>5, <2>1, <2>2, <3>1, <3>3, OffsetType, SnAssumption
    <3>5. \A m \in SN : /\ RxOffset(sn) <= RxOffset(m)
                        /\ RxOffset(m) < RxOffset(hs)
                        => SduDelivered(list, m)
      BY <1>1, <1>2, <3>1, <3>3, <3>4, OffsetType, SnAssumption
    <3> QED
      BY <2>2, <3>1, <3>2, <3>4, <3>5
  <2>3. CASE sn # rx_highest_status
    <3>1. rx_highest_status' = rx_highest_status
      BY <1>3, <2>3
    <3>2. ~SduDelivered(list, rx_highest_status)
      BY <1>1, <1>7, <2>3 DEF RxEdgesNotDelivered
    <3> QED
      BY <1>1, <2>1, <3>1, <3>2, OffsetType
  <2> QED
    BY <2>2, <2>3
<1>10. /\ rx_next' \in SN
       /\ ~SduDelivered(list, rx_next')
       /\ RxOffset(rx_next') <= RxOffset(rx_highest_status')
       /\ \A m \in SN : RxOffset(m) < RxOffset(rx_next') => SduDelivered(list, m)
  <2>1. RxOffset(rx_next) = 0
    BY <1>1, ModulusType DEF RxOffset
  <2>2. CASE sn = rx_next
    BY <1>2, <1>3, <1>9, <2>2, FirstNotDeliveredStops DEF RxOffset
  <2>3. CASE sn # rx_next
    BY <1>1, <1>3, <1>7, <1>9, <2>1, <2>3, OffsetType DEF RxEdgesNotDelivered
  <2> QED
    BY <2>2, <2>3
<1>11. rx_list' = {l \in list : RxOffset(l.sn) >= RxOffset(rx_next')}
  BY <1>3, Zenon DEF RxOffset
<1>12. \A m \in SN : RxOffset(rx_next') <= RxOffset(m) =>
                        Modulus(rx_next', m) = RxOffset(m) - RxOffset(rx_next')
  BY <1>1, <1>10, ModulusRebase DEF RxOffset
<1>13. /\ t_reassembly' \in BOOLEAN
       /\ rx_next_status_trigger' \in SN
       /\ t_reassembly' =>
             /\ 0 < Modulus(rx_next', rx_next_status_trigger')
             /\ Modulus(rx_next', rx_next_status_trigger')
                   <= Modulus(rx_next', rx_next_highest')
             /\ \/ rx_next_status_trigger' = rx_next_highest'
                \/ /\ t_reassembly
                   /\ rx_next_status_trigger' = rx_next_status_trigger
                   /\ RxOffset(rx_next') <= RxOffset(rx_next_status_trigger)
  <2>1. RxOffset(rx_next') <= RxOffset(rx_next_highest')
    BY <1>1, <1>5, <1>9, <1>10, OffsetType
  <2> QED
    BY <1>1, <1>3, <1>5, <1>10, <2>1, TimerStep
<1>14. RxTypeOK'
  BY <1>3, <1>5, <1>6, <1>9, <1>10, <1>11, <1>13 DEF RxTypeOK
<1>15. RxWindowOrdered'
  <2>1. /\ RxOffset(rx_highest_status)' = RxOffset(rx_highest_status') - RxOffset(rx_next')
        /\ RxOffset(rx_next_highest)' = RxOffset(rx_next_highest') - RxOffset(rx_next')
    BY <1>1, <1>5, <1>9, <1>10, <1>12, OffsetType DEF RxOffset
  <2>2. ASSUME NEW l \in rx_list'
        PROVE  RxOffset(l.sn)' < RxOffset(rx_next_highest)'
    <3>1. l \in list /\ RxOffset(l.sn) >= RxOffset(rx_next')
      BY <1>11
    <3>2. l.sn \in SN /\ RxOffset(l.sn) < RxOffset(rx_next_highest')
      BY <1>6, <3>1 DEF StoredPdu
    <3>3. RxOffset(l.sn)' = RxOffset(l.sn) - RxOffset(rx_next')
      BY <1>1, <1>10, <1>12, <3>1, <3>2, OffsetType DEF RxOffset
    <3> QED
      BY <1>1, <1>5, <1>10, <2>1, <3>2, <3>3, OffsetType
  <2>3. RxOffset(rx_highest_status)' <= RxOffset(rx_next_highest)'
    BY <1>1, <1>5, <1>9, <1>10, <2>1, OffsetType
  <2>4. RxOffset(rx_next_highest)' <= WindowSize
    BY <1>1, <1>5, <1>10, <2>1, OffsetType, SnAssumption
  <2>5. t_reassembly' => /\ 0 < RxOffset(rx_next_status_trigger)'
                         /\ RxOffset(rx_next_status_trigger)' <= RxOffset(rx_next_highest)'
    BY <1>13 DEF RxOffset
  <2> QED
    BY <2>2, <2>3, <2>4, <2>5 DEF RxWindowOrdered
<1>16. RxEdgesNotDelivered'
  BY <1>9, <1>10, <1>11 DEF RxEdgesNotDelivered, SduDelivered, SegmentsOf
<1>17. RxTriggerNotOvertaken'
  <2> SUFFICES ASSUME t_reassembly', NEW m \in SN,
                      RxOffset(rx_next_status_trigger)' <= RxOffset(m)',
                      RxOffset(m)' < RxOffset(rx_highest_status)'
               PROVE  SduDelivered(rx_list', m)
    BY DEF RxTriggerNotOvertaken
  <2>1. RxOffset(rx_highest_status)' = RxOffset(rx_highest_status') - RxOffset(rx_next')
    BY <1>1, <1>9, <1>10, <1>12, OffsetType DEF RxOffset
  <2>2. RxOffset(rx_next_highest)' = RxOffset(rx_next_highest') - RxOffset(rx_next')
    BY <1>1, <1>5, <1>9, <1>10, <1>12, OffsetType DEF RxOffset
  <2>3. /\ t_reassembly
        /\ rx_next_status_trigger' = rx_next_status_trigger
        /\ RxOffset(rx_next') <= RxOffset(rx_next_status_trigger)
    <3>1. RxOffset(rx_next_status_trigger)' \in Int /\ RxOffset(m)' \in Int
      BY <1>10, <1>13, ModulusType, SnAssumption DEF RxOffset
    <3>2. rx_next_status_trigger' # rx_next_highest'
      BY <1>1, <1>5, <1>9, <1>10, <2>1, <2>2, <3>1, OffsetType
    <3> QED
      BY <1>13, <3>2
  <2>4. RxOffset(rx_next') <= RxOffset(m) /\ RxOffset(m)' = RxOffset(m) - RxOffset(rx_next')
    <3>1. RxOffset(m)' = IF RxOffset(m) >= RxOffset(rx_next')
                         THEN RxOffset(m) - RxOffset(rx_next')
                         ELSE RxOffset(m) - RxOffset(rx_next') + SnModulus
      BY <1>1, <1>10, ModulusRebase DEF RxOffset
    <3>2. RxOffset(rx_highest_status') < SnModulus
      BY <1>1, <1>9, OffsetType
    <3> QED
      BY <1>1, <1>9, <1>10, <2>1, <3>1, <3>2, OffsetType, SnAssumption
  <2>5. RxOffset(rx_next_status_trigger)' =
           RxOffset(rx_next_status_trigger) - RxOffset(rx_next')
    BY <1>1, <1>10, <1>12, <2>3 DEF RxOffset
  <2>6. /\ RxOffset(rx_next_status_trigger) <= RxOffset(m)
        /\ RxOffset(m) < RxOffset(rx_highest_status')
    BY <1>1, <1>9, <1>10, <2>1, <2>4, <2>5, OffsetType
  <2>7. SduDelivered(list, m)
    <3>1. CASE RxOffset(m) < RxOffset(rx_highest_status)
      <4>1. SduDelivered(rx_list, m)
        BY <1>1, <2>3, <2>6, <3>1 DEF RxTriggerNotOvertaken
      <4>2. m # sn
        BY <4>1, ReceivedNotDelivered DEF CompleteSdu, Delivers, SduFull
      <4> QED
        BY <1>7, <4>1, <4>2
    <3>2. CASE RxOffset(rx_highest_status) <= RxOffset(m)
      BY <1>9, <2>6, <3>2
    <3> QED
      BY <1>1, <3>1, <3>2, OffsetType
  <2>8. PICK l \in list : l.sn = m /\ ~l.data
    BY <2>7 DEF SduDelivered, SegmentsOf
  <2>9. l \in rx_list'
    BY <1>1, <1>10, <1>11, <2>4, <2>8, OffsetType
  <2> QED
    BY <2>8, <2>9 DEF SduDelivered, SegmentsOf
<1> QED
  BY <1>5, <1>9, <1>10, <1>14, <1>15, <1>16, <1>17 DEF RxInv, list

\* An expiry moves rx_highest_status from the trigger on, over delivered SDUs.
LEMMA ReassemblyExpiresStep ==
    ASSUME RxInv, ReassemblyExpires
    PROVE  /\ RxInv'
           /\ RxOffset(rx_highest_status) <= RxOffset(rx_highest_status')
           /\ RxOffset(rx_next_highest) <= RxOffset(rx_next_highest')
           /\ RxOffset(rx_next') <= RxOffset(rx_highest_status')
<1>1. /\ RxTypeOK /\ RxWindowOrdered /\ RxEdgesNotDelivered /\ RxTriggerNotOvertaken
      /\ rx_next \in SN /\ rx_next_highest \in SN /\ rx_highest_status \in SN
      /\ rx_next_status_trigger \in SN /\ rx_list \subseteq StoredPdu
  BY DEF RxInv, RxTypeOK
<1>2. /\ t_reassembly
      /\ rx_highest_status' = FirstNotDelivered(rx_list, rx_next_status_trigger)
      /\ status_triggered' \in BOOLEAN /\ status_prohibited' \in BOOLEAN
      /\ UNCHANGED <<rx_list, rx_next, rx_next_highest>>
  BY <1>1 DEF ReassemblyExpires, RxTypeOK
<1>3. ~SduDelivered(rx_list, rx_next_highest)
  BY <1>1, OffsetType DEF RxWindowOrdered, SduDelivered, SegmentsOf
<1>4. /\ rx_highest_status' \in SN
      /\ ~SduDelivered(rx_list, rx_highest_status')
      /\ Modulus(rx_next_status_trigger, rx_highest_status')
            <= Modulus(rx_next_status_trigger, rx_next_highest)
  BY <1>1, <1>2, <1>3, FirstNotDeliveredStops
<1>5. /\ 0 < RxOffset(rx_next_status_trigger)
      /\ RxOffset(rx_next_status_trigger) <= RxOffset(rx_next_highest)
  BY <1>1, <1>2 DEF RxWindowOrdered
<1>6. /\ RxOffset(rx_next_status_trigger) <= RxOffset(rx_highest_status')
      /\ RxOffset(rx_highest_status') <= RxOffset(rx_next_highest)
  <2>1. \A m \in SN : Modulus(rx_next_status_trigger, m) =
           IF RxOffset(m) >= RxOffset(rx_next_status_trigger)
           THEN RxOffset(m) - RxOffset(rx_next_status_trigger)
           ELSE RxOffset(m) - RxOffset(rx_next_status_trigger) + SnModulus
    BY <1>1, ModulusRebase DEF RxOffset
  <2> QED
    BY <1>1, <1>4, <1>5, <2>1, OffsetType, SnAssumption
<1>7. RxOffset(rx_highest_status) <= RxOffset(rx_highest_status')
  <2>1. SUFFICES ASSUME RxOffset(rx_highest_status') < RxOffset(rx_highest_status)
                 PROVE  FALSE
    BY <1>1, <1>4, OffsetType
  <2>2. SduDelivered(rx_list, rx_highest_status')
    BY <1>1, <1>2, <1>4, <1>6, <2>1 DEF RxTriggerNotOvertaken
  <2> QED
    BY <1>4, <2>2
<1>8. /\ t_reassembly' \in BOOLEAN
      /\ rx_next_status_trigger' \in SN
      /\ t_reassembly' => rx_next_status_trigger' = rx_next_highest
  <2>1. CASE HoleFrom(rx_list, rx_next, rx_next_highest, rx_highest_status')
    BY <1>1, <1>2, <2>1 DEF ReassemblyExpires
  <2>2. CASE ~HoleFrom(rx_list, rx_next, rx_next_highest, rx_highest_status')
    BY <1>1, <2>2 DEF ReassemblyExpires
  <2> QED
    BY <2>1, <2>2
<1>9. RxTypeOK'
  BY <1>1, <1>2, <1>4, <1>8 DEF RxTypeOK
<1>10. RxWindowOrdered'
  <2>1. 0 < RxOffset(rx_next_highest) /\ RxOffset(rx_next_highest) <= RxOffset(rx_next_highest)
    BY <1>1, <1>5, OffsetType
  <2> QED
    BY <1>1, <1>2, <1>6, <1>8, <2>1 DEF RxWindowOrdered, RxOffset
<1>11. RxEdgesNotDelivered'
  BY <1>1, <1>2, <1>4 DEF RxEdgesNotDelivered
<1>12. RxTriggerNotOvertaken'
  BY <1>1, <1>2, <1>4, <1>6, <1>8, OffsetType DEF RxTriggerNotOvertaken, RxOffset
<1>13. RxOffset(rx_next) = 0
  BY <1>1, ModulusType DEF RxOffset
<1> QED
  BY <1>1, <1>2, <1>4, <1>7, <1>9, <1>10, <1>11, <1>12, <1>13, OffsetType DEF RxInv

\* The initial state, to which a re-establishment returns.
LEMMA ClearedWindow ==
    /\ RxInit => RxInv
    /\ RxReestablish => RxInv'
<1>1. Modulus(0, 0) = 0 /\ 0 \in SN
  BY SnAssumption DEF Modulus, SN
<1>2. ASSUME RxInit
      PROVE  RxInv
  <2>1. RxTypeOK
    BY <1>1, <1>2 DEF RxInit, RxTypeOK
  <2>2. RxWindowOrdered
    BY <1>1, <1>2, SnAssumption DEF RxInit, RxWindowOrdered, RxOffset
  <2>3. RxEdgesNotDelivered
    BY <1>2 DEF RxInit, RxEdgesNotDelivered, SduDelivered, SegmentsOf
  <2>4. RxTriggerNotOvertaken
    BY <1>2 DEF RxInit, RxTriggerNotOvertaken
  <2> QED
    BY <2>1, <2>2, <2>3, <2>4 DEF RxInv
<1>3. ASSUME RxReestablish
      PROVE  RxInv'
  <2>1. RxTypeOK'
    BY <1>1, <1>3 DEF RxReestablish, RxTypeOK
  <2>2. RxWindowOrdered'
    BY <1>1, <1>3, SnAssumption DEF RxReestablish, RxWindowOrdered, RxOffset
  <2>3. RxEdgesNotDelivered'
    BY <1>3 DEF RxReestablish, RxEdgesNotDelivered, SduDelivered, SegmentsOf
  <2>4. RxTriggerNotOvertaken'
    BY <1>3 DEF RxReestablish, RxTriggerNotOvertaken
  <2> QED
    BY <2>1, <2>2, <2>3, <2>4 DEF RxInv
<1> QED
  BY <1>2, <1>3

\* Each step keeps the invariant, and each but a re-establishment moves the
\* upper edges of the window forward.
LEMMA RxStep ==
    ASSUME RxInv, [RxNext]_rxVars
    PROVE  /\ RxInv'
           /\ \/ RxReestablish
              \/ /\ RxOffset(rx_highest_status) <= RxOffset(rx_highest_status')
                 /\ RxOffset(rx_next_highest) <= RxOffset(rx_next_highest')
                 /\ RxOffset(rx_next') <= RxOffset(rx_highest_status')
<1>1. ASSUME NEW pdu \in Pdus, DiscardPdu(pdu)
      PROVE  /\ status_triggered' \in BOOLEAN /\ status_prohibited' \in BOOLEAN
             /\ UNCHANGED <<rx_list, rx_next, rx_next_status_trigger, rx_highest_status,
                            rx_next_highest, t_reassembly>>
  <2>1. pdu.p \in BOOLEAN
    BY RxAssumption DEF DataPdu
  <2> QED
    BY <1>1, <2>1 DEF DiscardPdu, RxInv, RxTypeOK
<1>2. CASE \E pdu \in Pdus : RecvDataPdu(pdu)
  BY <1>1, <1>2, WindowUntouched, StorePduStep, CompleteSduStep DEF RecvDataPdu
<1>3. CASE ReassemblyExpires
  BY <1>3, ReassemblyExpiresStep
<1>4. CASE \E size \in StatusGrants : GenerateStatus(size)
  BY <1>4, WindowUntouched DEF GenerateStatus
<1>5. CASE ProhibitElapses
  BY <1>5, WindowUntouched DEF ProhibitElapses, RxInv, RxTypeOK
<1>6. CASE RxReestablish
  BY <1>6, ClearedWindow
<1>7. CASE UNCHANGED rxVars
  BY <1>7, WindowUntouched DEF rxVars, RxInv, RxTypeOK
<1> QED
  BY <1>2, <1>3, <1>4, <1>5, <1>6, <1>7 DEF RxNext

-----------------------------------------------------------------------------
(* The theorems *)

\* The inductive invariant holds in every reachable state.
THEOREM RxInvariant == RxSpec => []RxInv
<1>1. RxInit => RxInv
  BY ClearedWindow
<1>2. RxInv /\ [RxNext]_rxVars => RxInv'
  BY RxStep
<1> QED
  BY <1>1, <1>2, PTL DEF RxSpec

\* Type correctness of the receiving entity.
THEOREM RxTypeCorrect == RxSpec => []RxTypeOK
<1>1. RxInv => RxTypeOK
  BY DEF RxInv
<1> QED
  BY <1>1, RxInvariant, PTL

\* The variables of the reception window keep their order, over any sequence
\* of receptions, expiries and re-establishments and any wrap of the SN.
THEOREM RxWindowIsOrdered == RxSpec => []RxWindowOrdered
<1>1. RxInv => RxWindowOrdered
  BY DEF RxInv
<1> QED
  BY <1>1, RxInvariant, PTL

\* rx_next and rx_highest_status never designate a delivered SDU.
THEOREM RxEdgesAreNotDelivered == RxSpec => []RxEdgesNotDelivered
<1>1. RxInv => RxEdgesNotDelivered
  BY DEF RxInv
<1> QED
  BY <1>1, RxInvariant, PTL

\* rx_highest_status passes the SN that t_reassembly waits for over delivered
\* SDUs only, so an expiry does not take an acknowledgment back.
THEOREM RxTriggerIsNotOvertaken == RxSpec => []RxTriggerNotOvertaken
<1>1. RxInv => RxTriggerNotOvertaken
  BY DEF RxInv
<1> QED
  BY <1>1, RxInvariant, PTL

\* What may be acknowledged, and what was received highest, never goes back.
THEOREM RxWindowMovesForward == RxSpec => WindowMovesForward
<1>1. RxInv /\ [RxNext]_rxVars =>
         [\/ RxReestablish
          \/ /\ RxOffset(rx_highest_status) <= RxOffset(rx_highest_status')
             /\ RxOffset(rx_next_highest) <= RxOffset(rx_next_highest')
             /\ RxOffset(rx_next') <= RxOffset(rx_highest_status')]_rxVars
  BY RxStep
<1> QED
  BY <1>1, RxInvariant, PTL DEF RxSpec, WindowMovesForward

\* A hole above rx_highest_status always has the timer running for it.
THEOREM RxHoleIsTimedOrReported == RxSpec => []HoleIsTimedOrReported
<1>1. ASSUME RxInv, RxInv', UpdateReassemblyTimer
      PROVE  HoleIsTimedOrReported'
  <2>1. CASE t_reassembly'
    BY <2>1 DEF HoleIsTimedOrReported
  <2>2. CASE ~t_reassembly'
    <3>1. ~HoleFrom(rx_list', rx_next', rx_next_highest', rx_next')
      BY <1>1, <2>2 DEF UpdateReassemblyTimer
    <3>2. /\ rx_next' \in SN /\ rx_next_highest' \in SN /\ rx_highest_status' \in SN
          /\ Modulus(rx_next', rx_highest_status') <= Modulus(rx_next', rx_next_highest')
      BY <1>1 DEF RxInv, RxTypeOK, RxWindowOrdered, RxOffset
    <3>3. Modulus(rx_next', SnNext(rx_next')) = 1 /\ SnNext(rx_next') \in SN
      BY <3>2, ModulusNext, ModulusType, SnAssumption
    <3>4. Modulus(rx_next', rx_next_highest') <= 1
      BY <3>1, <3>2, <3>3, ModulusType, SnAssumption DEF HoleFrom
    <3>5. CASE rx_highest_status' = rx_next'
      BY <3>1, <3>5 DEF HoleIsTimedOrReported
    <3>6. CASE rx_highest_status' # rx_next'
      <4>1. Modulus(rx_next', rx_next_highest') <= Modulus(rx_next', rx_highest_status')
        BY <3>2, <3>4, <3>6, ModulusType, SnAssumption
      <4> QED
        BY <4>1 DEF HoleIsTimedOrReported, RxOffset
    <3> QED
      BY <3>5, <3>6
  <2> QED
    BY <2>1, <2>2
<1>2. RxInit => HoleIsTimedOrReported
  BY SnAssumption DEF RxInit, HoleIsTimedOrReported, RxOffset, Modulus
<1>3. ASSUME HoleIsTimedOrReported, RxInv, RxInv', [RxNext]_rxVars
      PROVE  HoleIsTimedOrReported'
  <2>1. ASSUME UNCHANGED <<rx_list, rx_next, rx_highest_status, rx_next_highest,
                           t_reassembly>>
        PROVE  HoleIsTimedOrReported'
    BY <1>3, <2>1 DEF HoleIsTimedOrReported, RxOffset
  <2>2. CASE \E pdu \in Pdus : RecvDataPdu(pdu)
    BY <1>1, <1>3, <2>1, <2>2 DEF RecvDataPdu, DiscardPdu, StorePdu, CompleteSdu
  <2>3. CASE ReassemblyExpires
    <3>1. CASE HoleFrom(rx_list, rx_next, rx_next_highest, rx_highest_status')
      BY <2>3, <3>1 DEF ReassemblyExpires, HoleIsTimedOrReported
    <3>2. CASE ~HoleFrom(rx_list, rx_next, rx_next_highest, rx_highest_status')
      BY <2>3, <3>2 DEF ReassemblyExpires, HoleIsTimedOrReported
    <3> QED
      BY <3>1, <3>2
  <2>4. CASE \E size \in StatusGrants : GenerateStatus(size)
    BY <2>1, <2>4 DEF GenerateStatus
  <2>5. CASE ProhibitElapses
    BY <2>1, <2>5 DEF ProhibitElapses
  <2>6. CASE RxReestablish
    BY <2>6, SnAssumption DEF RxReestablish, HoleIsTimedOrReported, RxOffset, Modulus
  <2>7. CASE UNCHANGED rxVars
    BY <2>1, <2>7 DEF rxVars
  <2> QED
    BY <1>3, <2>2, <2>3, <2>4, <2>5, <2>6, <2>7 DEF RxNext
<1> QED
  BY <1>2, <1>3, RxInvariant, PTL DEF RxSpec

-----------------------------------------------------------------------------
(* The bytes held *)

\* Segments of one SDU agree on where it ends.  The entity does not test it: a
\* segment beyond the end of an SDU that was delivered is stored and counted,
\* and its bytes are never taken off rx_size again.
SegmentsAgree ==
    \A k, l \in rx_list : k.sn = l.sn /\ l.last => k.so + k.size <= l.so + l.size

\* A delivered SDU is listed as a whole, and none of its bytes is kept.
DeliveredWhole(list, sn) ==
    /\ \A l \in SegmentsOf(list, sn) : ~l.data
    /\ \E l \in SegmentsOf(list, sn) : l.last /\ 0 .. l.so - 1 \subseteq Covered(list, sn)

HeldInv ==
    /\ IsFiniteSet(rx_list)
    /\ \A sn \in SN : SduDelivered(rx_list, sn) => DeliveredWhole(rx_list, sn)
    /\ RxSizeInv

LEMMA SizeOfType ==
    ASSUME NEW S \in SUBSET StoredPdu, IsFiniteSet(S)
    PROVE  SizeOf(S) \in Nat
<1>1. \A l \in S : [k \in S |-> k.size][l] \in Nat
  BY DEF StoredPdu
<1> QED
  BY <1>1, SumType DEF SizeOf

LEMMA SizeOfSplit ==
    ASSUME NEW S \in SUBSET StoredPdu, IsFiniteSet(S), NEW T \in SUBSET S
    PROVE  SizeOf(S) = SizeOf(T) + SizeOf(S \ T)
<1> DEFINE f == [k \in S |-> k.size]
<1>1. \A l \in S : f[l] \in Nat
  BY DEF StoredPdu
<1>2. ASSUME NEW R \in SUBSET S
      PROVE  SizeOf(R) = SumFunctionOnSet(f, R)
  <2> DEFINE g == [k \in R |-> k.size]
  <2>1. IsFiniteSet(R)
    BY FS_Subset
  <2>2. \A l \in R : g[l] = f[l]
    OBVIOUS
  <2>3. SizeOf(R) = SumFunctionOnSet(g, R)
    BY DEF SizeOf
  <2> HIDE DEF f, g
  <2> QED
    BY <2>1, <2>2, <2>3, SumSame
<1>3. SizeOf(S) = SumFunctionOnSet(f, S) /\ SizeOf(T) = SumFunctionOnSet(f, T)
      /\ SizeOf(S \ T) = SumFunctionOnSet(f, S \ T)
  BY <1>2
<1> HIDE DEF f
<1> QED
  BY <1>1, <1>3, SumSplit

LEMMA SizeOfAdd ==
    ASSUME NEW S \in SUBSET StoredPdu, IsFiniteSet(S), NEW y \in StoredPdu, y \notin S
    PROVE  SizeOf(S \cup {y}) = SizeOf(S) + y.size
<1>1. S \cup {y} \in SUBSET StoredPdu /\ IsFiniteSet(S \cup {y})
      /\ {y} \in SUBSET (S \cup {y}) /\ (S \cup {y}) \ {y} = S
  BY FS_AddElement
<1>2. SizeOf(S \cup {y}) = SizeOf({y}) + SizeOf(S)
  BY <1>1, SizeOfSplit
<1>3. SizeOf({y}) = y.size
  <2> DEFINE f == [k \in {y} |-> k.size]
  <2>1. f[y] = y.size /\ y.size \in Nat
    BY DEF StoredPdu
  <2>2. SizeOf({y}) = SumFunctionOnSet(f, {y})
    BY DEF SizeOf
  <2>3. IsFiniteSet({}) /\ {} \cup {y} = {y} /\ y \notin {}
    BY FS_EmptySet
  <2>4. \A x \in {} \cup {y} : f[x] \in Nat
    BY <2>1
  <2> HIDE DEF f
  <2>5. SumFunctionOnSet(f, {} \cup {y}) = f[y] + SumFunctionOnSet(f, {})
    BY <2>3, <2>4, SumAdd
  <2> QED
    BY <2>1, <2>2, <2>3, <2>5, SumEmpty
<1>4. SizeOf(S) \in Nat /\ y.size \in Nat
  BY SizeOfType DEF StoredPdu
<1> QED
  BY <1>2, <1>3, <1>4

\* What becomes of the bytes held when a PDU is not discarded.
LEMMA ReceivedBytes ==
    ASSUME RxInv, HeldInv, NEW pdu \in Pdus, ~Discarded(pdu)
    PROVE  LET list == ReceivedList(pdu)
           IN /\ IsFiniteSet(list)
              /\ SizeOf({l \in list : l.data}) = rx_size + pdu.size
              /\ \E l \in list : l.sn = pdu.sn /\ l.so = pdu.so /\ l.size = pdu.size
              /\ \A l \in list : l.sn # pdu.sn => l \in rx_list
              /\ rx_list \subseteq list
              /\ list \subseteq StoredPdu
<1> DEFINE new == [sn |-> pdu.sn, so |-> pdu.so, size |-> pdu.size,
                   last |-> pdu.last, sdu |-> pdu.sdu, data |-> TRUE]
           held == {l \in rx_list : l.data}
<1>1. pdu \in DataPdu
  BY RxAssumption
<1>2. /\ new \in StoredPdu /\ new.data /\ Bytes(new) = Bytes(pdu)
      /\ new.sn = pdu.sn /\ new.size = pdu.size /\ new.so = pdu.so
  BY <1>1 DEF StoredPdu, DataPdu, Bytes
<1>3. ReceivedList(pdu) = rx_list \cup {new}
  BY Zenon DEF ReceivedList
<1> HIDE DEF new
<1>4. new \notin rx_list
  <2> SUFFICES ASSUME new \in rx_list
               PROVE  FALSE
    OBVIOUS
  <2>1. new \in SegmentsOf(rx_list, pdu.sn)
    BY <1>2 DEF SegmentsOf
  <2>2. Bytes(pdu) \subseteq Covered(rx_list, pdu.sn)
    BY <1>2, <2>1 DEF Covered
  <2> QED
    BY <2>2 DEF Discarded, SegmentAlreadyReceived
<1>5. rx_list \subseteq StoredPdu /\ IsFiniteSet(rx_list) /\ rx_size = SizeOf(held)
  BY DEF RxInv, RxTypeOK, HeldInv, RxSizeInv
<1>6. held \in SUBSET StoredPdu /\ IsFiniteSet(held) /\ new \notin held
  BY <1>4, <1>5, FS_Subset
<1>7. {l \in rx_list \cup {new} : l.data} = held \cup {new}
  BY <1>2
<1>8. SizeOf(held \cup {new}) = SizeOf(held) + new.size
  BY <1>2, <1>6, SizeOfAdd
<1>9. IsFiniteSet(rx_list \cup {new})
  BY <1>5, FS_AddElement
<1> QED
  BY <1>2, <1>3, <1>5, <1>7, <1>8, <1>9

LEMMA StorePduHolds ==
    ASSUME RxInv, HeldInv, NEW pdu \in Pdus, StorePdu(pdu), SegmentsAgree'
    PROVE  HeldInv'
<1>1. /\ IsFiniteSet(rx_list') /\ rx_list' \subseteq StoredPdu /\ rx_list \subseteq rx_list'
      /\ SizeOf({l \in rx_list' : l.data}) = rx_size'
      /\ \E l \in rx_list' : l.sn = pdu.sn /\ l.so = pdu.so /\ l.size = pdu.size
      /\ \A l \in rx_list' : l.sn # pdu.sn => l \in rx_list
  BY ReceivedBytes, Zenon DEF StorePdu
<1>2. pdu \in DataPdu /\ rx_list \subseteq StoredPdu
  BY RxAssumption DEF RxInv, RxTypeOK
<1>3. ~SduDelivered(rx_list, pdu.sn)
  <2> SUFFICES ASSUME SduDelivered(rx_list, pdu.sn)
               PROVE  FALSE
    OBVIOUS
  <2>1. DeliveredWhole(rx_list, pdu.sn)
    BY <1>2 DEF HeldInv, DataPdu
  <2>2. PICK l \in SegmentsOf(rx_list, pdu.sn) :
           l.last /\ 0 .. l.so - 1 \subseteq Covered(rx_list, pdu.sn)
    BY <2>1 DEF DeliveredWhole
  <2>3. l \in rx_list /\ l \in rx_list' /\ l.sn = pdu.sn /\ l.so \in Nat /\ l.size \in Nat
    BY <1>1, <1>2, <2>2 DEF SegmentsOf, StoredPdu
  <2>4. pdu.so + pdu.size <= l.so + l.size /\ pdu.so \in Nat /\ pdu.size \in Nat
    <3>1. PICK k \in rx_list' : k.sn = pdu.sn /\ k.so = pdu.so /\ k.size = pdu.size
      BY <1>1
    <3>2. k.so + k.size <= l.so + l.size
      BY <2>2, <2>3, <3>1 DEF SegmentsAgree
    <3> QED
      BY <1>2, <3>1, <3>2 DEF DataPdu
  <2>5. Bytes(l) \subseteq Covered(rx_list, pdu.sn)
    BY <2>2 DEF Covered
  <2>6. Bytes(pdu) \subseteq (0 .. l.so - 1) \cup Bytes(l)
    BY <2>3, <2>4 DEF Bytes
  <2>7. Bytes(pdu) \subseteq Covered(rx_list, pdu.sn)
    BY <2>2, <2>5, <2>6
  <2> QED
    BY <2>7 DEF StorePdu, Discarded, SegmentAlreadyReceived
<1>4. ASSUME NEW sn \in SN, SduDelivered(rx_list', sn)
      PROVE  DeliveredWhole(rx_list', sn)
  <2>1. SduDelivered(rx_list, sn)
    BY <1>4, ReceivedNotDelivered DEF StorePdu
  <2>2. SegmentsOf(rx_list', sn) = SegmentsOf(rx_list, sn)
    BY <1>1, <1>3, <2>1 DEF SegmentsOf
  <2> QED
    BY <2>1, <2>2 DEF HeldInv, DeliveredWhole, Covered
<1> QED
  BY <1>1, <1>4 DEF HeldInv, RxSizeInv

LEMMA CompleteSduHolds ==
    ASSUME RxInv, HeldInv, NEW pdu \in Pdus, CompleteSdu(pdu)
    PROVE  HeldInv'
<1> DEFINE sn == pdu.sn
           recv == ReceivedList(pdu)
           list == FreeData(recv, sn)
           D == {l \in recv : l.data}
           Seg == SegmentsOf(recv, sn)
<1>1. /\ IsFiniteSet(recv) /\ recv \subseteq StoredPdu
      /\ SizeOf(D) = rx_size + pdu.size
      /\ \A l \in recv : l.sn # sn => l \in rx_list
      /\ rx_list \subseteq recv
  <2>1. ~Discarded(pdu)
    BY DEF CompleteSdu, Delivers
  <2> QED
    BY <2>1, ReceivedBytes, Zenon
<1>2. SduFull(recv, sn) /\ ~SduDelivered(recv, sn) /\ sn \in SN /\ rx_next \in SN
  BY ReceivedListType DEF CompleteSdu, Delivers, SduFull, RxInv, RxTypeOK
<1>3. /\ rx_size' = rx_size + pdu.size - SizeOf(Seg)
      /\ rx_list' = {l \in list : RxOffset(l.sn) >= RxOffset(rx_next')}
  BY Zenon DEF CompleteSdu, RxOffset
<1>4. \A m \in SN : RxOffset(m) < RxOffset(rx_next') => SduDelivered(list, m)
  BY CompleteSduStep
<1>5. /\ list \subseteq StoredPdu
      /\ \A l \in list : l.sn # sn => l \in recv
      /\ \A l \in recv : l.sn # sn => l \in list
  BY <1>1, FreeDataEntries, Zenon
<1>6. ASSUME NEW l \in list
      PROVE  \E k \in recv : l = IF k.sn = sn THEN [k EXCEPT !.data = FALSE] ELSE k
  BY <1>6, Zenon DEF FreeData
<1>7. ASSUME NEW k \in recv, k.sn = sn
      PROVE  /\ [k EXCEPT !.data = FALSE] \in list
             /\ [k EXCEPT !.data = FALSE].sn = sn
             /\ ~[k EXCEPT !.data = FALSE].data
             /\ [k EXCEPT !.data = FALSE].last = k.last
             /\ [k EXCEPT !.data = FALSE].so = k.so
             /\ [k EXCEPT !.data = FALSE].size = k.size
  <2>1. [k EXCEPT !.data = FALSE] \in list
    BY <1>7, Zenon DEF FreeData
  <2>2. k \in StoredPdu
    BY <1>1, <1>7
  <2> QED
    BY <1>7, <2>1, <2>2 DEF StoredPdu
<1>8. ASSUME NEW l \in list, l.sn = sn
      PROVE  /\ ~l.data
             /\ \E k \in recv : k.sn = sn /\ k.so = l.so /\ k.size = l.size /\ k.last = l.last
  <2>1. PICK k \in recv : l = IF k.sn = sn THEN [k EXCEPT !.data = FALSE] ELSE k
    BY <1>6, <1>8
  <2>2. k.sn = sn
    BY <1>8, <2>1
  <2>3. l = [k EXCEPT !.data = FALSE]
    BY <2>1, <2>2
  <2> QED
    BY <1>7, <2>2, <2>3
<1>9. IsFiniteSet(list)
  <2> DEFINE f == [k \in recv |-> IF k.sn = sn THEN [k EXCEPT !.data = FALSE] ELSE k]
             img == {f[k] : k \in recv}
  <2>1. f \in [recv -> img]
    OBVIOUS
  <2>2. list = img
    BY Zenon DEF FreeData
  <2>3. IsFiniteSet(img)
    <3>1. f \in Surjection(recv, img)
      BY <2>1 DEF Surjection
    <3> HIDE DEF f, img
    <3> QED
      BY <1>1, <3>1, FS_Surjection
  <2> QED
    BY <2>2, <2>3
<1> HIDE DEF list, recv
<1>10. \A l \in Seg : l \in recv /\ l.sn = sn /\ l.data
  BY <1>1, <1>2 DEF SduDelivered, SegmentsOf
<1>11. ASSUME NEW m \in SN, m # sn, SduDelivered(list, m)
       PROVE  DeliveredWhole(rx_list, m) /\ SegmentsOf(list, m) = SegmentsOf(rx_list, m)
  <2>1. SegmentsOf(list, m) = SegmentsOf(rx_list, m)
    BY <1>1, <1>5, <1>11 DEF SegmentsOf
  <2>2. SduDelivered(rx_list, m)
    BY <1>11, <2>1 DEF SduDelivered
  <2> QED
    BY <1>11, <2>1, <2>2 DEF HeldInv
<1>12. {l \in rx_list' : l.data} = D \ Seg
  <2>1. ASSUME NEW l \in rx_list', l.data
        PROVE  l \in D \ Seg
    BY <1>3, <1>5, <1>8, <1>10, <2>1
  <2>2. ASSUME NEW l \in D, l \notin Seg
        PROVE  l \in rx_list' /\ l.data
    <3>1. l \in recv /\ l.data /\ l.sn # sn /\ l.sn \in SN /\ l \in rx_list /\ l \in list
      BY <1>1, <1>5, <2>2 DEF SegmentsOf, StoredPdu
    <3>2. ~SduDelivered(list, l.sn)
      <4> SUFFICES ASSUME SduDelivered(list, l.sn)
                   PROVE  FALSE
        OBVIOUS
      <4>1. DeliveredWhole(rx_list, l.sn)
        BY <1>11, <3>1
      <4> QED
        BY <3>1, <4>1 DEF DeliveredWhole, SegmentsOf
    <3>3. rx_next' \in SN
      BY CompleteSduStep DEF RxInv, RxTypeOK
    <3>4. RxOffset(l.sn) \in Int /\ RxOffset(rx_next') \in Int
      BY <1>2, <3>1, <3>3, ModulusType, SnAssumption DEF RxOffset
    <3>5. RxOffset(l.sn) >= RxOffset(rx_next')
      BY <1>4, <3>1, <3>2, <3>4
    <3> QED
      BY <1>3, <3>1, <3>5
  <2> HIDE DEF D, Seg
  <2> QED
    BY <2>1, <2>2 DEF D
<1>13. rx_size' = SizeOf(D \ Seg)
  <2>1. D \in SUBSET StoredPdu /\ Seg \in SUBSET D
    BY <1>1, <1>10
  <2>2. IsFiniteSet(D) /\ IsFiniteSet(Seg) /\ IsFiniteSet(D \ Seg)
    <3>1. D \subseteq recv /\ Seg \subseteq recv /\ D \ Seg \subseteq recv
      BY <1>10
    <3> HIDE DEF D, Seg
    <3> QED
      BY <1>1, <3>1, FS_Subset
  <2> HIDE DEF D, Seg
  <2>3. Seg \in SUBSET StoredPdu /\ D \ Seg \in SUBSET StoredPdu
    BY <2>1
  <2>4. SizeOf(Seg) \in Nat /\ SizeOf(D \ Seg) \in Nat
    BY <2>2, <2>3, SizeOfType
  <2>5. SizeOf(D) = SizeOf(Seg) + SizeOf(D \ Seg)
    BY <2>1, <2>2, SizeOfSplit
  <2>6. rx_size' = SizeOf(D) - SizeOf(Seg)
    <3>1. SizeOf(D) = rx_size + pdu.size
      BY <1>1
    <3>2. rx_size' = rx_size + pdu.size - SizeOf(Seg)
      BY <1>3
    <3>3. rx_size \in Nat /\ pdu.size \in Nat
      <4>1. rx_size \in Nat
        <5>1. /\ rx_list \subseteq StoredPdu /\ IsFiniteSet(rx_list)
              /\ rx_size = SizeOf({l \in rx_list : l.data})
          BY DEF RxInv, RxTypeOK, HeldInv, RxSizeInv
        <5>2. IsFiniteSet({l \in rx_list : l.data})
          BY <5>1, FS_Subset
        <5> QED
          BY <5>1, <5>2, SizeOfType
      <4>2. pdu \in DataPdu
        BY RxAssumption
      <4> QED
        BY <4>1, <4>2 DEF DataPdu
    <3> QED
      BY <2>4, <3>1, <3>2, <3>3
  <2> QED
    BY <2>4, <2>5, <2>6
<1>14. ASSUME NEW m \in SN, SduDelivered(rx_list', m)
       PROVE  DeliveredWhole(rx_list', m)
  <2>1. SduDelivered(list, m) /\ SegmentsOf(rx_list', m) = SegmentsOf(list, m)
    <3>1. PICK l \in list : l.sn = m /\ ~l.data /\ RxOffset(l.sn) >= RxOffset(rx_next')
      BY <1>3, <1>14 DEF SduDelivered, SegmentsOf
    <3> QED
      BY <1>3, <3>1 DEF SduDelivered, SegmentsOf
  <2>2. CASE m # sn
    BY <1>11, <2>1, <2>2 DEF DeliveredWhole, Covered
  <2>3. CASE m = sn
    <3>1. PICK k \in SegmentsOf(recv, sn) : k.last /\ 0 .. k.so - 1 \subseteq Covered(recv, sn)
      BY <1>2 DEF SduFull
    <3>2. k \in recv /\ k.sn = sn
      BY <3>1 DEF SegmentsOf
    <3>3. Covered(recv, sn) \subseteq Covered(list, sn)
      <4> SUFFICES ASSUME NEW b \in Covered(recv, sn)
                   PROVE  b \in Covered(list, sn)
        OBVIOUS
      <4>1. PICK h \in SegmentsOf(recv, sn) : b \in Bytes(h)
        BY DEF Covered
      <4>2. h \in recv /\ h.sn = sn
        BY <4>1 DEF SegmentsOf
      <4> DEFINE g == [h EXCEPT !.data = FALSE]
      <4>3. g \in SegmentsOf(list, sn) /\ g.so = h.so /\ g.size = h.size
        BY <1>7, <4>2 DEF SegmentsOf
      <4> HIDE DEF g
      <4>4. b \in Bytes(g)
        BY <4>1, <4>3 DEF Bytes
      <4> QED
        BY <4>3, <4>4 DEF Covered
    <3> DEFINE h == [k EXCEPT !.data = FALSE]
    <3>4. h \in SegmentsOf(list, sn) /\ h.last /\ h.so = k.so
      BY <1>7, <3>1, <3>2 DEF SegmentsOf
    <3> HIDE DEF h
    <3>5. \A l \in SegmentsOf(list, sn) : ~l.data
      BY <1>8 DEF SegmentsOf
    <3> QED
      BY <2>1, <2>3, <3>1, <3>3, <3>4, <3>5 DEF DeliveredWhole, Covered
  <2> QED
    BY <2>2, <2>3
<1>15. IsFiniteSet(rx_list')
  BY <1>3, <1>9, FS_Subset
<1> QED
  BY <1>12, <1>13, <1>14, <1>15 DEF HeldInv, RxSizeInv

\* As long as the segments that arrive agree on where their SDUs end, a delivered
\* SDU stays in the list as a whole, and rx_size counts the bytes of the others.
THEOREM RxHeldInvariant == RxSpec /\ []SegmentsAgree => []HeldInv
<1>1. ASSUME rx_list = {}, rx_size = 0
      PROVE  HeldInv
  <2>1. SizeOf({l \in {} : l.data}) = 0
    <3>1. {l \in {} : l.data} = {}
      OBVIOUS
    <3> QED
      BY <3>1, SumEmpty DEF SizeOf
  <2> QED
    BY <1>1, <2>1, FS_EmptySet DEF HeldInv, RxSizeInv, SduDelivered, SegmentsOf
<1>2. RxInit => HeldInv
  BY <1>1 DEF RxInit
<1>3. ASSUME RxInv, HeldInv, SegmentsAgree', [RxNext]_rxVars
      PROVE  HeldInv'
  <2>1. ASSUME UNCHANGED <<rx_list, rx_size>>
        PROVE  HeldInv'
    BY <1>3, <2>1 DEF HeldInv, RxSizeInv
  <2>2. CASE \E pdu \in Pdus : RecvDataPdu(pdu)
    <3>1. PICK pdu \in Pdus : RecvDataPdu(pdu)
      BY <2>2
    <3>2. CASE DiscardPdu(pdu)
      BY <2>1, <3>2 DEF DiscardPdu
    <3>3. CASE StorePdu(pdu)
      BY <1>3, <3>3, StorePduHolds
    <3>4. CASE CompleteSdu(pdu)
      BY <1>3, <3>4, CompleteSduHolds
    <3> QED
      BY <3>1, <3>2, <3>3, <3>4 DEF RecvDataPdu
  <2>3. CASE RxReestablish
    <3>1. rx_list' = {} /\ rx_size' = 0
      BY <2>3 DEF RxReestablish
    <3>2. SizeOf({l \in {} : l.data}) = 0
      <4>1. {l \in {} : l.data} = {}
        OBVIOUS
      <4> QED
        BY <4>1, SumEmpty DEF SizeOf
    <3> QED
      BY <3>1, <3>2, FS_EmptySet DEF HeldInv, RxSizeInv, SduDelivered, SegmentsOf
  <2>4. CASE UNCHANGED rxVars
    BY <2>1, <2>4 DEF rxVars
  <2> QED
    BY <1>3, <2>1, <2>2, <2>3, <2>4 DEF RxNext, ReassemblyExpires, GenerateStatus, ProhibitElapses
<1> QED
  BY <1>2, <1>3, RxInvariant, PTL DEF RxSpec

\* rx_size is the number of bytes held, as long as the segments that arrive
\* agree on where their SDUs end.
THEOREM RxSizeIsBytesHeld == RxSpec /\ []SegmentsAgree => []RxSizeInv
<1>1. HeldInv => RxSizeInv
  BY DEF HeldInv
<1> QED
  BY <1>1, RxHeldInvariant, PTL
=============================================================================
