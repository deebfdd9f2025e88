-------------------------- MODULE PdcpLink_proofs --------------------------
(***************************************************************************)
(* The PDCP bearer, for every SN size and every number of SDUs: the        *)
(* receiver finds the sender's COUNTs again, and the bearer implements     *)
(* what PdcpService promises.                                              *)
(***************************************************************************)
EXTENDS PdcpLink, PdcpRx_proofs

\* What the proofs use of the invariant, with plain numbers.
LEMMA LinkInvFacts ==
    ASSUME PdcpLinkInv
    PROVE  /\ rx_deliv \in Nat /\ rx_next \in Nat /\ tx_next \in Nat
           /\ rx_deliv <= rx_next
           /\ rx_list \in SUBSET COUNT
           /\ \A c \in rx_list : rx_deliv < c /\ c < rx_next
           /\ base \in Nat /\ offered \in Nat /\ offered = base + tx_next
           /\ COUNT \subseteq Nat
           /\ WindowSize \in Nat \ {0}
BY CountSpace DEF PdcpLinkInv, PdcpRxInv, PdcpTypeOK, HeldIsTimed, COUNT

\* Every PDU under way has a COUNT near rx_deliv, so the receiver finds it.
LEMMA InvImpliesCountsAgree == PdcpLinkInv => CountsAgree
<1> SUFFICES ASSUME PdcpLinkInv, entity = "active", NEW c \in air
             PROVE  RcvdCount(rx_deliv, c % SnModulus) = c
  BY DEF CountsAgree
<1>1. /\ c < tx_next /\ tx_next <= c + WindowSize
      /\ tx_next <= rx_deliv + WindowSize /\ rx_next <= tx_next
      /\ c \in COUNT /\ rx_deliv \in COUNT
  BY DEF PdcpLinkInv, PdcpRxInv, PdcpTypeOK
<1>2. rx_deliv - WindowSize <= c /\ c < rx_deliv + WindowSize
  BY <1>1, LinkInvFacts
<1> QED
  BY <1>1, <1>2, CountIsReconstructed

\* What the receiver holds is no last COUNT, nor is what it hands up of that.
LEMMA HeldIsBelowTheWrap ==
    ASSUME PdcpLinkInv, rx_list' \in SUBSET rx_list, up' \in SUBSET (rx_list \cup up)
    PROVE  BelowTheWrap'
BY DEF PdcpLinkInv, BelowTheWrap

\* A batch of SDUs from rx_deliv on goes up after everything that went before.
LEMMA BatchIsPromised ==
    ASSUME PdcpLinkInv, entity # "released",
           up' \in SUBSET COUNT,
           \A c \in up' : rx_deliv <= c /\ c < tx_next,
           DeliverUp, UNCHANGED offered
    PROVE  /\ [Promised!ServiceNext]_(Promised!vars)
           /\ handed' \in SUBSET (1 .. offered)
<1> DEFINE batch == {NumberOf(c) : c \in up'}
<1>1. batch \in SUBSET (1 .. offered)
  BY LinkInvFacts DEF NumberOf
<1>2. \A i \in batch, j \in handed : j < i
  <2> TAKE i \in batch, j \in handed
  <2>1. PICK c \in up' : i = base + c + 1
    BY DEF NumberOf
  <2>2. j <= base + rx_deliv /\ j \in Nat
    BY LinkInvFacts DEF PdcpLinkInv
  <2> QED
    BY <2>1, <2>2, LinkInvFacts
<1>3. handed' = handed \cup batch
  BY DEF DeliverUp
<1> HIDE DEF batch
<1>4. Promised!HandUp(batch)
  BY <1>1, <1>2, <1>3 DEF Promised!HandUp
<1> QED
  BY <1>1, <1>3, <1>4 DEF Promised!ServiceNext, PdcpLinkInv

\* Every step of the link keeps the invariant and is a step of the service, or
\* none.
LEMMA LinkStep ==
    ASSUME PdcpLinkInv, [LinkNext]_linkVars
    PROVE  PdcpLinkInv' /\ [Promised!ServiceNext]_(Promised!vars)
<1> USE LinkInvFacts
<1>1. CASE UNCHANGED linkVars
  <2>1. BelowTheWrap'
    BY <1>1, HeldIsBelowTheWrap DEF linkVars, rxVars
  <2>2. PdcpRxInv'
    BY <1>1, <2>1, StepKeepsInv DEF linkVars, PdcpLinkInv
  <2> QED
    BY <1>1, <2>1, <2>2 DEF linkVars, rxVars, PdcpLinkInv, Promised!vars
<1>2. CASE ProcessSdu
  <2>1. PdcpRxInv'
    BY <1>2, CountSpace DEF ProcessSdu, PdcpLinkInv, PdcpRxInv, PdcpTypeOK, HeldIsTimed
  <2>2. /\ tx_next' = tx_next + 1 /\ offered' = offered + 1 /\ air' = air \cup {tx_next}
        /\ UNCHANGED <<base, handed, entity, rx_deliv, rx_next>>
        /\ entity = "active" /\ tx_next + 1 < CountModulus
        /\ tx_next < rx_deliv + WindowSize
        /\ \A c \in air : tx_next < c + WindowSize
    BY <1>2 DEF ProcessSdu, WithinHalfTheSpace
  <2>3. tx_next' \in COUNT /\ air' \in SUBSET COUNT
    BY <2>2, CountSpace DEF PdcpLinkInv, COUNT
  <2>4. offered' = base' + tx_next' /\ handed' \in SUBSET (1 .. offered')
    BY <2>2 DEF PdcpLinkInv
  <2>5. /\ \A i \in handed' : i <= base' + rx_deliv'
        /\ rx_next' <= tx_next' /\ tx_next' <= rx_deliv' + WindowSize
    BY <2>2 DEF PdcpLinkInv
  <2>6. ASSUME NEW c \in air' PROVE c < tx_next' /\ tx_next' <= c + WindowSize
    <3>1. CASE c \in air
      <4>1. c \in Nat /\ c < tx_next /\ tx_next < c + WindowSize
        BY <2>2, <3>1 DEF PdcpLinkInv
      <4> QED
        BY <2>2, <4>1
    <3>2. CASE c = tx_next
      BY <2>2, <3>2
    <3> QED
      BY <2>2, <3>1, <3>2
  <2>7. [Promised!ServiceNext]_(Promised!vars)
    BY <2>2 DEF Promised!ServiceNext, Promised!Offer
  <2>8. BelowTheWrap'
    BY <1>2, HeldIsBelowTheWrap DEF ProcessSdu
  <2> QED
    BY <2>1, <2>2, <2>3, <2>4, <2>5, <2>6, <2>7, <2>8 DEF PdcpLinkInv
<1>3. ASSUME NEW c \in air, PduIsLost(c)
      PROVE  PdcpLinkInv' /\ [Promised!ServiceNext]_(Promised!vars)
  <2>1. PdcpRxInv'
    BY <1>3 DEF PduIsLost, PdcpLinkInv, PdcpRxInv, PdcpTypeOK, HeldIsTimed
  <2>2. BelowTheWrap'
    BY <1>3, HeldIsBelowTheWrap DEF PduIsLost
  <2> QED
    BY <1>3, <2>1, <2>2 DEF PduIsLost, PdcpLinkInv, Promised!vars
<1>4. CASE ReconfigureLink
  <2>1. BelowTheWrap'
    BY <1>4, HeldIsBelowTheWrap DEF ReconfigureLink, Reconfigure
  <2>2. PdcpRxInv'
    BY <1>4, <2>1, StepKeepsInv DEF ReconfigureLink, RxNext, PdcpLinkInv
  <2> QED
    BY <1>4, <2>1, <2>2 DEF ReconfigureLink, Reconfigure, PdcpLinkInv, Promised!vars
<1>5. ASSUME NEW c \in air, PduArrives(c)
      PROVE  PdcpLinkInv' /\ [Promised!ServiceNext]_(Promised!vars)
  <2> DEFINE sn == c % SnModulus
             intact == HasIntegrity => RcvdCount(rx_deliv, sn) = c
  <2>1. /\ RecvPdu(sn, intact) /\ DeliverUp /\ air' \in SUBSET air
        /\ UNCHANGED <<tx_next, base, offered>>
        /\ entity # "released"
    BY <1>5 DEF PduArrives, RecvPdu
  <2>2. c \in COUNT /\ sn \in SN /\ intact \in BOOLEAN
    BY CountSpace, DivMod DEF PdcpLinkInv, COUNT, SN
  <2> HIDE DEF sn, intact
  <2>3. CASE Discarded(RcvdCount(rx_deliv, sn), intact)
    <3>1. /\ up' = {}
          /\ UNCHANGED <<entity_type, entity, t_reordering, t_reordering_start, rx_deliv,
                         rx_next, rx_reord, rx_list, delivered>>
      BY <2>1, <2>3 DEF RecvPdu
    <3>2. PdcpRxInv'
      BY <3>1 DEF PdcpLinkInv, PdcpRxInv, PdcpTypeOK, HeldIsTimed
    <3>3. handed' = handed
      BY <2>1, <3>1 DEF DeliverUp
    <3>4. BelowTheWrap'
      BY <3>1, HeldIsBelowTheWrap
    <3> QED
      BY <2>1, <3>1, <3>2, <3>3, <3>4 DEF PdcpLinkInv, Promised!vars
  <2>4. CASE ~Discarded(RcvdCount(rx_deliv, sn), intact)
    <3>1. entity = "active" /\ StorePdu(RcvdCount(rx_deliv, sn))
      BY <2>1, <2>4 DEF RecvPdu, Discarded, PdcpLinkInv, PdcpRxInv, PdcpTypeOK
    <3>2. RcvdCount(rx_deliv, sn) = c
      BY <3>1, InvImpliesCountsAgree DEF CountsAgree, sn
    <3>3. c < tx_next /\ c + 1 < CountModulus
      BY <2>2, <3>1, CountSpace DEF PdcpLinkInv, COUNT
    <3>4. /\ c >= rx_deliv /\ c \notin rx_list
      BY <2>2, <2>4, <3>2 DEF Discarded
    <3>5. PdcpRxInv'
      BY <2>2, <3>1, <3>2, <3>3, <3>4, StorePduKeepsInv DEF PdcpLinkInv
    <3>6. /\ rx_next' = IF c >= rx_next THEN c + 1 ELSE rx_next
          /\ rx_deliv' = IF c = rx_deliv THEN FirstMissing(rx_list \cup {c}, c) ELSE rx_deliv
          /\ up' = {k \in rx_list \cup {c} : k < rx_deliv'}
          /\ rx_list' = {k \in rx_list \cup {c} : k >= rx_deliv'}
          /\ entity' = entity
      BY <2>2, <3>1, <3>2, <3>3, <3>4, StorePduResult
         DEF PdcpLinkInv, PdcpRxInv, BelowTheWrap
    <3>7. /\ rx_deliv' \in Nat /\ rx_next' \in Nat /\ rx_deliv' <= rx_next'
      BY <3>5, CountSpace DEF PdcpRxInv, PdcpTypeOK, HeldIsTimed, COUNT
    <3>8. rx_next' <= tx_next
      BY <2>2, <3>1, <3>3, <3>6 DEF PdcpLinkInv
    <3>9. up' \in SUBSET COUNT /\ \A k \in up' : rx_deliv <= k /\ k < tx_next
      <4>1. \A k \in rx_list \cup {c} : k \in COUNT /\ rx_deliv <= k /\ k < tx_next
        BY <2>2, <3>1, <3>3, <3>4 DEF PdcpLinkInv
      <4> QED
        BY <3>6, <4>1
    <3>10. rx_deliv <= rx_deliv'
      <4>1. CASE c = rx_deliv
        <5>1. rx_deliv' = FirstMissing(rx_list \cup {c}, c)
          BY <3>6, <4>1
        <5>2. FirstMissing(rx_list \cup {c}, c) \in c .. CountModulus
          BY <2>2, CountSpace, FirstMissingFound DEF COUNT
        <5> QED
          BY <2>2, <3>7, <4>1, <5>1, <5>2
      <4>2. CASE c # rx_deliv
        BY <3>6, <4>2
      <4> QED
        BY <4>1, <4>2
    <3>11. ASSUME NEW i \in handed' PROVE i <= base' + rx_deliv'
      <4>1. CASE i \in handed
        <5>1. i \in Nat /\ i <= base + rx_deliv
          BY <3>1, <4>1 DEF PdcpLinkInv
        <5> QED
          BY <2>1, <3>7, <3>10, <5>1
      <4>2. CASE i \in {NumberOf(k) : k \in up'}
        <5>1. PICK k \in up' : i = base + k + 1
          BY <4>2 DEF NumberOf
        <5>2. k < rx_deliv' /\ k \in Nat
          BY <3>6, <3>9
        <5> QED
          BY <2>1, <3>7, <5>1, <5>2
      <4> QED
        BY <2>1, <4>1, <4>2 DEF DeliverUp
    <3>12. /\ [Promised!ServiceNext]_(Promised!vars)
           /\ handed' \in SUBSET (1 .. offered)
      BY <2>1, <3>9, BatchIsPromised
    <3>13. tx_next <= rx_deliv' + WindowSize
      BY <3>1, <3>7, <3>10 DEF PdcpLinkInv
    <3>14. BelowTheWrap'
      <4>1. \A k \in rx_list' \cup up' : k \in rx_list \cup {c}
        BY <3>6
      <4>2. c # CountModulus - 1
        BY <2>2, <3>3, CountSpace DEF COUNT
      <4> QED
        BY <4>1, <4>2 DEF PdcpLinkInv, BelowTheWrap
    <3> QED
      BY <2>1, <3>1, <3>5, <3>6, <3>8, <3>11, <3>12, <3>13, <3>14 DEF PdcpLinkInv
  <2> QED
    BY <2>3, <2>4
<1>6. CASE ReorderingTimer
  <2>1. /\ TReorderingExpires /\ DeliverUp /\ UNCHANGED <<tx_next, air, base, offered>>
        /\ entity # "released"
    BY <1>6 DEF ReorderingTimer, TReorderingExpires
  <2>2. PdcpRxInv'
    BY <2>1, ExpiryKeepsInv DEF PdcpLinkInv
  <2>3. /\ rx_deliv' = FirstMissing(rx_list, rx_reord)
        /\ up' = {k \in rx_list : k < rx_deliv'}
        /\ rx_list' = {k \in rx_list : k >= rx_deliv'}
        /\ UNCHANGED <<entity, rx_next>>
    BY <2>1, ExpiryResult DEF PdcpLinkInv
  <2>4. /\ rx_deliv' \in Nat /\ rx_next' \in Nat /\ rx_deliv' <= rx_next'
    BY <2>2, CountSpace DEF PdcpRxInv, PdcpTypeOK, HeldIsTimed, COUNT
  <2>5. rx_deliv <= rx_deliv'
    <3>1. rx_deliv < rx_reord /\ rx_reord \in COUNT /\ rx_list \in SUBSET COUNT
      BY <2>1 DEF TReorderingExpires, PdcpLinkInv, PdcpRxInv, PdcpTypeOK, HeldIsTimed
    <3>2. rx_deliv' = FirstMissing(rx_list, rx_reord)
      BY <2>3
    <3>3. FirstMissing(rx_list, rx_reord) \in rx_reord .. CountModulus
      BY <3>1, CountSpace, FirstMissingFound DEF COUNT
    <3> QED
      BY <2>4, <3>1, <3>2, <3>3
  <2>6. up' \in SUBSET COUNT /\ \A k \in up' : rx_deliv <= k /\ k < tx_next
    <3>1. \A k \in rx_list : k \in COUNT /\ rx_deliv <= k /\ k < tx_next
      BY <2>1 DEF PdcpLinkInv
    <3> QED
      BY <2>3, <3>1
  <2>7. /\ [Promised!ServiceNext]_(Promised!vars)
        /\ handed' \in SUBSET (1 .. offered)
    BY <2>1, <2>6, BatchIsPromised
  <2>8. ASSUME NEW i \in handed' PROVE i <= base' + rx_deliv'
    <3>1. CASE i \in handed
      <4>1. i \in Nat /\ i <= base + rx_deliv
        BY <2>1, <3>1 DEF PdcpLinkInv
      <4> QED
        BY <2>1, <2>4, <2>5, <4>1
    <3>2. CASE i \in {NumberOf(k) : k \in up'}
      <4>1. PICK k \in up' : i = base + k + 1
        BY <3>2 DEF NumberOf
      <4>2. k < rx_deliv' /\ k \in Nat
        BY <2>3, <2>6
      <4> QED
        BY <2>1, <2>4, <4>1, <4>2
    <3> QED
      BY <2>1, <3>1, <3>2 DEF DeliverUp
  <2>9. tx_next <= rx_deliv' + WindowSize
    BY <2>1, <2>4, <2>5 DEF PdcpLinkInv
  <2>10. BelowTheWrap'
    BY <2>3, HeldIsBelowTheWrap
  <2> QED
    BY <2>1, <2>2, <2>3, <2>7, <2>8, <2>9, <2>10 DEF PdcpLinkInv
<1>7. CASE Suspend \/ Reestablish \/ ReleaseLink
  <2>1. /\ DeliverUp /\ UNCHANGED offered /\ entity # "released"
        /\ RxSuspend \/ RxReestablish \/ Release
        /\ air' \in SUBSET air
    BY <1>7 DEF Suspend, Reestablish, ReleaseLink, RxSuspend, RxReestablish, Release
  <2>3. up' \in SUBSET rx_list /\ rx_list' \in SUBSET rx_list
    BY <2>1 DEF RxSuspend, RxReestablish, ReestablishDrbUm, ReestablishSrb, ReestablishDrbAm,
                Release, HandUp
  <2>12. BelowTheWrap'
    BY <2>3, HeldIsBelowTheWrap
  <2>2. PdcpRxInv'
    BY <2>1, <2>12, StepKeepsInv DEF RxNext, PdcpLinkInv
  <2>4. up' \in SUBSET COUNT /\ \A k \in up' : rx_deliv <= k /\ k < tx_next
    <3>1. \A k \in rx_list : k \in COUNT /\ rx_deliv <= k /\ k < tx_next
      BY <2>1 DEF PdcpLinkInv
    <3> QED
      BY <2>3, <3>1
  <2>5. /\ [Promised!ServiceNext]_(Promised!vars)
        /\ handed' \in SUBSET (1 .. offered)
    BY <2>1, <2>4, BatchIsPromised
  <2>6. 0 \in COUNT
    BY CountSpace DEF COUNT
  <2>7. \A i \in handed' : i \in Nat /\ i <= offered
    BY <2>5
  <2>8. CASE Suspend
    <3>1. /\ tx_next' = 0 /\ base' = offered /\ offered' = offered /\ air' = air
          /\ rx_next' = 0 /\ rx_deliv' = 0 /\ entity' = "suspended"
      BY <2>8 DEF Suspend, RxSuspend, RestartCount
    <3> QED
      BY <2>2, <2>12, <2>5, <2>6, <2>7, <3>1 DEF PdcpLinkInv
  <2>9. CASE Reestablish /\ entity_type = "drb_am"
    <3>1. /\ UNCHANGED <<tx_next, base, offered, rx_deliv, rx_next>>
          /\ up' = {} /\ handed' = handed /\ entity' = "active" /\ air' = {}
      BY <2>1, <2>9 DEF Reestablish, RxReestablish, ReestablishDrbAm, ReestablishDrbUm,
                        ReestablishSrb, DeliverUp
    <3> QED
      BY <2>1, <2>2, <2>12, <2>5, <3>1 DEF PdcpLinkInv
  <2>10. CASE Reestablish /\ entity_type # "drb_am"
    <3>1. /\ tx_next' = 0 /\ base' = offered /\ offered' = offered /\ air' = {}
          /\ rx_next' = 0 /\ rx_deliv' = 0 /\ entity' = "active"
      BY <2>10 DEF Reestablish, RxReestablish, ReestablishDrbAm, ReestablishDrbUm,
                   ReestablishSrb, RestartCount
    <3> QED
      BY <2>2, <2>12, <2>5, <2>6, <2>7, <3>1 DEF PdcpLinkInv
  <2>11. CASE ReleaseLink
    BY <2>2, <2>12, <2>5, <2>11 DEF ReleaseLink, Release, PdcpLinkInv
  <2> QED
    BY <1>7, <2>5, <2>8, <2>9, <2>10, <2>11
<1> QED
  BY <1>1, <1>2, <1>3, <1>4, <1>5, <1>6, <1>7 DEF LinkNext

\* The COUNTs of the two ends, of the PDUs under way and of what was handed up
\* belong together in every state.
THEOREM PdcpLinkInvariant == LinkSpec => []PdcpLinkInv
<1>1. LinkInit => PdcpLinkInv
  <2>1. 0 \in COUNT /\ WindowSize \in Nat
    BY CountSpace DEF COUNT
  <2>2. RxInit => PdcpRxInv
    <3>1. RxInit => PdcpTypeOK
      BY <2>1 DEF RxInit, PdcpTypeOK
    <3>2. RxInit => HeldIsTimed
      BY DEF RxInit, HeldIsTimed
    <3> QED
      BY <3>1, <3>2 DEF RxInit, PdcpRxInv
  <2> QED
    BY <2>1, <2>2 DEF LinkInit, RxInit, PdcpLinkInv, BelowTheWrap
<1>2. PdcpLinkInv /\ [LinkNext]_linkVars => PdcpLinkInv'
  BY LinkStep
<1> QED
  BY <1>1, <1>2, PTL DEF LinkSpec

\* What the theorems of the receiver assume holds in the link: the sender stops
\* before the last COUNT, and no PDU is taken for one with it.
THEOREM PdcpLinkBelowTheWrap == LinkSpec => []BelowTheWrap
<1>1. PdcpLinkInv => BelowTheWrap
  BY DEF PdcpLinkInv
<1> QED
  BY <1>1, PdcpLinkInvariant, PTL

\* recv_pdu and check_t_reordering in the link: no SDU is held without a timer.
THEOREM PdcpLinkHeldIsTimed == LinkSpec => []HeldIsTimed
<1>1. PdcpLinkInv => HeldIsTimed
  BY DEF PdcpLinkInv, PdcpRxInv
<1> QED
  BY <1>1, PdcpLinkInvariant, PTL

\* The receiver reconstructs the sender's COUNT of every PDU under way.
THEOREM PdcpCountsAgree == LinkSpec => []CountsAgree
BY PdcpLinkInvariant, InvImpliesCountsAgree, PTL

\* The bearer implements its service: in order, at most once, nothing made up.
THEOREM PdcpRefinesService == LinkSpec => ImplementsPdcpService
<1>1. LinkInit => Promised!ServiceInit
  BY DEF LinkInit, Promised!ServiceInit
<1>2. PdcpLinkInv /\ [LinkNext]_linkVars => [Promised!ServiceNext]_(Promised!vars)
  BY LinkStep
<1> QED
  BY <1>1, <1>2, PdcpLinkInvariant, PTL DEF LinkSpec, ImplementsPdcpService, Promised!Service
=============================================================================
