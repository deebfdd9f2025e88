--------------------------- MODULE PdcpRx_proofs ---------------------------
(***************************************************************************)
(* The COUNT arithmetic and the receiving side of the PDCP entity, for     *)
(* every SN size, every COUNT space and any PDUs in any order.             *)
(***************************************************************************)
EXTENDS PdcpRx, TLAPS, WellFoundedInduction

\* The sizes of the SN and COUNT spaces are positive numbers.
LEMMA CountSpace ==
    /\ SnModulus \in Nat \ {0}
    /\ SnModulus = 2 * WindowSize
    /\ WindowSize \in Nat \ {0}
    /\ CountModulus \in Nat \ {0}
    /\ CountModulus = SnModulus * HfnModulus
BY CountAssumption, SMT DEF SnModulus, CountModulus

\* Quotient and remainder.
LEMMA DivMod ==
    ASSUME NEW n \in Int, NEW m \in Nat \ {0}
    PROVE  /\ n % m \in 0 .. m - 1
           /\ n \div m \in Int
           /\ n = m * (n \div m) + (n % m)
BY SMT

\* A number below the modulus is its own remainder.
LEMMA ModSmall ==
    ASSUME NEW m \in Nat \ {0}, NEW n \in 0 .. m - 1
    PROVE  n % m = n
BY SMT

\* One HFN more or less is one SN space more or less.
LEMMA MulStep ==
    ASSUME NEW m \in Nat \ {0}, NEW g \in Int
    PROVE  /\ m * (g + 1) = m * g + m
           /\ m * (g - 1) = m * g - m
BY SMT

\* A larger HFN is at least one SN space further.
LEMMA MulMono ==
    ASSUME NEW m \in Nat \ {0}, NEW g \in Int, NEW h \in Int, g <= h
    PROVE  m * g <= m * h
<1>1. h - g \in Nat
  OBVIOUS
<1>2. m * (h - g) >= 0
  BY <1>1, SMT
<1>3. m * (h - g) = m * h - m * g
  BY SMT
<1> QED
  BY <1>2, <1>3, SMT

\* recv_pdu: the COUNT of every PDU that is less than half the SN space away
\* from rx_deliv is found again from its SN.
THEOREM CountIsReconstructed ==
    ASSUME NEW r \in COUNT, NEW c \in COUNT,
           r - WindowSize <= c, c < r + WindowSize
    PROVE  RcvdCount(r, c % SnModulus) = c
<1> DEFINE M == SnModulus
           g == r \div M
           d == r % M
           h == c \div M
           s == c % M
<1>1. /\ M \in Nat \ {0} /\ M = 2 * WindowSize
      /\ CountModulus \in Nat \ {0}
      /\ WindowSize \in Nat \ {0}
      /\ r \in 0 .. CountModulus - 1
      /\ c \in 0 .. CountModulus - 1
      /\ r \in Int /\ c \in Int
  BY CountSpace DEF COUNT
<1>2. /\ d \in 0 .. M - 1 /\ g \in Int /\ r = M * g + d
      /\ s \in 0 .. M - 1 /\ h \in Int /\ c = M * h + s
  <2> HIDE DEF M
  <2>1. /\ r % M \in 0 .. M - 1 /\ r \div M \in Int /\ r = M * (r \div M) + (r % M)
        /\ c % M \in 0 .. M - 1 /\ c \div M \in Int /\ c = M * (c \div M) + (c % M)
    BY <1>1, DivMod
  <2> QED
    BY <2>1
<1>3. RcvdHfn(r, s) = IF s < d - WindowSize THEN g + 1
                      ELSE IF s >= d + WindowSize THEN g - 1
                      ELSE g
  BY Zenon DEF RcvdHfn
<1> HIDE DEF M, g, d, h, s
<1>4. RcvdHfn(r, s) = h
  <2>1. /\ h <= g - 2 => M * h <= M * g - M - M
        /\ h <= g - 1 => M * h <= M * g - M
        /\ h >= g + 1 => M * h >= M * g + M
        /\ h >= g + 2 => M * h >= M * g + M + M
    <3>1. /\ M * (g + 1) = M * g + M
          /\ M * (g - 1) = M * g - M
          /\ M * ((g + 1) + 1) = M * (g + 1) + M
          /\ M * ((g - 1) - 1) = M * (g - 1) - M
      <4>1. g + 1 \in Int /\ g - 1 \in Int
        BY <1>2
      <4> QED
        BY <1>1, <1>2, <4>1, MulStep
    <3>2. /\ h <= g - 2 => M * h <= M * ((g - 1) - 1)
          /\ h <= g - 1 => M * h <= M * (g - 1)
          /\ h >= g + 1 => M * h >= M * (g + 1)
          /\ h >= g + 2 => M * h >= M * ((g + 1) + 1)
      <4>1. /\ g + 1 \in Int /\ g - 1 \in Int
            /\ (g - 1) - 1 \in Int /\ (g + 1) + 1 \in Int
            /\ (g - 1) - 1 = g - 2 /\ (g + 1) + 1 = g + 2
        BY <1>2
      <4> QED
        BY <1>1, <1>2, <4>1, MulMono
    <3> QED
      BY <1>1, <1>2, <3>1, <3>2
  <2>2. M * g \in Int /\ M * h \in Int
    BY <1>1, <1>2
  <2>3. h = g => M * h = M * g
    OBVIOUS
  <2>4. CASE s < d - WindowSize
    BY <1>1, <1>2, <1>3, <2>1, <2>2, <2>3, <2>4
  <2>5. CASE s >= d + WindowSize
    BY <1>1, <1>2, <1>3, <2>1, <2>2, <2>3, <2>5
  <2>6. CASE ~(s < d - WindowSize) /\ ~(s >= d + WindowSize)
    BY <1>1, <1>2, <1>3, <2>1, <2>2, <2>3, <2>6
  <2> QED
    BY <2>4, <2>5, <2>6
<1>5. RcvdCount(r, s) = c % CountModulus
  BY <1>2, <1>4 DEF RcvdCount, M
<1>6. c % CountModulus = c
  BY <1>1, ModSmall
<1> QED
  BY <1>5, <1>6 DEF s, M

-----------------------------------------------------------------------------
\* The loop that delivers consecutive SDUs ends, at the first COUNT that is not
\* in the list.
LEMMA FirstMissingFound ==
    ASSUME NEW list \in SUBSET COUNT, NEW count \in 0 .. CountModulus
    PROVE  /\ FirstMissing(list, count) \in count .. CountModulus
           /\ FirstMissing(list, count) \notin list
           /\ \A m \in count .. FirstMissing(list, count) - 1 : m \in list
<1> DEFINE D == {n \in count .. CountModulus : n \notin list}
<1>1. CountModulus \in Nat /\ count \in Nat /\ count <= CountModulus
  BY CountSpace
<1>2. CountModulus \in D
  BY <1>1 DEF COUNT
<1>3. D \subseteq Nat
  BY <1>1
<1>4. \E d \in D : \A e \in D : <<e, d>> \notin OpToRel(<, Nat)
  <2> HIDE DEF D
  <2> QED
    BY <1>2, <1>3, WFMin, NatLessThanWellFounded, Zenon
<1>5. PICK d \in D : \A e \in D : <<e, d>> \notin OpToRel(<, Nat)
  BY <1>4, Zenon
<1>6. \A e \in D : ~(e < d)
  <2> HIDE DEF D
  <2> QED
    BY <1>3, <1>5, Zenon DEF OpToRel
<1>7. \A m \in count .. d - 1 : m \in list
  BY <1>1, <1>3, <1>6
<1>8. \E n \in count .. CountModulus :
         n \notin list /\ \A m \in count .. n - 1 : m \in list
  BY <1>5, <1>7
<1> QED
  BY <1>8, Zenon DEF FirstMissing

\* recv_pdu: the COUNT computed for any SN is in the COUNT space.
LEMMA RcvdCountType ==
    ASSUME NEW r \in COUNT, NEW s \in SN
    PROVE  RcvdCount(r, s) \in COUNT
<1>1. RcvdHfn(r, s) \in Int
  BY CountSpace, DivMod DEF RcvdHfn, COUNT, SN
<1>2. SnModulus * RcvdHfn(r, s) + s \in Int
  BY <1>1, CountSpace DEF SN
<1> QED
  BY <1>2, CountSpace, DivMod DEF RcvdCount, COUNT

\* recv_pdu: below the last COUNT nothing wraps.
LEMMA StorePduResult ==
    ASSUME PdcpTypeOK, NEW count \in COUNT, count + 1 < CountModulus,
           CountModulus - 1 \notin rx_list, StorePdu(count)
    PROVE  LET held == rx_list \cup {count}
           IN  /\ rx_next' = IF count >= rx_next THEN count + 1 ELSE rx_next
               /\ rx_deliv' = IF count = rx_deliv THEN FirstMissing(held, count) ELSE rx_deliv
               /\ up' = {c \in held : c < rx_deliv'}
               /\ delivered' = delivered \cup up'
               /\ rx_list' = {c \in held : c >= rx_deliv'}
               /\ UNCHANGED <<entity_type, entity, t_reordering>>
<1> DEFINE held == rx_list \cup {count}
<1>1. /\ CountModulus \in Nat \ {0}
      /\ rx_deliv \in COUNT /\ rx_next \in COUNT
      /\ rx_list \in SUBSET COUNT /\ held \in SUBSET COUNT
      /\ \A c \in rx_list : c # CountModulus - 1
  BY CountSpace DEF PdcpTypeOK
<1> DEFINE stop == IF count = rx_deliv THEN FirstMissing(held, count) ELSE rx_deliv
<1>2. /\ rx_next' = IF count >= rx_next THEN (count + 1) % CountModulus ELSE rx_next
      /\ rx_deliv' = stop % CountModulus
      /\ up' = {c \in held : c < stop}
      /\ delivered' = delivered \cup up'
      /\ rx_list' = {c \in held : c >= stop}
      /\ UNCHANGED <<entity_type, entity, t_reordering>>
  BY DEF StorePdu, HandUp
<1>3. (count + 1) % CountModulus = count + 1
  <2>1. count + 1 \in 0 .. CountModulus - 1
    BY <1>1 DEF COUNT
  <2> QED
    BY <1>1, <2>1, ModSmall
<1>4. stop % CountModulus = stop
  <2>1. CASE count = rx_deliv
    <3> DEFINE n == FirstMissing(held, count)
    <3>1. /\ n \in count .. CountModulus /\ n \notin held
          /\ \A m \in count .. n - 1 : m \in held
      BY <1>1, FirstMissingFound DEF COUNT
    <3>2. \A c \in held : c # CountModulus - 1
      BY <1>1 DEF COUNT
    <3>3. stop = n
      BY <2>1
    <3> HIDE DEF n, held, stop
    <3>4. n # CountModulus
      <4>1. SUFFICES ASSUME n = CountModulus PROVE FALSE
        OBVIOUS
      <4>2. CountModulus - 1 \in count .. n - 1
        BY <1>1, <4>1 DEF COUNT
      <4> QED
        BY <3>1, <3>2, <4>2
    <3>5. n \in 0 .. CountModulus - 1
      BY <1>1, <3>1, <3>4 DEF COUNT
    <3> QED
      BY <1>1, <3>3, <3>5, ModSmall
  <2>2. CASE count # rx_deliv
    <3>1. rx_deliv \in 0 .. CountModulus - 1
      BY <1>1 DEF COUNT
    <3> QED
      BY <1>1, <2>2, <3>1, ModSmall
  <2> QED
    BY <2>1, <2>2
<1>5. stop = IF count = rx_deliv THEN FirstMissing(held, count) ELSE rx_deliv
  OBVIOUS
<1> HIDE DEF stop
<1> QED
  BY <1>2, <1>3, <1>4, <1>5

\* recv_pdu keeps the invariant.
LEMMA StorePduKeepsInv ==
    ASSUME PdcpRxInv, NEW count \in COUNT, entity # "released",
           count + 1 < CountModulus, count >= rx_deliv, count \notin rx_list,
           StorePdu(count)
    PROVE  PdcpRxInv' /\ \A c \in up', d \in delivered : c > d
<1> DEFINE held == rx_list \cup {count}
<1>1. /\ CountModulus \in Nat \ {0}
      /\ rx_deliv \in COUNT /\ rx_next \in COUNT /\ rx_reord \in COUNT
      /\ rx_list \in SUBSET COUNT /\ held \in SUBSET COUNT
      /\ delivered \in SUBSET COUNT
      /\ t_reordering_start \in BOOLEAN
      /\ rx_deliv <= rx_next
      /\ \A c \in rx_list : rx_deliv < c /\ c < rx_next
      /\ t_reordering_start => rx_deliv < rx_reord /\ rx_reord <= rx_next
      /\ rx_deliv < rx_next => t_reordering_start
      /\ \A c \in delivered : c < rx_deliv
  BY CountSpace DEF PdcpRxInv, PdcpTypeOK, HeldIsTimed
<1>2. /\ rx_next' = IF count >= rx_next THEN count + 1 ELSE rx_next
      /\ rx_deliv' = IF count = rx_deliv THEN FirstMissing(held, count) ELSE rx_deliv
      /\ up' = {c \in held : c < rx_deliv'}
      /\ delivered' = delivered \cup up'
      /\ rx_list' = {c \in held : c >= rx_deliv'}
      /\ UNCHANGED <<entity_type, entity, t_reordering>>
  <2>1. CountModulus - 1 \notin rx_list
    BY <1>1 DEF COUNT
  <2> QED
    BY <2>1, StorePduResult DEF PdcpRxInv
<1>3. /\ rx_next' \in COUNT /\ rx_next <= rx_next'
      /\ \A c \in held : c >= rx_deliv /\ c < rx_next'
  BY <1>1, <1>2 DEF COUNT
<1>4. /\ rx_deliv' \in COUNT /\ rx_deliv <= rx_deliv' /\ rx_deliv' <= rx_next'
      /\ \A c \in rx_list' : c > rx_deliv'
  <2>1. CASE count = rx_deliv
    <3> DEFINE n == FirstMissing(held, count)
    <3>1. /\ n \in count .. CountModulus /\ n \notin held
          /\ \A m \in count .. n - 1 : m \in held
      BY <1>1, FirstMissingFound DEF COUNT
    <3> HIDE DEF n
    <3>2. n <= rx_next'
      <4>1. SUFFICES ASSUME n > rx_next' PROVE FALSE
        BY <1>1, <1>3, <3>1 DEF COUNT
      <4>2. rx_next' \in count .. n - 1
        BY <1>1, <1>2, <1>3, <3>1, <4>1, <2>1 DEF COUNT
      <4> QED
        BY <1>3, <3>1, <4>2 DEF COUNT
    <3>3. rx_deliv' = n
      BY <1>2, <2>1 DEF n
    <3>4. n # CountModulus
      BY <1>1, <1>3, <3>1, <3>2 DEF COUNT
    <3>5. n \in COUNT /\ rx_deliv <= n
      BY <1>1, <2>1, <3>1, <3>4 DEF COUNT
    <3>6. ASSUME NEW c \in rx_list' PROVE c > rx_deliv'
      <4>1. c \in held /\ c >= n /\ c # n
        BY <1>2, <3>1, <3>3
      <4> QED
        BY <1>1, <3>3, <3>5, <4>1 DEF COUNT
    <3> QED
      BY <3>2, <3>3, <3>5, <3>6
  <2>2. CASE count # rx_deliv
    BY <1>1, <1>2, <1>3, <2>2 DEF COUNT
  <2> QED
    BY <2>1, <2>2
<1>5. \A c \in up', d \in delivered : c > d
  BY <1>1, <1>2, <1>3 DEF COUNT
<1>6. \A c \in delivered' : c < rx_deliv'
  <2>1. ASSUME NEW c \in delivered PROVE c < rx_deliv'
    BY <1>1, <1>4 DEF COUNT
  <2>2. \A c \in up' : c < rx_deliv'
    BY <1>2
  <2> QED
    BY <1>2, <2>1, <2>2
<1>7. /\ t_reordering_start' \in BOOLEAN /\ rx_reord' \in COUNT
      /\ rx_deliv' < rx_next' => t_reordering_start'
      /\ t_reordering_start' => rx_deliv' < rx_reord' /\ rx_reord' <= rx_next'
  <2>1. /\ rx_deliv \in Int /\ rx_next \in Int /\ rx_reord \in Int
        /\ rx_deliv' \in Int /\ rx_next' \in Int
        /\ rx_deliv <= rx_deliv' /\ rx_next <= rx_next' /\ rx_deliv' <= rx_next'
    BY <1>1, <1>3, <1>4 DEF COUNT
  <2>2. CASE (~t_reordering_start \/ rx_deliv' >= rx_reord) /\ rx_deliv' < rx_next'
    <3>1. rx_reord' = rx_next' /\ t_reordering_start' = TRUE
      BY <1>1, <2>2 DEF StorePdu, UpdateTReordering
    <3> QED
      BY <1>3, <2>1, <2>2, <3>1
  <2>3. CASE ~((~t_reordering_start \/ rx_deliv' >= rx_reord) /\ rx_deliv' < rx_next')
    <3>1. /\ rx_reord' = rx_reord
          /\ t_reordering_start' = (t_reordering_start /\ ~(rx_deliv' >= rx_reord))
      BY <1>1, <2>3 DEF StorePdu, UpdateTReordering
    <3>2. /\ rx_reord' \in COUNT
          /\ t_reordering_start \in {TRUE, FALSE}
          /\ (rx_deliv' >= rx_reord) <=> ~(rx_deliv' < rx_reord)
      <4>1. rx_reord' \in COUNT
        BY <1>1, <3>1
      <4>2. t_reordering_start \in {TRUE, FALSE}
        BY <1>1, Zenon
      <4>3. (rx_deliv' >= rx_reord) <=> ~(rx_deliv' < rx_reord)
        BY <2>1
      <4> QED
        BY <4>1, <4>2, <4>3, Zenon
    <3>3. CASE t_reordering_start /\ rx_deliv' < rx_reord
      <4>1. t_reordering_start' = TRUE
        BY <3>1, <3>2, <3>3, Zenon
      <4>2. rx_reord <= rx_next'
        BY <1>1, <2>1, <3>3
      <4> QED
        BY <3>1, <3>2, <3>3, <4>1, <4>2
    <3>4. CASE ~(t_reordering_start /\ rx_deliv' < rx_reord)
      <4>1. t_reordering_start' = FALSE
        BY <3>1, <3>2, <3>4, Zenon
      <4>2. ~(rx_deliv' < rx_next')
        BY <1>1, <2>1, <2>3, <3>4
      <4> QED
        BY <3>2, <4>1, <4>2
    <3> QED
      BY <3>3, <3>4
  <2> QED
    BY <2>2, <2>3
<1>8. /\ \A c \in rx_list' : rx_deliv' < c /\ c < rx_next'
      /\ rx_list' # {} => t_reordering_start'
  <2>1. \A c \in rx_list' : rx_deliv' < c /\ c < rx_next'
    <3>1. rx_list' \subseteq held
      BY <1>2
    <3> HIDE DEF held
    <3> QED
      BY <1>1, <1>3, <1>4, <3>1 DEF COUNT
  <2>2. ASSUME NEW c \in rx_list' PROVE t_reordering_start'
    <3>1. rx_list' \subseteq held
      BY <1>2
    <3>2. c \in COUNT
      BY <1>1, <3>1
    <3>3. rx_deliv' < rx_next'
      BY <1>3, <1>4, <2>1, <3>2 DEF COUNT
    <3> QED
      BY <1>7, <3>3
  <2> QED
    BY <2>1, <2>2
<1>9. rx_list' \in SUBSET COUNT /\ up' \in SUBSET COUNT /\ delivered' \in SUBSET COUNT
  BY <1>1, <1>2
<1>10. entity' # "released"
  BY <1>2
<1>11. PdcpTypeOK'
  BY <1>2, <1>3, <1>4, <1>7, <1>9 DEF PdcpRxInv, PdcpTypeOK
<1>12. HeldIsTimed'
  BY <1>4, <1>7, <1>8 DEF HeldIsTimed
<1> QED
  BY <1>5, <1>6, <1>7, <1>10, <1>11, <1>12 DEF PdcpRxInv

\* check_t_reordering: t-Reordering waits for no more than was received, so
\* nothing wraps.
LEMMA ExpiryResult ==
    ASSUME PdcpRxInv, TReorderingExpires
    PROVE  /\ FirstMissing(rx_list, rx_reord) <= rx_next
           /\ rx_deliv' = FirstMissing(rx_list, rx_reord)
           /\ up' = {c \in rx_list : c < rx_deliv'}
           /\ delivered' = delivered \cup up'
           /\ rx_list' = {c \in rx_list : c >= rx_deliv'}
           /\ UNCHANGED <<entity_type, entity, t_reordering, rx_next>>
<1> DEFINE n == FirstMissing(rx_list, rx_reord)
<1>1. /\ CountModulus \in Nat \ {0}
      /\ rx_deliv \in COUNT /\ rx_next \in COUNT /\ rx_reord \in COUNT
      /\ rx_list \in SUBSET COUNT
      /\ delivered \in SUBSET COUNT
      /\ rx_deliv <= rx_next
      /\ \A c \in rx_list : rx_deliv < c /\ c < rx_next
      /\ rx_deliv < rx_reord /\ rx_reord <= rx_next
      /\ \A c \in delivered : c < rx_deliv
      /\ entity # "released"
  BY CountSpace DEF PdcpRxInv, PdcpTypeOK, HeldIsTimed, TReorderingExpires
<1>2. /\ rx_deliv' = n % CountModulus
      /\ up' = {c \in rx_list : c < n}
      /\ delivered' = delivered \cup up'
      /\ rx_list' = {c \in rx_list : c >= n}
      /\ UNCHANGED <<entity_type, entity, t_reordering, rx_next>>
  BY DEF TReorderingExpires, HandUp
<1>3. /\ n \in rx_reord .. CountModulus /\ n \notin rx_list
      /\ \A m \in rx_reord .. n - 1 : m \in rx_list
  BY <1>1, FirstMissingFound DEF COUNT
<1> HIDE DEF n
<1>4. n <= rx_next
  <2>1. SUFFICES ASSUME n > rx_next PROVE FALSE
    BY <1>1, <1>3 DEF COUNT
  <2>2. rx_next \in rx_reord .. n - 1
    BY <1>1, <1>3, <2>1 DEF COUNT
  <2> QED
    BY <1>1, <1>3, <2>2 DEF COUNT
<1>5. n \in COUNT /\ rx_deliv < n
  BY <1>1, <1>3, <1>4 DEF COUNT
<1>6. n % CountModulus = n
  BY <1>1, <1>5, ModSmall DEF COUNT
<1>7. n = FirstMissing(rx_list, rx_reord)
  BY DEF n
<1> QED
  BY <1>2, <1>4, <1>6, <1>7

\* check_t_reordering keeps the invariant.
LEMMA ExpiryKeepsInv ==
    ASSUME PdcpRxInv, TReorderingExpires
    PROVE  PdcpRxInv' /\ \A c \in up', d \in delivered : c > d
<1> DEFINE n == FirstMissing(rx_list, rx_reord)
<1>1. /\ CountModulus \in Nat \ {0}
      /\ rx_deliv \in COUNT /\ rx_next \in COUNT /\ rx_reord \in COUNT
      /\ rx_list \in SUBSET COUNT
      /\ delivered \in SUBSET COUNT
      /\ rx_deliv <= rx_next
      /\ \A c \in rx_list : rx_deliv < c /\ c < rx_next
      /\ rx_deliv < rx_reord /\ rx_reord <= rx_next
      /\ \A c \in delivered : c < rx_deliv
      /\ entity # "released"
  BY CountSpace DEF PdcpRxInv, PdcpTypeOK, HeldIsTimed, TReorderingExpires
<1>2. /\ rx_deliv' = n
      /\ up' = {c \in rx_list : c < rx_deliv'}
      /\ delivered' = delivered \cup up'
      /\ rx_list' = {c \in rx_list : c >= rx_deliv'}
      /\ UNCHANGED <<entity_type, entity, t_reordering, rx_next>>
  BY ExpiryResult
<1>3. /\ n \in rx_reord .. CountModulus /\ n \notin rx_list
      /\ \A m \in rx_reord .. n - 1 : m \in rx_list
  BY <1>1, FirstMissingFound DEF COUNT
<1>4. n <= rx_next
  BY ExpiryResult
<1> HIDE DEF n
<1>5. n \in COUNT /\ rx_deliv < n
  BY <1>1, <1>3, <1>4 DEF COUNT
<1>6. \A c \in rx_list' : rx_deliv' < c /\ c < rx_next'
  <2> TAKE c \in rx_list'
  <2>1. c \in rx_list /\ c >= n /\ c # n
    BY <1>2, <1>3
  <2> QED
    BY <1>1, <1>2, <1>5, <2>1 DEF COUNT
<1>7. /\ t_reordering_start' \in BOOLEAN /\ rx_reord' \in COUNT
      /\ rx_deliv' < rx_next' => t_reordering_start'
      /\ t_reordering_start' => rx_deliv' < rx_reord' /\ rx_reord' <= rx_next'
  <2>1. CASE rx_deliv' < rx_next
    <3>1. rx_reord' = rx_next /\ t_reordering_start' = TRUE
      BY <2>1 DEF TReorderingExpires, RestartTReordering
    <3> QED
      BY <1>1, <1>2, <2>1, <3>1 DEF COUNT
  <2>2. CASE ~(rx_deliv' < rx_next)
    <3>1. rx_reord' = rx_reord /\ t_reordering_start' = FALSE
      BY <2>2 DEF TReorderingExpires, RestartTReordering
    <3> QED
      BY <1>1, <1>2, <2>2, <3>1
  <2> QED
    BY <2>1, <2>2
<1>8. rx_list' # {} => t_reordering_start'
  <2>1. ASSUME NEW c \in rx_list' PROVE t_reordering_start'
    <3>1. c \in COUNT
      BY <1>1, <1>2
    <3>2. rx_deliv' < rx_next'
      BY <1>1, <1>2, <1>5, <1>6, <3>1 DEF COUNT
    <3> QED
      BY <1>7, <3>2
  <2> QED
    BY <2>1
<1>9. \A c \in up', d \in delivered : c > d
  <2> TAKE c \in up', d \in delivered
  <2>1. c \in rx_list
    BY <1>2
  <2> QED
    BY <1>1, <2>1 DEF COUNT
<1>10. \A c \in delivered' : c < rx_deliv'
  <2>1. ASSUME NEW c \in delivered PROVE c < rx_deliv'
    BY <1>1, <1>2, <1>5 DEF COUNT
  <2>2. \A c \in up' : c < rx_deliv'
    BY <1>2
  <2> QED
    BY <1>2, <2>1, <2>2
<1>11. PdcpTypeOK'
  <2>1. rx_list' \in SUBSET COUNT /\ up' \in SUBSET COUNT /\ delivered' \in SUBSET COUNT
    BY <1>1, <1>2
  <2> QED
    BY <1>2, <1>5, <1>7, <2>1 DEF PdcpRxInv, PdcpTypeOK
<1>12. HeldIsTimed'
  <2>1. rx_deliv' <= rx_next'
    BY <1>2, <1>4
  <2> QED
    BY <1>6, <1>7, <1>8, <2>1 DEF HeldIsTimed
<1> QED
  BY <1>1, <1>2, <1>7, <1>9, <1>10, <1>11, <1>12 DEF PdcpRxInv

\* A suspension and every re-establishment leave no SDU behind.
LEMMA ResetKeepsInv ==
    ASSUME PdcpRxInv, RxSuspend \/ RxReestablish
    PROVE  PdcpRxInv' /\ \A c \in up', d \in delivered : c > d
<1>1. /\ 0 \in COUNT
      /\ rx_list \in SUBSET COUNT /\ delivered \in SUBSET COUNT
      /\ rx_deliv \in COUNT
      /\ \A c \in rx_list : rx_deliv < c
      /\ rx_list # {} => t_reordering_start
      /\ \A c \in delivered : c < rx_deliv
      /\ entity # "released"
  BY CountSpace DEF PdcpRxInv, PdcpTypeOK, HeldIsTimed, RxSuspend, RxReestablish, COUNT
<1>2. \A c \in rx_list, d \in delivered : c > d
  BY <1>1 DEF COUNT
<1>3. CASE RxReestablish /\ ReestablishDrbAm
  BY <1>1, <1>3 DEF RxReestablish, ReestablishDrbAm, PdcpRxInv, PdcpTypeOK, HeldIsTimed
<1>4. CASE RxSuspend \/ (RxReestablish /\ ~ReestablishDrbAm)
  <2>1. /\ rx_list' = {} /\ up' \in SUBSET rx_list /\ RestartCount
        /\ entity' \in {"active", "suspended"}
        /\ UNCHANGED <<entity_type, t_reordering>>
    BY <1>1, <1>4 DEF RxSuspend, RxReestablish, ReestablishDrbUm, ReestablishSrb
  <2>2. up' \in SUBSET COUNT /\ \A c \in up', d \in delivered : c > d
    BY <1>1, <1>2, <2>1
  <2>3. /\ rx_next' = 0 /\ rx_deliv' = 0 /\ delivered' = {}
        /\ t_reordering_start' = FALSE /\ rx_reord' = rx_reord
    BY <2>1 DEF RestartCount
  <2>4. PdcpTypeOK'
    BY <1>1, <2>1, <2>2, <2>3 DEF PdcpRxInv, PdcpTypeOK
  <2> QED
    BY <2>1, <2>2, <2>3, <2>4 DEF PdcpRxInv, HeldIsTimed
<1> QED
  BY <1>3, <1>4

\* A PDU that is kept is held or goes up.
LEMMA StoredIsThere ==
    ASSUME PdcpTypeOK, NEW count \in COUNT, StorePdu(count)
    PROVE  count \in rx_list' \cup up'
<1> DEFINE held == rx_list \cup {count}
           stop == IF count = rx_deliv THEN FirstMissing(held, count) ELSE rx_deliv
<1>1. stop \in Nat
  <2>1. /\ held \in SUBSET COUNT /\ count \in 0 .. CountModulus
        /\ rx_deliv \in Nat /\ CountModulus \in Nat
    BY CountSpace DEF PdcpTypeOK, COUNT
  <2>2. FirstMissing(held, count) \in count .. CountModulus
    BY <2>1, FirstMissingFound
  <2> HIDE DEF held
  <2> QED
    BY <2>1, <2>2
<1>2. up' = {c \in held : c < stop} /\ rx_list' = {c \in held : c >= stop}
  BY DEF StorePdu, HandUp
<1>3. count \in held /\ count \in Nat
  BY DEF COUNT
<1> HIDE DEF held, stop
<1> QED
  BY <1>1, <1>2, <1>3

\* Every operation of the entity keeps the invariant.
LEMMA StepKeepsInv ==
    ASSUME PdcpRxInv, [RxNext]_rxVars, BelowTheWrap'
    PROVE  PdcpRxInv' /\ (UNCHANGED rxVars \/ \A c \in up', d \in delivered : c > d)
<1>1. ASSUME UNCHANGED <<entity_type, entity, t_reordering, t_reordering_start, rx_deliv,
                         rx_next, rx_reord, rx_list, delivered>>,
             up' \in SUBSET COUNT
      PROVE  PdcpRxInv'
  BY <1>1 DEF PdcpRxInv, PdcpTypeOK, HeldIsTimed
<1>2. CASE UNCHANGED rxVars
  BY <1>1, <1>2 DEF rxVars, PdcpRxInv, PdcpTypeOK
<1>3. ASSUME NEW sn \in SN, NEW intact \in BOOLEAN, RecvPdu(sn, intact)
      PROVE  PdcpRxInv' /\ \A c \in up', d \in delivered : c > d
  <2> DEFINE count == RcvdCount(rx_deliv, sn)
  <2>1. count \in COUNT /\ rx_deliv \in COUNT /\ entity # "released"
    BY <1>3, RcvdCountType DEF PdcpRxInv, PdcpTypeOK, RecvPdu
  <2>2. CASE Discarded(count, intact)
    <3>1. /\ up' = {}
          /\ UNCHANGED <<entity_type, entity, t_reordering, t_reordering_start, rx_deliv,
                         rx_next, rx_reord, rx_list, delivered>>
      BY <1>3, <2>2 DEF RecvPdu
    <3> QED
      BY <1>1, <3>1
  <2>3. CASE ~Discarded(count, intact)
    <3>1. StorePdu(count) /\ ~(count < rx_deliv) /\ count \notin rx_list
      BY <1>3, <2>3 DEF RecvPdu, Discarded
    <3>2. count >= rx_deliv
      BY <2>1, <3>1, CountSpace DEF COUNT
    <3> HIDE DEF count
    <3>3. count # CountModulus - 1
      BY <2>1, <3>1, StoredIsThere DEF BelowTheWrap, PdcpRxInv
    <3>4. count + 1 < CountModulus
      BY <2>1, <3>3, CountSpace DEF COUNT
    <3> QED
      BY <2>1, <3>1, <3>2, <3>4, StorePduKeepsInv
  <2> QED
    BY <2>2, <2>3
<1>4. CASE TReorderingExpires
  BY <1>4, ExpiryKeepsInv
<1>5. CASE RxSuspend \/ RxReestablish
  BY <1>5, ResetKeepsInv
<1>6. ASSUME NEW value \in {"finite", "infinite"}, Reconfigure(value)
      PROVE  PdcpRxInv' /\ \A c \in up', d \in delivered : c > d
  BY <1>6 DEF Reconfigure, PdcpRxInv, PdcpTypeOK, HeldIsTimed
<1>7. CASE Release
  <2>1. /\ rx_list \in SUBSET COUNT /\ delivered \in SUBSET COUNT /\ rx_deliv \in COUNT
        /\ \A c \in rx_list : rx_deliv < c
        /\ \A d \in delivered : d < rx_deliv
    BY <1>7 DEF PdcpRxInv, PdcpTypeOK, HeldIsTimed, Release
  <2>2. /\ up' \in SUBSET rx_list /\ delivered' = delivered \cup up' /\ rx_list' = {}
        /\ entity' = "released" /\ t_reordering_start' = FALSE
        /\ UNCHANGED <<entity_type, t_reordering, rx_deliv, rx_next, rx_reord>>
    BY <1>7 DEF Release, HandUp
  <2>3. \A c \in up', d \in delivered : c > d
    BY <2>1, <2>2, CountSpace DEF COUNT
  <2>4. up' \in SUBSET COUNT /\ delivered' \in SUBSET COUNT
    BY <2>1, <2>2
  <2> QED
    BY <2>2, <2>3, <2>4 DEF PdcpRxInv, PdcpTypeOK, HeldIsTimed
<1> QED
  BY <1>2, <1>3, <1>4, <1>5, <1>6, <1>7 DEF RxNext

\* The variables keep their types, whatever PDUs come in.
THEOREM PdcpRxTypeCorrect == RxSpec => []PdcpTypeOK
<1>1. RxInit => PdcpTypeOK
  <2>1. 0 \in COUNT
    BY CountSpace DEF COUNT
  <2> QED
    BY <2>1 DEF RxInit, PdcpTypeOK
<1>2. PdcpTypeOK /\ [RxNext]_rxVars => PdcpTypeOK'
  <2> SUFFICES ASSUME PdcpTypeOK, [RxNext]_rxVars PROVE PdcpTypeOK'
    OBVIOUS
  <2>1. /\ 0 \in COUNT /\ CountModulus \in Nat \ {0}
        /\ \A n \in Int : n % CountModulus \in COUNT
    <3>1. CountModulus \in Nat \ {0}
      BY CountSpace
    <3>2. \A n \in Int : n % CountModulus \in 0 .. CountModulus - 1
      BY <3>1, DivMod
    <3> QED
      BY <3>1, <3>2 DEF COUNT
  <2>2. ASSUME NEW sn \in SN, NEW intact \in BOOLEAN, RecvPdu(sn, intact)
        PROVE  PdcpTypeOK'
    <3> DEFINE count == RcvdCount(rx_deliv, sn)
    <3>1. count \in COUNT
      BY RcvdCountType DEF PdcpTypeOK
    <3>2. CASE ~StorePdu(count)
      BY <2>2, <3>2 DEF RecvPdu, PdcpTypeOK
    <3>3. CASE StorePdu(count)
      <4> HIDE DEF count
      <4> DEFINE held == rx_list \cup {count}
                 stop == IF count = rx_deliv THEN FirstMissing(held, count) ELSE rx_deliv
      <4>1. /\ held \in SUBSET COUNT /\ count \in 0 .. CountModulus
            /\ rx_deliv \in Int /\ count + 1 \in Int
        BY <2>1, <3>1 DEF PdcpTypeOK, COUNT
      <4>2. FirstMissing(held, count) \in Int
        BY <4>1, <2>1, FirstMissingFound
      <4>3. stop \in Int
        BY <4>1, <4>2
      <4>4. /\ rx_next' = IF count >= rx_next THEN (count + 1) % CountModulus ELSE rx_next
            /\ rx_deliv' = stop % CountModulus
            /\ up' \in SUBSET held
            /\ delivered' = delivered \cup up'
            /\ rx_list' \in SUBSET held
            /\ UNCHANGED <<entity_type, entity, t_reordering>>
        BY <3>3 DEF StorePdu, HandUp
      <4> HIDE DEF held, stop
      <4>5. rx_next' \in COUNT /\ rx_deliv' \in COUNT
        BY <2>1, <4>1, <4>3, <4>4 DEF PdcpTypeOK
      <4>6. rx_reord' \in {rx_next', rx_reord} /\ t_reordering_start' \in BOOLEAN
        BY <3>3 DEF StorePdu, UpdateTReordering, PdcpTypeOK
      <4> QED
        BY <4>1, <4>4, <4>5, <4>6 DEF PdcpTypeOK
    <3> QED
      BY <3>2, <3>3
  <2>3. CASE TReorderingExpires
    <3>1. /\ rx_list \in SUBSET COUNT /\ rx_reord \in 0 .. CountModulus
      BY <2>1 DEF PdcpTypeOK, COUNT
    <3>2. FirstMissing(rx_list, rx_reord) \in Int
      BY <2>1, <3>1, FirstMissingFound
    <3>3. rx_deliv' \in COUNT
      BY <2>1, <2>3, <3>2 DEF TReorderingExpires
    <3>4. /\ up' \in SUBSET rx_list /\ rx_list' \in SUBSET rx_list
          /\ delivered' = delivered \cup up'
          /\ rx_reord' \in {rx_next, rx_reord} /\ t_reordering_start' \in BOOLEAN
          /\ UNCHANGED <<entity_type, entity, t_reordering, rx_next>>
      BY <2>3 DEF TReorderingExpires, HandUp, RestartTReordering
    <3> QED
      BY <3>3, <3>4 DEF PdcpTypeOK
  <2>4. CASE RxSuspend
    BY <2>1, <2>4 DEF RxSuspend, RestartCount, PdcpTypeOK
  <2>5. CASE RxReestablish
    BY <2>1, <2>5 DEF RxReestablish, ReestablishDrbUm, ReestablishSrb, ReestablishDrbAm,
                      RestartCount, PdcpTypeOK
  <2>6. CASE (\E value \in {"finite", "infinite"} : Reconfigure(value)) \/ Release
    BY <2>6 DEF Reconfigure, Release, HandUp, PdcpTypeOK
  <2>7. CASE UNCHANGED rxVars
    BY <2>7 DEF rxVars, PdcpTypeOK
  <2> QED
    BY <2>2, <2>3, <2>4, <2>5, <2>6, <2>7 DEF RxNext
<1> QED
  BY <1>1, <1>2, PTL DEF RxSpec

\* The inductive invariant holds for any PDUs that come in, but for one with the
\* last COUNT.
THEOREM PdcpRxInvariant == RxSpec /\ []BelowTheWrap => []PdcpRxInv
<1>1. RxInit => PdcpRxInv
  <2>1. 0 \in COUNT
    BY CountSpace DEF COUNT
  <2>2. RxInit => PdcpTypeOK
    BY <2>1 DEF RxInit, PdcpTypeOK
  <2>3. RxInit => HeldIsTimed
    BY DEF RxInit, HeldIsTimed
  <2> QED
    BY <2>2, <2>3 DEF RxInit, PdcpRxInv
<1>2. PdcpRxInv /\ [RxNext]_rxVars /\ BelowTheWrap' => PdcpRxInv'
  BY StepKeepsInv
<1> QED
  BY <1>1, <1>2, PTL DEF RxSpec

\* recv_pdu, check_t_reordering, suspend and the re-establishments: no SDU is held
\* without a timer that will end the wait.
THEOREM PdcpHeldIsTimed == RxSpec /\ []BelowTheWrap => []HeldIsTimed
<1>1. PdcpRxInv => HeldIsTimed
  BY DEF PdcpRxInv
<1> QED
  BY <1>1, PdcpRxInvariant, PTL

\* recv_pdu, check_t_reordering and deliver_all_sdus: SDUs go up in order, and none
\* twice.
THEOREM PdcpInOrderOnce == RxSpec /\ []BelowTheWrap => InOrderOnce
<1>1. PdcpRxInv /\ [RxNext]_rxVars /\ BelowTheWrap' => [\A c \in up', d \in delivered : c > d]_rxVars
  BY StepKeepsInv
<1> QED
  BY <1>1, PdcpRxInvariant, PTL DEF RxSpec, InOrderOnce
=============================================================================
