---------------------------- MODULE RlcAmRxWalks ----------------------------
(***************************************************************************)
(* The tests of the receiver that walk over rx_list, step by step: the     *)
(* algorithms behind the set definitions of RlcAmRx.                       *)
(*                                                                         *)
(* nr_rlc_pdu_list_add sorts by (sn, so) and puts an entry behind those    *)
(* with the same sn and so.  Of two such entries the later is the longer:  *)
(* a shorter one is discarded as already received.                         *)
(*                                                                         *)
(* A walk is a function of the position: what the local variables of the   *)
(* loop are after that many entries of the list q.                         *)
(***************************************************************************)
EXTENDS RlcAmRx, RlcLists

\* cur comes before pdu in the list
Before(cur, pdu) ==
    \/ RxOffset(cur.sn) < RxOffset(pdu.sn)
    \/ cur.sn = pdu.sn /\ cur.so < pdu.so
    \/ cur.sn = pdu.sn /\ cur.so = pdu.so /\ cur.size < pdu.size

\* The list that the set rx_list stands for
RxList == InOrder(rx_list, Before)

-----------------------------------------------------------------------------
(* segment_already_received *)

\* What is left to look for, behind the entry l
LeftBehind(left, sn, l) ==
    IF left.size <= 0 \/ l.sn # sn THEN left
    ELSE IF left.so \in Bytes(l)
    THEN [so |-> l.so + l.size, size |-> left.size - (l.so + l.size - left.so)]
    ELSE IF left.so + left.size - 1 \in Bytes(l)
    THEN [left EXCEPT !.size = l.so - left.so]
    ELSE left

AlreadyReceivedWalk(q, pdu) ==
    LET left[i \in 0 .. Len(q)] ==
            IF i = 0 THEN [so |-> pdu.so, size |-> pdu.size]
            ELSE LeftBehind(left[i - 1], pdu.sn, q[i])
    IN left[Len(q)].size <= 0

-----------------------------------------------------------------------------
(* sdu_delivered, sdu_full, sdu_has_missing_bytes *)

\* "check if the data has already been processed": the first entry of sn
AlreadyProcessed(q, sn) ==
    \E i \in 1 .. Len(q) :
        /\ q[i].sn = sn /\ ~q[i].data
        /\ \A j \in 1 .. i - 1 : q[j].sn # sn

FurtherByte(last_byte, l) == Max({last_byte, l.so + l.size - 1})

FullBehind(s, sn, l) ==
    IF s.done \/ l.sn # sn THEN s
    ELSE IF l.so > s.last_byte + 1 THEN [s EXCEPT !.done = TRUE]
    ELSE IF l.last THEN [s EXCEPT !.done = TRUE, !.full = TRUE]
    ELSE [s EXCEPT !.last_byte = FurtherByte(s.last_byte, l)]

SduFullWalk(q, sn) ==
    LET s[i \in 0 .. Len(q)] ==
            IF i = 0 THEN [last_byte |-> -1, done |-> FALSE, full |-> FALSE]
            ELSE FullBehind(s[i - 1], sn, q[i])
    IN ~AlreadyProcessed(q, sn) /\ s[Len(q)].full

HoleBehind(s, sn, l) ==
    IF s.hole \/ l.sn # sn THEN s
    ELSE IF l.so > s.last_byte + 1 THEN [s EXCEPT !.hole = TRUE]
    ELSE [s EXCEPT !.last_byte = FurtherByte(s.last_byte, l)]

\* (variant: the first byte taken for received)
HasMissingBytesWalkFrom0(q, sn) ==
    LET s[i \in 0 .. Len(q)] ==
            IF i = 0 THEN [last_byte |-> 0, hole |-> FALSE]
            ELSE HoleBehind(s[i - 1], sn, q[i])
    IN ~AlreadyProcessed(q, sn) /\ s[Len(q)].hole

HasMissingBytesWalk(q, sn) ==
    LET s[i \in 0 .. Len(q)] ==
            IF i = 0 THEN [last_byte |-> -1, hole |-> FALSE]
            ELSE HoleBehind(s[i - 1], sn, q[i])
    IN ~AlreadyProcessed(q, sn) /\ s[Len(q)].hole

-----------------------------------------------------------------------------
(* Properties *)

\* The tests of the receiver, made by one pass over a list whose entries may
\* overlap after a resegmentation, or by a look at the first entry of an SDU,
\* answer what the sets of bytes say.
ReceiverWalksAgree ==
    \A q \in {RxList} :
        /\ \A pdu \in Pdus :
              AlreadyReceivedWalk(q, pdu) = SegmentAlreadyReceived(rx_list, pdu)
        /\ \A sn \in SN :
              /\ AlreadyProcessed(q, sn) = SduDelivered(rx_list, sn)
              /\ SduFullWalk(q, sn) = SduFull(rx_list, sn)
              /\ HasMissingBytesWalk(q, sn) = SduHasMissingBytes(rx_list, sn)
=============================================================================
