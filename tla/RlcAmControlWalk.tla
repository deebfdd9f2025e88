-------------------------- MODULE RlcAmControlWalk --------------------------
(***************************************************************************)
(* The merge that process_control_pdu (nr_rlc_entity_am.c) makes of the    *)
(* wait list, the retransmit list and the NACKs of a report, step by step: *)
(* the algorithm behind the definitions Moved, StaysWaiting,               *)
(* StaysRetransmit and Freed of RlcAmTx.                                   *)
(*                                                                         *)
(* The state of the walk is a record: kept and wait are the part of the    *)
(* wait list behind and from cur_wait_list on, new is the list that ends   *)
(* at new_retransmit_list, retransmit what is left from                    *)
(* cur_retransmit_list on, moved and freed are the segments taken out.     *)
(***************************************************************************)
EXTENDS RlcAmLink

\* What the "for (i < range)" loop computes for each SN of each block
NackParts(report) ==
    FlattenSeq([k \in DOMAIN report.nacks |->
        LET n == report.nacks[k]
        IN [i \in 1 .. n.range |->
               [sn |-> SnWrap(n.sn + i - 1),
                so_start |-> IF i = 1 THEN n.so_start ELSE 0,
                so_end |-> IF i = n.range THEN n.so_end ELSE ToEnd]]])

Hit(part, seg) == seg.sn = part.sn /\ Overlaps(part, seg.so, LastByte(seg))

\* (variant: the bytes of the segment not looked at)
BeyondSnOnly(part, seg) == TxOffset(seg.sn) >= TxOffset(part.sn)

\* "we can't classify it yet": the segment comes after the start of the NACK
Beyond(part, seg) == After(seg, [sn |-> part.sn, so |-> part.so_start])

\* label process_next_pdu, with one NACK
RECURSIVE ProcessNack(_, _, _)
ProcessNack(s, part, ack) ==
    IF s.wait = <<>> /\ s.retransmit = <<>> THEN s
    ELSE IF s.retransmit = <<>> \/ (s.wait # <<>> /\ After(s.retransmit[1], s.wait[1]))
    THEN LET seg  == s.wait[1]
             rest == [s EXCEPT !.wait = Tail(@)]
         IN IF Hit(part, seg)
            THEN ProcessNack([rest EXCEPT !.new = Append(@, seg), !.moved = Append(@, seg)],
                             part, ack)
            ELSE IF Beyond(part, seg) THEN s
            ELSE IF TxOffset(seg.sn) < TxOffset(ack)
            THEN ProcessNack([rest EXCEPT !.freed = Append(@, seg)], part, ack)
            ELSE IF seg.sn # ack
            THEN ProcessNack([s EXCEPT !.kept = @ \o s.wait, !.wait = <<>>], part, ack)
            ELSE ProcessNack([rest EXCEPT !.kept = Append(@, seg)], part, ack)
    ELSE LET seg  == s.retransmit[1]
             rest == [s EXCEPT !.retransmit = Tail(@)]
         IN IF Hit(part, seg)
            THEN ProcessNack([rest EXCEPT !.new = Append(@, seg)], part, ack)
            ELSE IF Beyond(part, seg) THEN s
            ELSE IF TxOffset(seg.sn) < TxOffset(ack)
            THEN ProcessNack([rest EXCEPT !.freed = Append(@, seg)], part, ack)
            ELSE IF s.wait = <<>> THEN [s EXCEPT !.retransmit = <<>>]
            ELSE ProcessNack([rest EXCEPT !.new = Append(@, seg)], part, ack)

\* "nacks done, finish with ack"
FinishWithAck(s, ack) ==
    LET Below(list) == SelectSeq(list, LAMBDA seg : TxOffset(seg.sn) < TxOffset(ack))
        From(list)  == SelectSeq(list, LAMBDA seg : TxOffset(seg.sn) >= TxOffset(ack))
    IN [wait |-> s.kept \o From(s.wait),
        retransmit |-> s.new \o From(s.retransmit),
        moved |-> s.moved,
        freed |-> s.freed \o Below(s.wait) \o Below(s.retransmit)]

ControlPduWalk(report) ==
    FinishWithAck(
        FoldLeft(LAMBDA s, part : ProcessNack(s, part, report.ack_sn),
                 [kept |-> <<>>, wait |-> wait_list, new |-> <<>>,
                  retransmit |-> retransmit_list, moved |-> <<>>, freed |-> <<>>],
                 NackParts(report)),
        report.ack_sn)

\* The merge, with its eight labels and jumps, moves, keeps and frees what the
\* NACKs and ACK_SN say of each segment alone - for any report that arrives at
\* any moment of a transmission with segments in both lists.
ControlWalkAgrees ==
    \A r \in status_air : ValidReport(r.report) =>
        LET walk == ControlPduWalk(r.report)
            freed == Freed(r.report)
        IN /\ walk.wait = StaysWaiting(r.report)
           /\ walk.retransmit = ListAddAll(StaysRetransmit(r.report), Moved(r.report))
           /\ walk.moved = Moved(r.report)
           /\ Range(walk.freed) = Range(freed) /\ Len(walk.freed) = Len(freed)
=============================================================================
