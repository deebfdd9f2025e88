---------------------------- MODULE RlcAmStatus ----------------------------
(***************************************************************************)
(* The content of a status report: what nr_rlc_entity_am.c reports missing *)
(* (next_missing), how it is cut into NACK blocks (generate_missing), and  *)
(* what fits the buffer that MAC offers (generate_status).                 *)
(***************************************************************************)
EXTENDS RlcAmRx, RlcAmPdu, RlcLists

CONSTANT
    NackRange      \* most SNs in a NACK block: 255

ASSUME StatusAssumption == NackRange \in Nat \ {0}

\* The bytes of SDU sn that are missing, as maximal intervals: each starts at
\* byte 0 or after a received segment, and ends before the next received
\* byte, or is open when the end of the SDU was not received.
GapStarts(sn) ==
    LET segs == SegmentsOf(rx_list, sn)
    IN {b \in {0} \cup {l.so + l.size : l \in segs} :
           /\ b \notin Covered(rx_list, sn)
           /\ (\E l \in segs : l.last) => \E l \in segs : b < l.so}

Gap(sn, b) ==
    LET later == {l \in SegmentsOf(rx_list, sn) : l.so > b}
    IN [sn |-> sn, so_start |-> b,
        so_end |-> IF later = {} THEN ToEnd ELSE Min({l.so : l \in later}) - 1]

\* Everything missing below rx_highest_status
Gaps ==
    UNION {{Gap(sn, b) : b \in GapStarts(sn)} :
              sn \in {n \in SN : RxOffset(n) < RxOffset(rx_highest_status)}}

GapBefore(g, h) ==
    \/ RxOffset(g.sn) < RxOffset(h.sn)
    \/ g.sn = h.sn /\ g.so_start < h.so_start

\* next_missing, called until it returns sn_start = -1: the gaps in the order
\* of SN and byte, or nothing at all when the list is empty
MissingGaps == IF rx_list = {} THEN <<>> ELSE InOrder(Gaps, GapBefore)

\* Two gaps with no received byte between them are one missing interval
Joined(g, h) == g.so_end = ToEnd /\ h.so_start = 0 /\ h.sn = SnNext(g.sn)

\* Where gap i starts a missing interval
IntervalStart(gaps, i) ==
    Max({j \in 1 .. i : j = 1 \/ ~Joined(gaps[j - 1], gaps[j])})

\* generate_missing: intervals cut into blocks of at most NackRange SNs
BlockStarts(gaps) ==
    {i \in DOMAIN gaps : (i - IntervalStart(gaps, i)) % NackRange = 0}

\* The last gap of the block that starts with gap i
BlockEnd(gaps, i) ==
    LET next == {j \in BlockStarts(gaps) : j > i}
    IN IF next = {} THEN Len(gaps) ELSE Min(next) - 1

NackBlock(gaps, i) ==
    [sn |-> gaps[i].sn, so_start |-> gaps[i].so_start,
     so_end |-> gaps[BlockEnd(gaps, i)].so_end, range |-> BlockEnd(gaps, i) - i + 1]

NackBlocks ==
    LET gaps  == MissingGaps
        order == InOrder(BlockStarts(gaps), <)
    IN [k \in DOMAIN order |-> NackBlock(gaps, order[k])]

\* missing_size and status_size: the bytes of a report with the first k blocks
StatusSize(blocks, k) ==
    StatusHeader + SumFunctionOnSet([i \in DOMAIN blocks |-> NackSize(blocks[i])], 1 .. k)

\* How many of the blocks fit a buffer
Fit(blocks, size) == Max({k \in 0 .. Len(blocks) : StatusSize(blocks, k) <= size})

LastSn(n) == SnWrap(n.sn + n.range - 1)

\* (variants: so_end of a truncated report not changed; ACK_SN of a report
\* without NACK is rx_highest_status, though some NACKs may not have fit)
StatusReportNotForced(size) ==
    LET blocks == NackBlocks
        fit == Fit(blocks, size)
    IN [nacks |-> SubSeq(blocks, 1, fit),
        ack_sn |-> IF fit = 0 THEN rx_next ELSE SnNext(LastSn(blocks[fit]))]
StatusReportHighest(size) ==
    LET blocks == NackBlocks
        fit == Fit(blocks, size)
    IN [nacks |-> SubSeq(blocks, 1, fit),
        ack_sn |-> IF fit = 0 THEN rx_highest_status ELSE SnNext(LastSn(blocks[fit]))]

\* generate_status: the blocks that fit; if some do not, the last so_end put
\* is changed to "to the end"; ACK_SN follows the last NACK, or is rx_next.
StatusReport(size) ==
    LET blocks == NackBlocks
        fit == Fit(blocks, size)
        cut == fit < Len(blocks)
        nacks == [k \in 1 .. fit |->
                     IF cut /\ k = fit /\ HasSo(blocks[k])
                     THEN [blocks[k] EXCEPT !.so_end = ToEnd] ELSE blocks[k]]
    IN [nacks |-> nacks,
        ack_sn |-> IF fit = 0 THEN rx_next ELSE SnNext(LastSn(nacks[fit]))]

-----------------------------------------------------------------------------
(* Properties *)

\* The buffers MAC offers in which a report fits
ReportGrants == {size \in StatusGrants : size >= StatusHeader}

\* Every missing byte of the SDUs below ACK_SN is named by a NACK, a received
\* one only if the report was truncated; ACK_SN never passes rx_highest_status.
ReportIsExact ==
    LET Missing(sn, b) == ~SduDelivered(rx_list, sn) /\ b \notin Covered(rx_list, sn)
        HasEnd(sn) == \E l \in SegmentsOf(rx_list, sn) : l.last
    IN \A r \in {StatusReport(size) : size \in ReportGrants} :
        /\ RxOffset(r.ack_sn) <= RxOffset(rx_highest_status)
        /\ \A sn \in SN : RxOffset(sn) < RxOffset(r.ack_sn) =>
             /\ \A l \in SegmentsOf(rx_list, sn) : \A b \in 0 .. l.so :
                   Missing(sn, b) => Nacks(r, sn, b, b)
             /\ (~SduDelivered(rx_list, sn) /\ ~HasEnd(sn)) =>
                   \E part \in NackedParts(r.nacks, sn) : part.so_end = ToEnd
        /\ r.nacks = NackBlocks => \A l \in rx_list : \A b \in Bytes(l) :
              ~Nacks(r, l.sn, b, b)
=============================================================================
