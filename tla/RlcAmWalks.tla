----------------------------- MODULE RlcAmWalks -----------------------------
(***************************************************************************)
(* The generation of a status report, step by step: the three functions of *)
(* nr_rlc_entity_am.c that walk over rx_list for it, behind the definition *)
(* of the report as a set of gaps in RlcAmStatus.                          *)
(*                                                                         *)
(* A loop is a function of the number of its steps, or of the position in  *)
(* the list; a pointer to an entry is its position, 0 for NULL.            *)
(***************************************************************************)
EXTENDS RlcAmStatus, RlcAmRxWalks

-----------------------------------------------------------------------------
(* next_missing: the next missing interval from entry i on, [sn_start,     *)
(* so_start, sn_end, so_end, next]                                         *)

NothingMissing == [sn_start |-> -1, so_start |-> 0, sn_end |-> 0, so_end |-> 0, next |-> 0]

OutOfReport(sn) == RxOffset(rx_highest_status) <= RxOffset(sn)

UpToHighestStatus(sn, so) ==
    [sn_start |-> sn, so_start |-> so,
     sn_end |-> SnPrev(rx_highest_status), so_end |-> ToEnd, next |-> 0]

\* (variant: not limited to rx_highest_status - 1)
EndDifferentSduUnbounded(q, i, sn, so) ==
    LET l == q[i]
    IN [sn_start |-> sn, so_start |-> so,
        sn_end |-> IF l.so = 0 THEN SnPrev(l.sn) ELSE l.sn,
        so_end |-> IF l.so = 0 THEN ToEnd ELSE l.so - 1, next |-> i]

\* label set_end_different_sdu: the interval ends before entry i
EndDifferentSdu(q, i, sn, so) ==
    LET l == q[i]
        sn_end == IF l.so = 0 THEN SnPrev(l.sn) ELSE l.sn
    IN IF OutOfReport(sn_end) THEN UpToHighestStatus(sn, so)
       ELSE [sn_start |-> sn, so_start |-> so, sn_end |-> sn_end,
             so_end |-> IF l.so = 0 THEN ToEnd ELSE l.so - 1, next |-> i]

\* label next_pdu: what is known of the SDU of the entry n, when the walk goes
\* on to it from the entry l
SeenFrom(n) == [max_so |-> FurtherByte(0, n), last |-> n.last]

SeenBehind(s, l, n) ==
    IF n.sn = l.sn
    THEN [max_so |-> FurtherByte(s.max_so, n), last |-> s.last \/ n.last]
    ELSE SeenFrom(n)

\* "no discontinuity in data => process to next PDU"
Continues(s, l, n) ==
    \/ n.sn = l.sn /\ s.max_so >= n.so - 1
    \/ n.sn = SnNext(l.sn) /\ s.last /\ n.so = 0

\* From entry i the walk stops at entry j, having seen s.
Discontinuity(q, j, s) ==
    LET l  == q[j]
        sn == IF s.last THEN SnNext(l.sn) ELSE l.sn
        so == IF s.last THEN 0 ELSE s.max_so + 1
    IN IF j = Len(q)
       THEN LET start == IF l.data THEN sn ELSE SnNext(l.sn)
            IN IF OutOfReport(start) THEN NothingMissing
               ELSE UpToHighestStatus(start, IF l.data THEN so ELSE 0)
       ELSE IF q[j + 1].sn = l.sn
       THEN IF OutOfReport(l.sn) THEN NothingMissing
            ELSE [sn_start |-> l.sn, so_start |-> s.max_so + 1,
                  sn_end |-> l.sn, so_end |-> q[j + 1].so - 1, next |-> j + 1]
       ELSE IF OutOfReport(sn) THEN NothingMissing
       ELSE EndDifferentSdu(q, j + 1, sn, so)

NextPdu(q, i) ==
    LET s[j \in i .. Len(q)] ==
            IF j = i THEN SeenFrom(q[i]) ELSE SeenBehind(s[j - 1], q[j - 1], q[j])
        stop == Min({j \in i .. Len(q) : j = Len(q) \/ ~Continues(s[j], q[j], q[j + 1])})
    IN Discontinuity(q, stop, s[stop])

NextMissing(q, i, check_head) ==
    IF check_head /\ (q[i].sn # rx_next \/ q[i].so # 0)
    THEN IF OutOfReport(rx_next) THEN NothingMissing
         ELSE EndDifferentSdu(q, i, rx_next, 0)
    ELSE NextPdu(q, i)

-----------------------------------------------------------------------------
(* generate_missing and generate_status *)

\* One turn of "while (sn_count)", for the interval m: a block of it, if there
\* is room; the report so far is [nacks, byte, cut].
PutNack(m, size, s) ==
    LET count == Min({s.sn_count, NackRange})
        block == [sn |-> s.sn_start,
                  so_start |-> IF s.sn_start = m.sn_start THEN m.so_start ELSE 0,
                  so_end |-> IF count = s.sn_count THEN m.so_end ELSE ToEnd,
                  range |-> count]
    IN IF s.sn_count = 0 \/ s.out.cut THEN s
       ELSE IF s.out.byte + NackSize(block) > size THEN [s EXCEPT !.out.cut = TRUE]
       ELSE [sn_count |-> s.sn_count - count,
             sn_start |-> SnWrap(s.sn_start + count),
             out |-> [nacks |-> Append(s.out.nacks, block),
                      byte |-> s.out.byte + NackSize(block), cut |-> FALSE]]

GenerateMissing(m, size, out) ==
    LET sn_count == Modulus(m.sn_start, m.sn_end) + 1
        s[k \in 0 .. sn_count] ==
            IF k = 0 THEN [sn_count |-> sn_count, sn_start |-> m.sn_start, out |-> out]
            ELSE PutNack(m, size, s[k - 1])
    IN s[sn_count].out

\* One turn of "while (cur != NULL)"
PutMissing(q, size, s) ==
    LET m   == NextMissing(q, s.cur, s.check_head)
        put == GenerateMissing(m, size, s.out)
    IN IF s.cur = 0 THEN s
       ELSE IF m.sn_start = -1 THEN [s EXCEPT !.cur = 0]
       ELSE [cur |-> IF put.cut THEN 0 ELSE m.next, check_head |-> FALSE, out |-> put]

\* The blocks of a report.  Each call of next_missing but the first returns an
\* entry further on in the list.
GenerateBlocks(q, size) ==
    LET s[k \in 0 .. Len(q) + 1] ==
            IF k = 0
            THEN [cur |-> IF q = <<>> THEN 0 ELSE 1, check_head |-> TRUE,
                  out |-> [nacks |-> <<>>, byte |-> StatusHeader, cut |-> FALSE]]
            ELSE PutMissing(q, size, s[k - 1])
    IN s[Len(q) + 1].out

\* When the generation is truncated, so_end of the last block becomes "to the
\* end", if it has one.
GenerateStatusWalk(q, size) ==
    LET out   == GenerateBlocks(q, size)
        n     == Len(out.nacks)
        nacks == IF out.cut /\ n > 0 /\ HasSo(out.nacks[n])
                 THEN [out.nacks EXCEPT ![n].so_end = ToEnd] ELSE out.nacks
    IN [nacks |-> nacks, ack_sn |-> IF n = 0 THEN rx_next ELSE SnNext(LastSn(nacks[n]))]

-----------------------------------------------------------------------------
(* Properties *)

\* next_missing, which its author calls too messy, with generate_missing and
\* generate_status above it: whatever the buffer, the report lists the missing
\* bytes below rx_highest_status and no other, in order, as far as they fit.
StatusWalkAgrees ==
    \A q \in {RxList} : \A size \in ReportGrants :
        GenerateStatusWalk(q, size) = StatusReport(size)
=============================================================================
