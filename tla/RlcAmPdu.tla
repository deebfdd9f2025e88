----------------------------- MODULE RlcAmPdu -----------------------------
(***************************************************************************)
(* What the two ends of an NR RLC AM link exchange: the header sizes of a  *)
(* data PDU, and the meaning of a status report.                           *)
(*                                                                         *)
(* A status report is [ack_sn, nacks]; a NACK block is                     *)
(* [sn, so_start, so_end, range], where so_end = ToEnd stands for 0xffff,  *)
(* "all bytes to the end".                                                 *)
(***************************************************************************)
EXTENDS RlcSn, Sequences

CONSTANT
    SnBytes        \* bytes of a header up to the SN: 2 (12 bits) or 3 (18 bits)

ASSUME PduAssumption == SnBytes \in {2, 3}

ToEnd == -1

StatusHeader == 3

\* compute_pdu_header_size: two more bytes when the segment is not the first
HeaderSize(so) == SnBytes + (IF so = 0 THEN 0 ELSE 2)

\* e2: the block carries so_start and so_end
HasSo(n) == ~(n.so_start = 0 /\ n.so_end = ToEnd)

\* nack_size
NackSize(n) ==
    SnBytes + (IF HasSo(n) THEN 4 ELSE 0) + (IF n.range > 1 THEN 1 ELSE 0)

\* The SNs of a NACK block
NackedSns(n) == {SnWrap(n.sn + i) : i \in 0 .. n.range - 1}

\* The "for (i < range)" loops of process_control_pdu: what one block says of
\* each of its SNs.  Only the first starts at so_start, only the last stops
\* at so_end.
NackedParts(nacks, sn) ==
    UNION {{[so_start |-> IF i = 0 THEN nacks[k].so_start ELSE 0,
             so_end   |-> IF i = nacks[k].range - 1 THEN nacks[k].so_end ELSE ToEnd] :
              i \in {j \in 0 .. nacks[k].range - 1 : SnWrap(nacks[k].sn + j) = sn}} :
              k \in DOMAIN nacks}

\* (variant: the last byte of the NACK forgotten)
OverlapsExclusive(part, first, last) ==
    IF part.so_start < first
    THEN part.so_end = ToEnd \/ part.so_end > first
    ELSE part.so_start <= last

\* so_overlap, for the bytes first .. last of a segment
Overlaps(part, first, last) ==
    IF part.so_start < first
    THEN part.so_end = ToEnd \/ part.so_end >= first
    ELSE part.so_start <= last

\* Some byte of first .. last of SDU sn is reported missing
Nacks(report, sn, first, last) ==
    \E part \in NackedParts(report.nacks, sn) : Overlaps(part, first, last)
=============================================================================
