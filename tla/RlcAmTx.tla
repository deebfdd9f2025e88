------------------------------ MODULE RlcAmTx ------------------------------
(***************************************************************************)
(* Sending side of the NR RLC AM entity: the queue of SDUs, segmentation,  *)
(* the transmission window, polling, retransmission, and the processing of *)
(* the peer's status reports.                                              *)
(*                                                                         *)
(* Source: openair2/LAYER2/nr_rlc/nr_rlc_entity_am.c, nr_rlc_sdu.c.        *)
(*                                                                         *)
(* An SDU is known by the number the upper layer gave it (upper_layer_id). *)
(* A segment is [sdu, sn, so, size, last]; the sn of its SDU is NoSn until *)
(* the first PDU of the SDU is built.  The three linked lists of the code  *)
(* are sequences of segments; tx_end and wait_end are the segments they    *)
(* point at.                                                               *)
(*                                                                         *)
(* A timer is a flag "running" that may expire whenever it runs.           *)
(***************************************************************************)
EXTENDS RlcAmPdu, RlcLists, FiniteSets, SequencesExt

CONSTANTS
    SduSize,       \* bytes of SDU i, for the SDUs 1 .. Len(SduSize) of the upper layer
    TxMaxSize,     \* entity->tx_maxsize, in bytes
    Grants,        \* sizes of the buffers MAC offers
    PollPdu,       \* entity->poll_pdu, -1 for infinity
    PollByte,      \* entity->poll_byte, -1 for infinity
    MaxRetx,       \* entity->max_retx_threshold
    HarqProcesses  \* most PDUs that are in flight

ASSUME TxAssumption ==
    /\ SduSize \in Seq(Nat \ {0})
    /\ TxMaxSize \in Nat
    /\ Grants \subseteq Nat
    /\ PollPdu \in Nat \cup {-1}
    /\ PollByte \in Nat \cup {-1}
    /\ MaxRetx \in Nat \ {0}
    /\ HarqProcesses \in Nat \ {0}

VARIABLES
    tx_list, tx_end,          \* segments not yet sent
    wait_list, wait_end,      \* segments sent, waiting for an acknowledgment
    retransmit_list,          \* segments to send again
    sdu,                      \* counters of the SDUs that have segments
    tx_size,                  \* bytes of the SDUs held
    bstatus,                  \* [tx_size, retx_size]: what MAC is told
    tx_next, tx_next_ack, poll_sn,
    pdu_without_poll, byte_without_poll, force_poll,
    t_poll_retransmit,        \* timer running
    offered,                  \* SDUs the upper layer has submitted so far
    last_sent,                \* the last SDU that was given an SN (history)
    confirmed,                \* SDUs for which sdu_successful_delivery was called
    dropped,                  \* SDUs rejected, discarded, or cleared
    rlf,                      \* max_retx_reached was called
    crashed,                  \* the process has dereferenced a null pointer
    data_air                  \* data PDUs handed to MAC, in flight

listVars  == <<tx_list, tx_end, wait_list, wait_end, retransmit_list>>
sizeVars  == <<tx_size, bstatus>>
snVars    == <<tx_next, tx_next_ack, last_sent>>
pollVars  == <<poll_sn, pdu_without_poll, byte_without_poll, force_poll, t_poll_retransmit>>
upperVars == <<offered, confirmed, dropped, rlf>>
txVars    == <<listVars, sizeVars, snVars, pollVars, upperVars, sdu, crashed, data_air>>

NoSn == -1
NoSegment == [sdu |-> 0, sn |-> NoSn, so |-> 0, size |-> 0, last |-> FALSE]

AllSdus == DOMAIN SduSize

\* retx_count is only ever compared with MaxRetx times a ref_count, and an
\* SDU has at most one segment per byte: counting stops there.
RetxCap == MaxRetx * Max({SduSize[i] : i \in AllSdus} \cup {1})

-----------------------------------------------------------------------------
(* Lists of segments *)

PduSize(seg) == HeaderSize(seg.so) + seg.size

LastByte(seg) == seg.so + seg.size - 1

TxOffset(sn) == Modulus(tx_next_ack, sn)

\* the test of nr_rlc_tx_sdu_segment_list_add: cur comes after seg
After(cur, seg) ==
    \/ TxOffset(cur.sn) > TxOffset(seg.sn)
    \/ cur.sn = seg.sn /\ cur.so > seg.so

\* (variant: at the end, unsorted)
ListAddLast(list, seg) == Append(list, seg)

\* nr_rlc_tx_sdu_segment_list_add
ListAdd(list, seg) ==
    LET later == {i \in DOMAIN list : After(list[i], seg)}
    IN IF later = {} THEN Append(list, seg) ELSE InsertAt(list, Min(later), seg)

\* nr_rlc_sdu_segment_list_append: link seg after the segment "end" points at;
\* what followed it, if anything did, is lost
ListAppend(list, end, seg) ==
    IF list = <<>> THEN <<seg>>
    ELSE Append(SubSeq(list, 1, CHOOSE i \in DOMAIN list : list[i] = end), seg)

\* The segments of a list added one after the other to another list
ListAddAll(list, segs) ==
    LET added[k \in 0 .. Len(segs)] ==
            IF k = 0 THEN list ELSE ListAdd(added[k - 1], segs[k])
    IN added[Len(segs)]

Sizes(segs) ==
    SumFunctionOnSet([i \in DOMAIN segs |-> PduSize(segs[i])], DOMAIN segs)

-----------------------------------------------------------------------------
(* SDUs from the upper layer *)

\* nr_rlc_entity_am_recv_sdu; a full buffer rejects the SDU without a word
RecvSdu(id) ==
    LET seg == [sdu |-> id, sn |-> NoSn, so |-> 0, size |-> SduSize[id], last |-> TRUE]
    IN /\ id = offered + 1
       /\ offered' = id
       /\ IF tx_size + SduSize[id] > TxMaxSize
          THEN /\ dropped' = dropped \cup {id}
               /\ UNCHANGED <<tx_list, tx_end, sdu, sizeVars>>
          ELSE /\ tx_size' = tx_size + SduSize[id]
               /\ sdu' = [i \in DOMAIN sdu \cup {id} |->
                           IF i = id THEN [retx_count |-> -1, ref_count |-> 1, free_count |-> 0]
                           ELSE sdu[i]]
               /\ tx_list' = ListAppend(tx_list, tx_end, seg)
               /\ tx_end' = seg
               /\ bstatus' = [bstatus EXCEPT !.tx_size = @ + PduSize(seg)]
               /\ UNCHANGED dropped
       /\ UNCHANGED <<wait_list, wait_end, retransmit_list, snVars, pollVars,
                      confirmed, rlf, crashed, data_air>>

\* tx_end after entry i of tx_list was taken out
\* (variant: not updated)
TxEndNotUpdated(i) == tx_end
TxEndWithout(i) ==
    IF tx_end # tx_list[i] THEN tx_end
    ELSE IF i = 1 THEN NoSegment ELSE tx_list[i - 1]

\* bstatus after seg was taken out of tx_list
\* (variant: without the header)
BufferStatusNoHeader(seg) == [bstatus EXCEPT !.tx_size = @ - seg.size]
BufferStatusWithout(seg) == [bstatus EXCEPT !.tx_size = @ - PduSize(seg)]

\* nr_rlc_entity_am_discard_sdu: only an SDU no byte of which was sent
DiscardSdu(id) ==
    /\ \E i \in DOMAIN tx_list :
          LET seg == tx_list[i]
          IN /\ seg.sdu = id
             /\ \A j \in 1 .. i - 1 : tx_list[j].sdu # id
             /\ seg.so = 0 /\ seg.last
             /\ tx_list' = RemoveAt(tx_list, i)
             /\ tx_end' = TxEndWithout(i)
             /\ bstatus' = BufferStatusWithout(seg)
             /\ tx_size' = tx_size - SduSize[id]
    /\ sdu' = Restrict(sdu, DOMAIN sdu \ {id})
    /\ dropped' = dropped \cup {id}
    /\ UNCHANGED <<wait_list, wait_end, retransmit_list, snVars, pollVars,
                   offered, confirmed, rlf, crashed, data_air>>

-----------------------------------------------------------------------------
(* Building PDUs: nr_rlc_entity_am_generate_pdu *)

WindowStalling(ack, next) == ~(Modulus(ack, next) < WindowSize)

\* check_poll_after_pdu_assembly
PollAfterAssembly(tx, retransmit, ack, next) ==
    \/ tx = <<>> /\ retransmit = <<>>
    \/ WindowStalling(ack, next)

\* resegment: the part of seg that fits a buffer of "size" bytes ...
FrontPart(seg, size) ==
    [seg EXCEPT !.size = size - HeaderSize(seg.so), !.last = FALSE]

\* (variant: the size not reduced)
BackPartTooLong(seg, size) == [seg EXCEPT !.so = seg.so + size - HeaderSize(seg.so)]

\* ... and the rest
BackPart(seg, size) ==
    LET front == size - HeaderSize(seg.so)
    IN [seg EXCEPT !.so = seg.so + front, !.size = seg.size - front]

Cut(seg, size) == PduSize(seg) > size

\* (variant: always at the end)
MoveToWaitEnd(seg) ==
    wait_list' = ListAppend(wait_list, wait_end, seg) /\ wait_end' = seg

\* Putting a segment that was just sent in the wait list, with the shortcut
\* through wait_end
MoveToWait(seg) ==
    IF \/ wait_end = NoSegment
       \/ After(seg, wait_end)
    THEN wait_list' = ListAppend(wait_list, wait_end, seg) /\ wait_end' = seg
    ELSE /\ wait_list' = ListAdd(wait_list, seg)
         /\ wait_end' = IF Len(wait_list') = 1 THEN seg ELSE wait_end

\* serialize_sdu and include_poll: the PDU is in flight, possibly with a poll.
\* HARQ holds a PDU for far less time than it takes to send a whole window:
\* a PDU is gone once WindowSize younger SDUs were sent.
Emit(seg, poll, pdus, bytes) ==
    /\ data_air' = {d \in data_air : d.sdu + WindowSize > last_sent'}
                   \cup {[sn |-> seg.sn, so |-> seg.so, size |-> seg.size,
                          last |-> seg.last, sdu |-> seg.sdu, p |-> poll]}
    /\ pdu_without_poll' = IF poll THEN 0 ELSE pdus
    /\ byte_without_poll' = IF poll THEN 0 ELSE bytes
    /\ poll_sn' = IF poll THEN SnPrev(tx_next') ELSE poll_sn
    /\ t_poll_retransmit' = (poll \/ t_poll_retransmit)
    /\ force_poll' = FALSE

\* (variant: off by one)
CanRetransmitTwoBytes(size) ==
    /\ retransmit_list # <<>>
    /\ HeaderSize(Head(retransmit_list).so) + 1 < size

CanRetransmit(size) ==
    /\ retransmit_list # <<>>
    /\ HeaderSize(Head(retransmit_list).so) + 1 <= size

\* generate_retx_pdu
GenerateRetxPdu(size) ==
    /\ CanRetransmit(size)
    /\ LET seg  == Head(retransmit_list)
           cut  == Cut(seg, size)
           sent == IF cut THEN FrontPart(seg, size) ELSE seg
           rest == BackPart(seg, size)
       IN /\ retransmit_list' = (IF cut THEN <<rest>> ELSE <<>>) \o Tail(retransmit_list)
          /\ sdu' = IF cut THEN [sdu EXCEPT ![seg.sdu].ref_count = @ + 1] ELSE sdu
          /\ bstatus' = [bstatus EXCEPT !.retx_size =
                            @ - PduSize(seg) + (IF cut THEN PduSize(rest) ELSE 0)]
          /\ MoveToWait(sent)
          /\ UNCHANGED <<tx_list, tx_end, tx_size, snVars, upperVars, crashed>>
          /\ Emit(sent,
                  \/ PollAfterAssembly(tx_list, retransmit_list', tx_next_ack, tx_next)
                  \/ force_poll,
                  pdu_without_poll, byte_without_poll)

CanTransmit(size) ==
    /\ ~WindowStalling(tx_next_ack, tx_next)
    /\ tx_list # <<>>
    /\ HeaderSize(Head(tx_list).so) + 1 <= size

\* generate_tx_pdu
GenerateTxPdu(size) ==
    /\ CanTransmit(size)
    /\ LET head  == Head(tx_list)
           seg   == IF head.sn = NoSn THEN [head EXCEPT !.sn = tx_next] ELSE head
           cut   == Cut(seg, size)
           sent  == IF cut THEN FrontPart(seg, size) ELSE seg
           rest  == BackPart(seg, size)
           pdus  == pdu_without_poll + 1
           bytes == byte_without_poll + sent.size
       IN /\ tx_next' = IF head.sn = NoSn THEN SnNext(tx_next) ELSE tx_next
          /\ last_sent' = IF head.sn = NoSn THEN head.sdu ELSE last_sent
          /\ tx_list' = (IF cut THEN <<rest>> ELSE <<>>) \o Tail(tx_list)
          /\ tx_end' = IF Tail(tx_list) # <<>> THEN tx_end
                       ELSE IF cut THEN rest ELSE NoSegment
          /\ sdu' = IF cut THEN [sdu EXCEPT ![seg.sdu].ref_count = @ + 1] ELSE sdu
          /\ bstatus' = [bstatus EXCEPT !.tx_size =
                            @ - PduSize(seg) + (IF cut THEN PduSize(rest) ELSE 0)]
          /\ MoveToWait(sent)
          /\ UNCHANGED <<retransmit_list, tx_size, tx_next_ack, upperVars, crashed>>
          /\ Emit(sent,
                  \/ PollPdu # -1 /\ pdus >= PollPdu
                  \/ PollByte # -1 /\ bytes >= PollByte
                  \/ PollAfterAssembly(tx_list', retransmit_list, tx_next_ack, tx_next')
                  \/ force_poll,
                  pdus, bytes)

\* nr_rlc_entity_am_generate_pdu, data part: a retransmission that fits goes
\* first; one that does not lets a new PDU pass.
GeneratePdu(size) ==
    /\ Cardinality(data_air) < HarqProcesses
    /\ \/ GenerateRetxPdu(size)
       \/ ~CanRetransmit(size) /\ GenerateTxPdu(size)

-----------------------------------------------------------------------------
(* Status reports: process_control_pdu *)

\* The validation loop.  Its test of the order of the NACKs never runs:
\* prev_nack_sn keeps the value -1 it starts with.
ValidReport(report) ==
    /\ TxOffset(report.ack_sn) <= TxOffset(tx_next)
    /\ \A k \in DOMAIN report.nacks : \A sn \in NackedSns(report.nacks[k]) :
          TxOffset(sn) <= TxOffset(report.ack_sn)

Nacked(report, seg) == Nacks(report, seg.sn, seg.so, LastByte(seg))

\* (variant: ACK_SN included)
AckedInclusive(report, seg) ==
    ~Nacked(report, seg) /\ TxOffset(seg.sn) <= TxOffset(report.ack_sn)

Acked(report, seg) ==
    ~Nacked(report, seg) /\ TxOffset(seg.sn) < TxOffset(report.ack_sn)

\* The "speedup" of the walk over the retransmit list: when the wait list is
\* exhausted, a segment at ack_sn that precedes a NACK of ack_sn ends the
\* walk, and the list is cut before that segment.
CutFrom(report) ==
    {i \in DOMAIN retransmit_list :
        LET seg == retransmit_list[i]
        IN /\ seg.sn = report.ack_sn
           /\ ~Nacked(report, seg)
           /\ \E part \in NackedParts(report.nacks, seg.sn) : seg.so <= part.so_start
           /\ \A j \in DOMAIN wait_list : After(seg, wait_list[j])}

\* What process_control_pdu does to the lists when the report is valid.  The
\* walk meets the segments of both lists in the order of SN and byte: a
\* NACKed one goes to the retransmit list, another one below ack_sn is freed.
Moved(report) == Entries(wait_list, {i \in DOMAIN wait_list : Nacked(report, wait_list[i])})
StaysWaiting(report) ==
    Entries(wait_list, {i \in DOMAIN wait_list :
                           ~Nacked(report, wait_list[i]) /\ ~Acked(report, wait_list[i])})
StaysRetransmit(report) ==
    Entries(retransmit_list,
            {i \in DOMAIN retransmit_list :
                /\ ~Acked(report, retransmit_list[i])
                /\ \A j \in CutFrom(report) : i < j})
FreedWaiting(report) ==
    Entries(wait_list, {i \in DOMAIN wait_list : Acked(report, wait_list[i])})
\* (variant: the second loop over the acknowledged segments forgotten)
FreedRetransmitNone(report) == <<>>
FreedRetransmit(report) ==
    Entries(retransmit_list, {i \in DOMAIN retransmit_list : Acked(report, retransmit_list[i])})
\* (variant: segments of the retransmit list not counted as freed)
FreedWaitOnly(report) == FreedWaiting(report)
Freed(report) == FreedWaiting(report) \o FreedRetransmit(report)

CountOf(segs, id) == Cardinality({i \in DOMAIN segs : segs[i].sdu = id})

\* 38.322 5.3.3.3: an ACK or a NACK for poll_sn stops t_poll_retransmit; the ACK is
\* looked at before the NACKs are read, a NACK after it has been applied
AckAnswersPoll(report) == TxOffset(poll_sn) < TxOffset(report.ack_sn)
NackAnswersPoll(nack) ==
    /\ TxOffset(nack.sn) <= TxOffset(poll_sn)
    /\ TxOffset(poll_sn) < TxOffset(SnWrap(nack.sn + nack.range))
AnswersPoll(report) ==
    \/ AckAnswersPoll(report)
    \/ \E k \in DOMAIN report.nacks : NackAnswersPoll(report.nacks[k])

\* (variant: the retransmit list forgotten)
NextAckWaitOnly(report, wait, retransmit) ==
    LET heads == {tx_next, report.ack_sn} \cup (IF wait = <<>> THEN {} ELSE {Head(wait).sn})
    IN CHOOSE sn \in heads : \A other \in heads : TxOffset(sn) <= TxOffset(other)

\* The end of process_control_pdu: the smallest of tx_next, the heads of the
\* wait list and the retransmit list, and ack_sn
NextAck(report, wait, retransmit) ==
    LET heads == {tx_next, report.ack_sn}
                 \cup (IF wait = <<>> THEN {} ELSE {Head(wait).sn})
                 \cup (IF retransmit = <<>> THEN {} ELSE {Head(retransmit).sn})
    IN CHOOSE sn \in heads : \A other \in heads : TxOffset(sn) <= TxOffset(other)

ProcessReport(report) ==
    LET moved == Moved(report)
        freed == Freed(report)
        counted == [id \in DOMAIN sdu |->
            [sdu[id] EXCEPT !.retx_count = Min({@ + CountOf(moved, id), RetxCap}),
                            !.free_count = @ + CountOf(freed, id)]]
        delivered == {id \in DOMAIN sdu : counted[id].free_count = counted[id].ref_count}
    IN /\ wait_list' = StaysWaiting(report)
       /\ wait_end' = IF wait_end # NoSegment
                         /\ (Nacked(report, wait_end) \/ Acked(report, wait_end))
                      THEN IF wait_list' = <<>> THEN NoSegment ELSE Last(wait_list')
                      ELSE wait_end
       /\ retransmit_list' = ListAddAll(StaysRetransmit(report), moved)
       /\ bstatus' = [bstatus EXCEPT !.retx_size =
                         @ + Sizes(moved) - Sizes(FreedRetransmit(report))]
       /\ sdu' = Restrict(counted, DOMAIN sdu \ delivered)
       /\ confirmed' = confirmed \cup delivered
       /\ tx_size' = tx_size - SumFunctionOnSet(SduSize, delivered)
       /\ rlf' = (rlf \/ \E id \in DOMAIN sdu :
                            /\ CountOf(moved, id) > 0
                            /\ counted[id].retx_count >= MaxRetx * counted[id].ref_count)
       /\ tx_next_ack' = NextAck(report, wait_list', retransmit_list')
       /\ t_poll_retransmit' = (t_poll_retransmit /\ ~AnswersPoll(report))
       /\ UNCHANGED <<tx_list, tx_end, tx_next, last_sent, poll_sn, pdu_without_poll,
                      byte_without_poll, force_poll, offered, dropped, crashed, data_air>>

\* process_control_pdu
ReceiveReport(report) ==
    IF ValidReport(report) THEN ProcessReport(report) ELSE UNCHANGED txVars

-----------------------------------------------------------------------------
(* Timer and re-establishment *)

\* check_t_poll_retransmit, when the timer has expired.  When the buffers are
\* empty or the window stalls, the segments of the SN at the head of the wait
\* list are sent again; an empty wait list is not expected and its head is
\* read nevertheless.
PollRetransmitExpires ==
    /\ t_poll_retransmit
    /\ t_poll_retransmit' = FALSE
    /\ force_poll' = TRUE
    /\ LET needed == PollAfterAssembly(tx_list, retransmit_list, tx_next_ack, tx_next)
           same == {i \in DOMAIN wait_list :
                       \A j \in 1 .. i : wait_list[j].sn = wait_list[1].sn}
           again == SubSeq(wait_list, 1, Cardinality(same))
           id == wait_list[1].sdu
       IN IF needed /\ wait_list = <<>>
          THEN /\ crashed' = TRUE
               /\ UNCHANGED <<listVars, sdu, bstatus, rlf>>
          ELSE IF needed
          THEN /\ wait_list' = SubSeq(wait_list, Len(again) + 1, Len(wait_list))
               /\ wait_end' = IF wait_list' = <<>> THEN NoSegment ELSE wait_end
               /\ retransmit_list' = ListAddAll(retransmit_list, again)
               /\ bstatus' = [bstatus EXCEPT !.retx_size = @ + Sizes(again)]
               /\ sdu' = [sdu EXCEPT ![id].retx_count = Min({@ + 1, RetxCap})]
               /\ rlf' = (rlf \/ sdu'[id].retx_count >= MaxRetx)
               /\ UNCHANGED <<tx_list, tx_end, crashed>>
          ELSE UNCHANGED <<listVars, sdu, bstatus, rlf, crashed>>
    /\ UNCHANGED <<tx_size, snVars, poll_sn, pdu_without_poll, byte_without_poll,
                   offered, confirmed, dropped, data_air>>

\* new_nr_rlc_entity_am
TxInit ==
    /\ tx_list = <<>> /\ tx_end = NoSegment
    /\ wait_list = <<>> /\ wait_end = NoSegment
    /\ retransmit_list = <<>>
    /\ sdu = <<>>
    /\ tx_size = 0
    /\ bstatus = [tx_size |-> 0, retx_size |-> 0]
    /\ tx_next = 0 /\ tx_next_ack = 0 /\ last_sent = 0 /\ poll_sn = 0
    /\ pdu_without_poll = 0 /\ byte_without_poll = 0 /\ force_poll = FALSE
    /\ t_poll_retransmit = FALSE
    /\ offered = 0 /\ confirmed = {} /\ dropped = {}
    /\ rlf = FALSE /\ crashed = FALSE
    /\ data_air = {}

\* clear_entity, called by nr_rlc_entity_am_reestablishment; MAC is reset too,
\* nothing stays in flight.  The SDUs held are the upper layer's to send again.
TxReestablish ==
    /\ tx_list' = <<>> /\ tx_end' = NoSegment
    /\ wait_list' = <<>> /\ wait_end' = NoSegment
    /\ retransmit_list' = <<>>
    /\ sdu' = <<>>
    /\ tx_size' = 0
    /\ bstatus' = [tx_size |-> 0, retx_size |-> 0]
    /\ tx_next' = 0 /\ tx_next_ack' = 0 /\ poll_sn' = 0
    /\ pdu_without_poll' = 0 /\ byte_without_poll' = 0 /\ force_poll' = FALSE
    /\ t_poll_retransmit' = FALSE
    /\ dropped' = dropped \cup DOMAIN sdu
    /\ data_air' = {}
    /\ UNCHANGED <<offered, last_sent, confirmed, rlf, crashed>>
=============================================================================
