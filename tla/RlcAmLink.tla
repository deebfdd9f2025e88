----------------------------- MODULE RlcAmLink -----------------------------
(***************************************************************************)
(* One direction of an NR RLC AM bearer: a sending entity and a receiving  *)
(* entity joined by MAC, which carries data PDUs one way and status        *)
(* reports the other way, loses them, delivers them in any order, and may  *)
(* deliver a PDU more than once.                                           *)
(*                                                                         *)
(* Each action is one call into one entity, made under the lock of the RLC *)
(* manager (nr_rlc_oai_api.c): nr_mac_rlc_data_req, nr_mac_rlc_data_ind,   *)
(* nr_rlc_data_req.  Every call starts with set_time, which runs the       *)
(* expired timers; an expiry is an action of its own here.                 *)
(***************************************************************************)
EXTENDS RlcAmTx, RlcAmStatus

CONSTANTS
    ReportProcesses,  \* most status reports that are in flight
    MayDuplicate,     \* a PDU in flight may arrive more than once
    MayDiscard,       \* the upper layer may discard SDUs
    MayReestablish    \* the bearer may be re-established

ASSUME LinkAssumption ==
    /\ ReportProcesses \in Nat \ {0}
    /\ MayDuplicate \in BOOLEAN
    /\ MayDiscard \in BOOLEAN
    /\ MayReestablish \in BOOLEAN
    /\ Sdus = AllSdus
    /\ \A id \in AllSdus, sn \in SN, p \in BOOLEAN :
          \A so \in 0 .. SduSize[id] - 1 : \A size \in 1 .. SduSize[id] - so :
             [sn |-> sn, so |-> so, size |-> size, last |-> so + size = SduSize[id],
              sdu |-> id, p |-> p] \in Pdus

VARIABLES
    status_air,    \* status reports in flight, with last_sent at their emission
    delivered,     \* how often each SDU was passed to deliver_sdu (up to 2)
    garbled        \* deliver_sdu was called with something else than an SDU

linkVars == <<status_air, delivered, garbled>>
vars == <<txVars, rxVars, linkVars>>

\* nr_rlc_data_req
UpperLayerSends ==
    /\ ~crashed
    /\ offered < Len(SduSize)
    /\ RecvSdu(offered + 1)
    /\ UNCHANGED <<rxVars, linkVars>>

\* the upper layer's discard
UpperLayerDiscards ==
    /\ ~crashed
    /\ MayDiscard
    /\ \E id \in AllSdus : DiscardSdu(id)
    /\ UNCHANGED <<rxVars, linkVars>>

\* nr_mac_rlc_data_req at the sender.  A report does not stay in flight for
\* the time it takes to send a whole window either.
MacPullsData ==
    /\ ~crashed
    /\ \E size \in Grants : GeneratePdu(size)
    /\ status_air' = {r \in status_air : last_sent' < r.born + WindowSize}
    /\ UNCHANGED <<rxVars, delivered, garbled>>

\* nr_mac_rlc_data_req at the receiver
MacPullsReport ==
    /\ Cardinality(status_air) < ReportProcesses
    /\ \E size \in StatusGrants :
          /\ GenerateStatus(size)
          /\ status_air' = status_air \cup
                 {[report |-> StatusReport(size), born |-> last_sent]}
    /\ UNCHANGED <<txVars, delivered, garbled>>

\* deliver_sdu, called by reassemble_and_deliver: the bytes of all segments
Reassembled(pdu) ==
    LET segs == SegmentsOf(ReceivedList(pdu), pdu.sn)
    IN /\ \A l \in segs : l.sdu = pdu.sdu
       /\ UNION {Bytes(l) : l \in segs} = 0 .. SduSize[pdu.sdu] - 1

DeliverUp(pdu) ==
    IF Delivers(pdu)
    THEN /\ delivered' = [delivered EXCEPT ![pdu.sdu] = Min({@ + 1, 2})]
         /\ garbled' = (garbled \/ ~Reassembled(pdu))
    ELSE UNCHANGED <<delivered, garbled>>

\* nr_mac_rlc_data_ind at the receiver; the PDU may arrive again
DataArrives ==
    /\ \E pdu \in data_air :
          /\ RecvDataPdu(pdu)
          /\ DeliverUp(pdu)
          /\ \/ data_air' = data_air \ {pdu}
             \/ MayDuplicate /\ UNCHANGED data_air
    /\ UNCHANGED <<listVars, sizeVars, snVars, pollVars, upperVars, sdu, crashed, status_air>>

\* nr_mac_rlc_data_ind at the sender
ReportArrives ==
    /\ ~crashed
    /\ \E r \in status_air :
          /\ ReceiveReport(r.report)
          /\ status_air' = status_air \ {r}
    /\ UNCHANGED <<rxVars, delivered, garbled>>

\* HARQ gives up, or takes a NACK for an ACK
DataIsLost ==
    /\ \E pdu \in data_air : data_air' = data_air \ {pdu}
    /\ UNCHANGED <<listVars, sizeVars, snVars, pollVars, upperVars, sdu, crashed,
                   rxVars, linkVars>>

ReportIsLost ==
    /\ \E r \in status_air : status_air' = status_air \ {r}
    /\ UNCHANGED <<txVars, rxVars, delivered, garbled>>

PollTimer ==
    /\ ~crashed
    /\ PollRetransmitExpires
    /\ UNCHANGED <<rxVars, linkVars>>

ReassemblyTimer == ReassemblyExpires /\ UNCHANGED <<txVars, linkVars>>

ProhibitTimer == ProhibitElapses /\ UNCHANGED <<txVars, linkVars>>

\* RRC re-establishes the bearer at both ends, with a MAC reset in between
Reestablish ==
    /\ ~crashed
    /\ MayReestablish
    /\ TxReestablish
    /\ RxReestablish
    /\ status_air' = {}
    /\ UNCHANGED <<delivered, garbled>>

LinkInit ==
    /\ TxInit
    /\ RxInit
    /\ status_air = {}
    /\ delivered = [id \in AllSdus |-> 0]
    /\ garbled = FALSE

LinkNext ==
    \/ UpperLayerSends
    \/ UpperLayerDiscards
    \/ MacPullsData
    \/ MacPullsReport
    \/ DataArrives
    \/ ReportArrives
    \/ DataIsLost
    \/ ReportIsLost
    \/ PollTimer
    \/ ReassemblyTimer
    \/ ProhibitTimer
    \/ Reestablish

LinkSpec == LinkInit /\ [][LinkNext]_vars

(* Fairness.  What enables an action, in the sense of ENABLED <<A>>_vars, is
   written out where the action is large. *)
DataMayBePulled ==
    /\ ~crashed
    /\ Cardinality(data_air) < HarqProcesses
    /\ \E size \in Grants : CanRetransmit(size) \/ CanTransmit(size)

ReportMayBePulled ==
    /\ StatusToReport
    /\ Cardinality(status_air) < ReportProcesses
    /\ \E size \in StatusGrants : size >= StatusHeader

ReportMayArrive == ~crashed /\ status_air # {}

\* WF_vars(MacPullsData), WF_vars(MacPullsReport): MAC asks both entities for
\* PDUs in every slot in which it schedules them
DataIsPulled == []<>~DataMayBePulled \/ []<><<MacPullsData>>_vars
ReportIsPulled == []<>~ReportMayBePulled \/ []<><<MacPullsReport>>_vars

\* SF_vars(DataArrives), SF_vars(ReportArrives): a PDU that is sent again and
\* again gets through
DataGetsThrough == <>[](data_air = {}) \/ []<><<DataArrives>>_vars
ReportsGetThrough == <>[]~ReportMayArrive \/ []<><<ReportArrives>>_vars

\* set_time runs the expired timers in each call into an entity.  Nothing
\* obliges the upper layer to send.
Fairness ==
    /\ DataIsPulled
    /\ ReportIsPulled
    /\ WF_vars(PollTimer)
    /\ WF_vars(ReassemblyTimer)
    /\ WF_vars(ProhibitTimer)
    /\ DataGetsThrough
    /\ ReportsGetThrough

FairLinkSpec == LinkSpec /\ Fairness

-----------------------------------------------------------------------------
(* Safety *)

Segments == Range(tx_list) \cup Range(wait_list) \cup Range(retransmit_list)

SegBytes(seg) == seg.so .. LastByte(seg)

\* byte b of SDU id has reached the receiving entity
HasReceived(id, b) ==
    delivered[id] > 0 \/ \E l \in rx_list : l.sdu = id /\ b \in Bytes(l)

LinkTypeOK ==
    /\ RxTypeOK
    /\ data_air \subseteq Pdus
    /\ tx_next \in SN /\ tx_next_ack \in SN /\ poll_sn \in SN
    /\ \A seg \in Segments :
          /\ seg.sdu \in DOMAIN sdu
          /\ seg.size > 0
          /\ seg.so + seg.size <= SduSize[seg.sdu]
          /\ seg.last = (seg.so + seg.size = SduSize[seg.sdu])
    /\ confirmed \subseteq 1 .. offered
    /\ dropped \subseteq 1 .. offered
    /\ delivered \in [AllSdus -> 0 .. 2]

\* Whatever loss, reordering, duplication and resegmentation, each byte of an
\* SDU that was accepted and not dropped is either in one of the sender's lists
\* or at the receiver: process_control_pdu never frees, and resegment never
\* drops, a byte that would be needed again.
NoByteLost ==
    \A id \in (1 .. offered) \ dropped : \A b \in 0 .. SduSize[id] - 1 :
        \/ \E seg \in Segments : seg.sdu = id /\ b \in SegBytes(seg)
        \/ HasReceived(id, b)

\* A status report never acknowledges, for any segment the sender could free
\* on it, a byte the receiver does not have - however late it arrives, and
\* when the buffer was too small for all NACKs.
ReportsAreHonest ==
    \A r \in status_air : ValidReport(r.report) =>
        \A seg \in Range(wait_list) \cup Range(retransmit_list) :
            Acked(r.report, seg) => \A b \in SegBytes(seg) : HasReceived(seg.sdu, b)

\* The counters that decide when an SDU is freed, when the buffer is full and
\* what MAC is told agree with the lists: ref_count - free_count is the
\* number of segments left, tx_size the bytes of the SDUs held, bstatus the
\* sizes of the PDUs that sending or resending all segments would take.
TxAccountsInv ==
    /\ \A id \in DOMAIN sdu :
          sdu[id].ref_count - sdu[id].free_count =
              CountOf(tx_list \o wait_list \o retransmit_list, id)
    /\ tx_size = SumFunctionOnSet(SduSize, DOMAIN sdu)
    /\ bstatus = [tx_size |-> Sizes(tx_list), retx_size |-> Sizes(retransmit_list)]

\* The pointers to the ends of the lists, through which segments are appended,
\* designate the last segments, and the two lists that are merged with the
\* NACKs are in the order of SN and byte.
ListsWellFormed ==
    /\ tx_end = (IF tx_list = <<>> THEN NoSegment ELSE Last(tx_list))
    /\ wait_end = (IF wait_list = <<>> THEN NoSegment ELSE Last(wait_list))
    /\ \A list \in {wait_list, retransmit_list} : \A i \in 1 .. Len(list) - 1 :
          After(list[i + 1], list[i])

\* deliver_sdu gets each SDU whole and nothing else: the test that an SDU is
\* complete and the cutting of retransmissions into overlapping segments agree.
NothingGarbled == ~garbled

-----------------------------------------------------------------------------
(* Liveness *)

\* Nothing is left to send and no timer runs, but a segment waits for an
\* acknowledgment that nothing will ask for.
Stalled ==
    /\ wait_list # <<>>
    /\ tx_list = <<>> /\ retransmit_list = <<>>
    /\ ~t_poll_retransmit

\* An SDU the sender has accepted is settled in the end: confirmed, or a radio
\* link failure is reported.  The two other ways to keep it for ever are the
\* stall and the crash that the claims below are about.
EverySduIsSettled ==
    \A id \in AllSdus :
        id \in DOMAIN sdu ~> (id \notin DOMAIN sdu \/ rlf \/ Stalled \/ crashed)

-----------------------------------------------------------------------------
(* What comments of nr_rlc_entity_am.c say of the program *)

\* check_t_poll_retransmit: "include a poll in a RLC data PDU [...] That does
\* not seem to be conditional. So we forcefully will send a poll".
PollFollowsTimeout ==
    (force_poll /\ Segments # {}) ~> (~force_poll \/ Segments = {} \/ rlf \/ crashed)

\* check_t_poll_retransmit: "the wait list should not be empty here".
WaitListIsNotEmptyAtPollTimeout == ~crashed

\* process_control_pdu: "set TX_Next_Ack equal to the SN of the RLC SDU with
\* the smallest SN [...] for which a positive acknowledgment has not been
\* received yet": no SDU that has an SN and is still held lies below it.
TxNextAckIsSmallestUnacked ==
    \A seg \in Segments : seg.sn # NoSn => TxOffset(seg.sn) < TxOffset(tx_next)

-----------------------------------------------------------------------------
(* The service the link implements *)

AbstractService == INSTANCE RlcAmService WITH Count <- Len(SduSize)

ImplementsService == AbstractService!Service
=============================================================================
