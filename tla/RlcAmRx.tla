------------------------------ MODULE RlcAmRx ------------------------------
(***************************************************************************)
(* Receiving side of the NR RLC AM entity: storage and reassembly of data  *)
(* PDUs, the reception window, the reassembly timer, and the trigger of    *)
(* status reports.                                                         *)
(*                                                                         *)
(* Source: openair2/LAYER2/nr_rlc/nr_rlc_entity_am.c.                      *)
(*                                                                         *)
(* A data PDU is a record                                                  *)
(*    sn, so, size : header fields, and the number of data bytes           *)
(*    last         : is_last (is_first holds exactly when so = 0)          *)
(*    sdu          : what the bytes are bytes of (the payload)             *)
(*    p            : the poll bit                                          *)
(* The rx_list of the code, sorted by (sn, so), is the set of the stored   *)
(* PDUs; the field data tells whether the bytes are still there ("data #   *)
(* NULL"): they are freed when the SDU is delivered, the entry stays until *)
(* rx_next has passed it.                                                  *)
(*                                                                         *)
(* Time is abstract: a timer is a flag "running", and it may expire in any *)
(* state in which it runs.                                                 *)
(***************************************************************************)
EXTENDS RlcSn, FiniteSets, FiniteSetsExt, Functions

CONSTANTS
    Sdus,          \* the payloads
    Pdus,          \* the data PDUs that may arrive
    RxMaxSize,     \* entity->rx_maxsize, in bytes
    StatusGrants   \* sizes of the buffers MAC offers for a status report

DataPdu == [sn : SN, so : Nat, size : Nat \ {0}, last : BOOLEAN,
            sdu : Sdus, p : BOOLEAN]

StoredPdu == [sn : SN, so : Nat, size : Nat \ {0}, last : BOOLEAN,
              sdu : Sdus, data : BOOLEAN]

ASSUME RxAssumption ==
    /\ Pdus \subseteq DataPdu
    /\ RxMaxSize \in Nat
    /\ StatusGrants \subseteq Nat

VARIABLES
    rx_list,                  \* set of StoredPdu
    rx_size,                  \* bytes held in rx_list
    rx_next,                  \* lowest SN not completely received
    rx_next_status_trigger,   \* SN following the one that started the timer
    rx_highest_status,        \* highest SN a status report may acknowledge
    rx_next_highest,          \* SN following the highest one received
    t_reassembly,             \* timer running
    status_triggered,
    status_prohibited         \* t_status_prohibit running

rxVars == <<rx_list, rx_size, rx_next, rx_next_status_trigger,
            rx_highest_status, rx_next_highest, t_reassembly,
            status_triggered, status_prohibited>>

-----------------------------------------------------------------------------
(* What the walks over rx_list compute *)

SegmentsOf(list, sn) == {l \in list : l.sn = sn}

Bytes(l) == l.so .. l.so + l.size - 1

Covered(list, sn) == UNION {Bytes(l) : l \in SegmentsOf(list, sn)}

\* segment_already_received
SegmentAlreadyReceived(list, pdu) == Bytes(pdu) \subseteq Covered(list, pdu.sn)

\* sdu_delivered: the SDU was passed up, its entries are still listed
SduDelivered(list, sn) == \E l \in SegmentsOf(list, sn) : ~l.data

\* (variant: first and last segment, without looking for holes)
SduFullFirstLast(list, sn) ==
    /\ ~SduDelivered(list, sn)
    /\ \E k, l \in SegmentsOf(list, sn) : k.so = 0 /\ l.last

\* sdu_full: no byte is missing up to a last segment, not yet processed
SduFull(list, sn) ==
    /\ ~SduDelivered(list, sn)
    /\ \E l \in SegmentsOf(list, sn) :
          l.last /\ 0 .. l.so - 1 \subseteq Covered(list, sn)

\* sdu_has_missing_bytes: a hole before some received segment
SduHasMissingBytes(list, sn) ==
    /\ ~SduDelivered(list, sn)
    /\ \E l \in SegmentsOf(list, sn) :
          ~(0 .. l.so - 1 \subseteq Covered(list, sn))

\* (variants: "if" for "while"; past everything received)
FirstNotDeliveredOnce(list, sn) == IF SduDelivered(list, sn) THEN SnNext(sn) ELSE sn
FirstNotDeliveredHighest(list, sn) == rx_next_highest

\* The loops that advance rx_highest_status and rx_next: the first SN from
\* "sn" on that has not been delivered
FirstNotDelivered(list, sn) ==
    CHOOSE n \in SN :
        /\ ~SduDelivered(list, n)
        /\ \A m \in SN : Modulus(sn, m) < Modulus(sn, n) => SduDelivered(list, m)

SizeOf(segments) == SumFunctionOnSet([l \in segments |-> l.size], segments)

\* (variant: only the data of the first segment)
FreeDataFirst(list, sn) ==
    {IF l.sn = sn /\ l.so = 0 THEN [l EXCEPT !.data = FALSE] ELSE l : l \in list}

\* reassemble_and_deliver, its effect on the list: free the data of sn
FreeData(list, sn) == {IF l.sn = sn THEN [l EXCEPT !.data = FALSE] ELSE l : l \in list}

-----------------------------------------------------------------------------
(* nr_rlc_entity_am_recv_pdu, data PDUs *)

\* (variant: one too many)
SnInRecvWindowInclusive(next, sn) == Modulus(next, sn) <= WindowSize

SnInRecvWindow(next, sn) == Modulus(next, sn) < WindowSize

\* (variant: no test of the window)
DiscardedAnyWindow(pdu) ==
    rx_size + pdu.size > RxMaxSize \/ SegmentAlreadyReceived(rx_list, pdu)

Discarded(pdu) ==
    \/ rx_size + pdu.size > RxMaxSize
    \/ ~SnInRecvWindow(rx_next, pdu.sn)
    \/ SegmentAlreadyReceived(rx_list, pdu)

ReceivedList(pdu) ==
    rx_list \cup {[sn |-> pdu.sn, so |-> pdu.so, size |-> pdu.size,
                   last |-> pdu.last, sdu |-> pdu.sdu, data |-> TRUE]}

\* The PDU completes its SDU, which reception_actions passes to deliver_sdu
Delivers(pdu) == ~Discarded(pdu) /\ SduFull(ReceivedList(pdu), pdu.sn)

\* reception_actions, its last part: stop t_reassembly when rx_next has caught
\* up with rx_next_status_trigger, then start it again if there is a hole.
\* The primed variables are the ones the first part has updated.
StopReassembly ==
    \/ rx_next_status_trigger = rx_next'
    \/ /\ rx_next_status_trigger = SnNext(rx_next')
       /\ ~SduHasMissingBytes(rx_list', rx_next')
    \/ /\ ~SnInRecvWindow(rx_next', rx_next_status_trigger)
       /\ rx_next_status_trigger # SnWrap(rx_next' + WindowSize)

\* There is a hole at or after "sn" and before rx_next_highest
HoleFrom(list, next, highest, sn) ==
    \/ Modulus(next, highest) > Modulus(next, SnNext(sn))
    \/ highest = SnNext(sn) /\ SduHasMissingBytes(list, sn)

\* (variant: stopped but not started again)
UpdateReassemblyTimerNoRestart ==
    /\ IF t_reassembly THEN t_reassembly' = ~StopReassembly
       ELSE t_reassembly' = HoleFrom(rx_list', rx_next', rx_next_highest', rx_next')
    /\ rx_next_status_trigger' =
          IF ~t_reassembly /\ t_reassembly' THEN rx_next_highest' ELSE rx_next_status_trigger

UpdateReassemblyTimer ==
    IF t_reassembly /\ ~StopReassembly
    THEN UNCHANGED <<t_reassembly, rx_next_status_trigger>>
    ELSE IF HoleFrom(rx_list', rx_next', rx_next_highest', rx_next')
    THEN t_reassembly' = TRUE /\ rx_next_status_trigger' = rx_next_highest'
    ELSE t_reassembly' = FALSE /\ UNCHANGED rx_next_status_trigger

DiscardPdu(pdu) ==
    /\ Discarded(pdu)
    /\ status_triggered' = (status_triggered \/ pdu.p)
    /\ UNCHANGED <<rx_list, rx_size, rx_next, rx_next_status_trigger,
                   rx_highest_status, rx_next_highest, t_reassembly,
                   status_prohibited>>

\* The PDU is stored and its SDU is not complete (or was already delivered)
StorePdu(pdu) ==
    /\ ~Discarded(pdu)
    /\ ~Delivers(pdu)
    /\ rx_list' = ReceivedList(pdu)
    /\ rx_size' = rx_size + pdu.size
    /\ rx_next_highest' = IF Modulus(rx_next, pdu.sn) >= Modulus(rx_next, rx_next_highest)
                          THEN SnNext(pdu.sn) ELSE rx_next_highest
    /\ UNCHANGED <<rx_next, rx_highest_status>>
    /\ UpdateReassemblyTimer
    /\ status_triggered' = (status_triggered \/ pdu.p)
    /\ UNCHANGED status_prohibited

\* The PDU completes its SDU: deliver, then advance rx_highest_status, then
\* advance rx_next and free the entries below it.  rx_highest_status is
\* advanced first, while the entries of the delivered SDUs are still listed.
CompleteSdu(pdu) ==
    /\ Delivers(pdu)
    /\ LET sn   == pdu.sn
           list == FreeData(ReceivedList(pdu), sn)
       IN /\ rx_next_highest' =
                IF Modulus(rx_next, sn) >= Modulus(rx_next, rx_next_highest)
                THEN SnNext(sn) ELSE rx_next_highest
          /\ rx_size' = rx_size + pdu.size - SizeOf(SegmentsOf(ReceivedList(pdu), sn))
          /\ rx_highest_status' = IF sn = rx_highest_status
                                  THEN FirstNotDelivered(list, sn) ELSE rx_highest_status
          /\ rx_next' = IF sn = rx_next THEN FirstNotDelivered(list, sn) ELSE rx_next
          /\ rx_list' = {l \in list : Modulus(rx_next, l.sn) >= Modulus(rx_next, rx_next')}
    /\ UpdateReassemblyTimer
    /\ status_triggered' = (status_triggered \/ pdu.p)
    /\ UNCHANGED status_prohibited

RecvDataPdu(pdu) == DiscardPdu(pdu) \/ StorePdu(pdu) \/ CompleteSdu(pdu)

-----------------------------------------------------------------------------
(* Timers, status reports, re-establishment *)

\* check_t_reassembly, when the timer has expired
ReassemblyExpires ==
    /\ t_reassembly
    /\ rx_highest_status' = FirstNotDelivered(rx_list, rx_next_status_trigger)
    /\ status_triggered' = TRUE
    /\ IF HoleFrom(rx_list, rx_next, rx_next_highest, rx_highest_status')
       THEN rx_next_status_trigger' = rx_next_highest /\ UNCHANGED t_reassembly
       ELSE t_reassembly' = FALSE /\ UNCHANGED rx_next_status_trigger
    /\ UNCHANGED <<rx_list, rx_size, rx_next, rx_next_highest, status_prohibited>>

\* status_to_report
StatusToReport == status_triggered /\ ~status_prohibited

\* generate_status: its effect on the entity (module RlcAmStatus says what
\* the report contains)
GenerateStatus(size) ==
    /\ StatusToReport
    /\ size >= 3
    /\ status_triggered' = FALSE
    /\ status_prohibited' = TRUE
    /\ UNCHANGED <<rx_list, rx_size, rx_next, rx_next_status_trigger,
                   rx_highest_status, rx_next_highest, t_reassembly>>

\* t_status_prohibit milliseconds have passed since the last report
ProhibitElapses ==
    /\ status_prohibited
    /\ status_prohibited' = FALSE
    /\ UNCHANGED <<rx_list, rx_size, rx_next, rx_next_status_trigger,
                   rx_highest_status, rx_next_highest, t_reassembly,
                   status_triggered>>

\* new_nr_rlc_entity_am
RxInit ==
    /\ rx_list = {}
    /\ rx_size = 0
    /\ rx_next = 0
    /\ rx_next_status_trigger = 0
    /\ rx_highest_status = 0
    /\ rx_next_highest = 0
    /\ t_reassembly = FALSE
    /\ status_triggered = FALSE
    /\ status_prohibited = FALSE

\* clear_entity, called by nr_rlc_entity_am_reestablishment
RxReestablish ==
    /\ rx_list' = {}
    /\ rx_size' = 0
    /\ rx_next' = 0
    /\ rx_next_status_trigger' = 0
    /\ rx_highest_status' = 0
    /\ rx_next_highest' = 0
    /\ t_reassembly' = FALSE
    /\ status_triggered' = FALSE
    /\ status_prohibited' = FALSE

RxNext ==
    \/ \E pdu \in Pdus : RecvDataPdu(pdu)
    \/ ReassemblyExpires
    \/ \E size \in StatusGrants : GenerateStatus(size)
    \/ ProhibitElapses
    \/ RxReestablish

RxSpec == RxInit /\ [][RxNext]_rxVars

-----------------------------------------------------------------------------
(* Properties *)

\* Every variable has its type.  rx_size, a sum, is the subject of RxSizeInv.
RxTypeOK ==
    /\ rx_list \subseteq StoredPdu
    /\ rx_next \in SN
    /\ rx_next_status_trigger \in SN
    /\ rx_highest_status \in SN
    /\ rx_next_highest \in SN
    /\ t_reassembly \in BOOLEAN
    /\ status_triggered \in BOOLEAN
    /\ status_prohibited \in BOOLEAN

\* The state variables of the reception window keep their order across any
\* sequence of receptions and expiries, wrap of the SN space included:
\*    rx_next <= rx_highest_status <= rx_next_highest <= rx_next + window,
\* while t_reassembly runs its trigger lies in (rx_next, rx_next_highest],
\* and whatever is listed lies in [rx_next, rx_next_highest).
RxOffset(sn) == Modulus(rx_next, sn)

RxWindowOrdered ==
    /\ RxOffset(rx_highest_status) <= RxOffset(rx_next_highest)
    /\ RxOffset(rx_next_highest) <= WindowSize
    /\ t_reassembly => /\ 0 < RxOffset(rx_next_status_trigger)
                       /\ RxOffset(rx_next_status_trigger) <= RxOffset(rx_next_highest)
    /\ \A l \in rx_list : RxOffset(l.sn) < RxOffset(rx_next_highest)

\* Neither rx_next nor rx_highest_status ever designates an SDU that was
\* delivered: the two loops of reception_actions and the one of
\* check_t_reassembly leave no delivered SDU at the point they stop, and no
\* other path delivers one there.  A report built while this fails would
\* never acknowledge, or acknowledge too early.
RxEdgesNotDelivered ==
    /\ ~SduDelivered(rx_list, rx_next)
    /\ ~SduDelivered(rx_list, rx_highest_status)

\* If rx_highest_status overtakes the SN the running timer waits for, it does
\* so over delivered SDUs only; so the expiry, which sets rx_highest_status
\* from the older trigger, does not move it back.
RxTriggerNotOvertaken ==
    t_reassembly =>
        \A sn \in SN :
            /\ RxOffset(rx_next_status_trigger) <= RxOffset(sn)
            /\ RxOffset(sn) < RxOffset(rx_highest_status)
            => SduDelivered(rx_list, sn)

\* rx_size, which decides what is thrown away when the buffer is "full", is
\* the number of bytes held, over every path that stores, delivers, discards
\* a duplicate or frees.
RxSizeInv == rx_size = SizeOf({l \in rx_list : l.data})

\* A hole in what was received is never forgotten: unless it lies below
\* rx_highest_status, where status reports name it, t_reassembly runs and
\* its expiry will put it there.  The timer is stopped and started by two
\* functions on different conditions.
HoleIsTimedOrReported ==
    \/ t_reassembly
    \/ RxOffset(rx_next_highest) <= RxOffset(rx_highest_status)
    \/ ~HoleFrom(rx_list, rx_next, rx_next_highest, rx_highest_status)

\* Except at a re-establishment, the upper edges of the window never move
\* back: what a report may acknowledge stays so, and an SN counted as
\* received highest stays counted, also when check_t_reassembly restarts
\* from an older trigger.
WindowMovesForward ==
    [][\/ RxReestablish
       \/ /\ RxOffset(rx_highest_status) <= RxOffset(rx_highest_status')
          /\ RxOffset(rx_next_highest) <= RxOffset(rx_next_highest')
          /\ RxOffset(rx_next') <= RxOffset(rx_highest_status')]_rxVars
=============================================================================
