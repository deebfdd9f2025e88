------------------------------ MODULE PdcpLink ------------------------------
(***************************************************************************)
(* A PDCP bearer in one direction: the sending side of one entity          *)
(* (nr_pdcp_entity_process_sdu), the receiving side of its peer (PdcpRx)   *)
(* and, between them, RLC and MAC, which deliver PDUs out of order, may    *)
(* lose them on a DRB, may repeat them, and forget those under way when    *)
(* the bearer is re-established.                                           *)
(*                                                                         *)
(* Every SDU has a number: the one with COUNT c is base + c + 1.           *)
(***************************************************************************)
EXTENDS PdcpRx

CONSTANTS
    HasIntegrity,   \* entity->has_integrity of both ends
    MaxSdus         \* bound: SDUs offered in a run

ASSUME LinkAssumption == HasIntegrity \in BOOLEAN /\ MaxSdus \in Nat

VARIABLES
    tx_next,   \* COUNT of the next SDU to send
    air,       \* COUNTs of the PDUs under way
    base,      \* SDUs offered when COUNT was last reset
    offered,   \* SDUs offered
    handed     \* (history) SDUs handed up

linkVars == <<tx_next, air, base, offered, handed, rxVars>>

LinkInit ==
    /\ RxInit
    /\ tx_next = 0
    /\ air = {}
    /\ base = 0
    /\ offered = 0
    /\ handed = {}

NumberOf(count) == base + count + 1

\* deliver_sdu at the receiver, for what this step hands up
DeliverUp == handed' = handed \cup {NumberOf(c) : c \in up'}
-----------------------------------------------------------------------------
\* What the code does not check and 38.323 (5.2.1) leaves to it: no more than
\* half the SN space is under way, counted from the oldest PDU under way (the
\* transmission window of RLC AM sees to that) and from rx_deliv.
WithinHalfTheSpace ==
    /\ tx_next < rx_deliv + WindowSize
    /\ \A c \in air : tx_next < c + WindowSize

\* nr_pdcp_entity_process_sdu.  A suspended entity sends nothing.
ProcessSdu ==
    /\ entity = "active"
    /\ offered < MaxSdus
    /\ WithinHalfTheSpace
    /\ tx_next + 1 < CountModulus
    /\ air' = air \cup {tx_next}
    /\ tx_next' = tx_next + 1
    /\ offered' = offered + 1
    /\ up' = {}
    /\ UNCHANGED <<base, handed, entity_type, entity, t_reordering, t_reordering_start,
                   rx_deliv, rx_next, rx_reord, rx_list, delivered>>

\* The receiver decides whether it can be deciphered and is intact with the
\* COUNT it reconstructs, the sender has used its own.
PduArrives(count) ==
    /\ RecvPdu(count % SnModulus, HasIntegrity => RcvdCount(rx_deliv, count % SnModulus) = count)
    /\ air' \in {air \ {count}, air}
    /\ DeliverUp
    /\ UNCHANGED <<tx_next, base, offered>>

PduIsLost(count) ==
    /\ entity_type # "srb"
    /\ air' = air \ {count}
    /\ up' = {}
    /\ UNCHANGED <<tx_next, base, offered, handed, entity_type, entity, t_reordering,
                   t_reordering_start, rx_deliv, rx_next, rx_reord, rx_list, delivered>>

ReorderingTimer ==
    /\ TReorderingExpires
    /\ DeliverUp
    /\ UNCHANGED <<tx_next, air, base, offered>>

\* nr_pdcp_suspend_srb or nr_pdcp_suspend_drb, at both ends
Suspend ==
    /\ RxSuspend
    /\ DeliverUp
    /\ tx_next' = 0
    /\ base' = offered
    /\ UNCHANGED <<air, offered>>

\* nr_pdcp_reestablishment at both ends: RLC and MAC are reset with it.
Reestablish ==
    /\ RxReestablish
    /\ DeliverUp
    /\ air' = {}
    /\ tx_next' = IF entity_type = "drb_am" THEN tx_next ELSE 0
    /\ base' = IF entity_type = "drb_am" THEN base ELSE offered
    /\ UNCHANGED offered

ReconfigureLink ==
    /\ \E value \in {"finite", "infinite"} : Reconfigure(value)
    /\ UNCHANGED <<tx_next, air, base, offered, handed>>

ReleaseLink ==
    /\ Release
    /\ DeliverUp
    /\ UNCHANGED <<tx_next, air, base, offered>>

LinkNext ==
    \/ ProcessSdu
    \/ \E c \in air : PduArrives(c) \/ PduIsLost(c)
    \/ ReorderingTimer
    \/ Suspend
    \/ Reestablish
    \/ ReconfigureLink
    \/ ReleaseLink

LinkSpec == LinkInit /\ [][LinkNext]_linkVars

\* RLC delivers what it does not lose, and nr_pdcp_ms_tick keeps calling
\* check_t_reordering.
LinkFairness ==
    /\ WF_linkVars(ReorderingTimer)
    /\ \A c \in COUNT : WF_linkVars(c \in air /\ PduArrives(c) /\ air' = air \ {c})

FairLinkSpec == LinkSpec /\ LinkFairness
-----------------------------------------------------------------------------
\* recv_pdu: the COUNT the receiver computes from the SN and rx_deliv is the
\* one the sender ciphered with, for every PDU under way, across wraps of the
\* SN and jumps of rx_deliv.
CountsAgree ==
    entity = "active" => \A c \in air : RcvdCount(rx_deliv, c % SnModulus) = c

\* The two entities together: SDUs go up in order and at most once, through
\* losses, repetitions, suspensions and re-establishments.
Promised == INSTANCE PdcpService
ImplementsPdcpService == Promised!Service

\* The inductive invariant of the proofs: what the COUNTs of the two ends, of
\* the PDUs under way and of what was handed up have to do with each other.
PdcpLinkInv ==
    /\ PdcpRxInv
    /\ BelowTheWrap
    /\ tx_next \in COUNT
    /\ air \in SUBSET COUNT
    /\ base \in Nat
    /\ offered = base + tx_next
    /\ handed \in SUBSET (1 .. offered)
    /\ entity = "suspended" => tx_next = 0 /\ rx_next = 0
    /\ entity # "released" =>
          /\ \A i \in handed : i <= base + rx_deliv
          /\ rx_next <= tx_next
          /\ tx_next <= rx_deliv + WindowSize
    /\ entity = "active" => \A c \in air : c < tx_next /\ tx_next <= c + WindowSize

\* An SDU before count will not come any more.
LostBefore(count) == \E c \in rx_deliv .. count - 1 : c \notin air \cup rx_list

\* check_t_reordering: no SDU stays in the list for ever, unless one before it
\* is lost and t-Reordering is infinite.
HeldSduIsHandedUp ==
    \A c \in COUNT :
        c \in rx_list ~> \/ c \notin rx_list
                         \/ t_reordering = "infinite" /\ LostBefore(c)
=============================================================================
