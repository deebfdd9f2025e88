------------------------------- MODULE PdcpRx -------------------------------
(***************************************************************************)
(* The receiving side of a PDCP entity (openair2/LAYER2/nr_pdcp/           *)
(* nr_pdcp_entity.c): reconstruction of the COUNT, discard of old and      *)
(* repeated PDUs, reordering with t-Reordering, suspension,                *)
(* re-establishment, release.                                              *)
(*                                                                         *)
(* rx_list is kept sorted by COUNT and holds no COUNT twice                *)
(* (nr_pdcp_sdu.c), so the set of its COUNTs says all of it; the SDUs one  *)
(* step passes to deliver_sdu, always from the head of the list, are a set *)
(* too, passed in ascending order.                                         *)
(***************************************************************************)
EXTENDS PdcpCount

VARIABLES
    entity_type,         \* entity->type
    entity,              \* "active", "suspended" (entity_suspended) or "released"
    t_reordering,        \* entity->t_reordering: a delay, or -1 ("infinite")
    t_reordering_start,  \* t-Reordering is running (t_reordering_start # 0)
    rx_deliv,            \* COUNT of the first SDU not delivered and waited for
    rx_next,             \* COUNT after the highest received
    rx_reord,            \* rx_next when t-Reordering was started
    rx_list,             \* COUNTs of the SDUs held
    delivered,           \* (history) COUNTs delivered since COUNT was last reset
    up                   \* (output) COUNTs the last step gave to deliver_sdu

rxVars == <<entity_type, entity, t_reordering, t_reordering_start, rx_deliv,
            rx_next, rx_reord, rx_list, delivered, up>>

EntityTypes == {"srb", "drb_am", "drb_um"}
-----------------------------------------------------------------------------
\* new_nr_pdcp_entity: everything is zero.  add_srb and add_drb give
\* t_reordering, infinite when it is not configured.
RxInit ==
    /\ entity_type \in EntityTypes
    /\ entity = "active"
    /\ t_reordering \in {"finite", "infinite"}
    /\ t_reordering_start = FALSE
    /\ rx_deliv = 0
    /\ rx_next = 0
    /\ rx_reord = 0
    /\ rx_list = {}
    /\ delivered = {}
    /\ up = {}

\* Where the loop that delivers consecutive SDUs from count stops.
FirstMissing(list, count) ==
    CHOOSE n \in count .. CountModulus :
        /\ n \notin list
        /\ \A m \in count .. n - 1 : m \in list

\* The SDUs of S leave the list and are handed up.
HandUp(S) ==
    /\ up' = S
    /\ delivered' = delivered \cup S

\* (variant: the timer is not started again for the holes above rx_reord)
UpdateTReorderingOnce ==
    LET stopped == t_reordering_start /\ rx_deliv' >= rx_reord
    IN  IF ~t_reordering_start /\ rx_deliv' < rx_next'
        THEN rx_reord' = rx_next' /\ t_reordering_start' = TRUE
        ELSE rx_reord' = rx_reord /\ t_reordering_start' = (t_reordering_start /\ ~stopped)

\* The end of recv_pdu: stop t-Reordering when what it waited for has come,
\* and start it for the holes that are left.
UpdateTReordering ==
    LET stopped == t_reordering_start /\ rx_deliv' >= rx_reord
    IN  IF (~t_reordering_start \/ stopped) /\ rx_deliv' < rx_next'
        THEN rx_reord' = rx_next' /\ t_reordering_start' = TRUE
        ELSE rx_reord' = rx_reord /\ t_reordering_start' = (t_reordering_start /\ ~stopped)

\* A PDU that is not kept: the entity is suspended, the PDU is too short or
\* fails the integrity check, the COUNT was delivered or given up, or is held.
Discarded(count, intact) ==
    \/ entity = "suspended"
    \/ ~intact
    \/ count < rx_deliv
    \/ count \in rx_list

\* rx_next and rx_deliv wrap after the last COUNT.
StorePdu(count) ==
    LET held == rx_list \cup {count}
        stop == IF count = rx_deliv THEN FirstMissing(held, count) ELSE rx_deliv
    IN  /\ rx_next' = IF count >= rx_next THEN (count + 1) % CountModulus ELSE rx_next
        /\ rx_deliv' = stop % CountModulus
        /\ HandUp({c \in held : c < stop})
        /\ rx_list' = {c \in held : c >= stop}
        /\ UpdateTReordering
        /\ UNCHANGED <<entity_type, entity, t_reordering>>

\* nr_pdcp_entity_recv_pdu
RecvPdu(rcvd_sn, intact) ==
    LET count == RcvdCount(rx_deliv, rcvd_sn)
    IN  /\ entity # "released"
        /\ \/ /\ Discarded(count, intact)
              /\ up' = {}
              /\ UNCHANGED <<entity_type, entity, t_reordering, t_reordering_start, rx_deliv,
                             rx_next, rx_reord, rx_list, delivered>>
           \/ /\ ~Discarded(count, intact)
              /\ StorePdu(count)

\* (variant: no restart after an expiry)
RestartTReorderingNever == t_reordering_start' = FALSE /\ UNCHANGED rx_reord

RestartTReordering ==
    IF rx_deliv' < rx_next
    THEN rx_reord' = rx_next /\ t_reordering_start' = TRUE
    ELSE rx_reord' = rx_reord /\ t_reordering_start' = FALSE

\* check_t_reordering, called by the timer thread
TReorderingExpires ==
    /\ entity # "released"
    /\ t_reordering_start
    /\ t_reordering # "infinite"
    /\ LET stop == FirstMissing(rx_list, rx_reord)
       IN  /\ rx_deliv' = stop % CountModulus
           /\ HandUp({c \in rx_list : c < stop})
           /\ rx_list' = {c \in rx_list : c >= stop}
    /\ RestartTReordering
    /\ UNCHANGED <<entity_type, entity, t_reordering, rx_next>>
-----------------------------------------------------------------------------
\* (variant: rx_deliv is the COUNT before the first one, as in 36.323)
RestartCountBefore ==
    /\ rx_next' = 0
    /\ rx_deliv' = -1
    /\ delivered' = {}
    /\ t_reordering_start' = FALSE
    /\ rx_reord' = rx_reord

\* COUNT starts again from 0.
RestartCount ==
    /\ rx_next' = 0
    /\ rx_deliv' = 0
    /\ delivered' = {}
    /\ t_reordering_start' = FALSE
    /\ rx_reord' = rx_reord

\* nr_pdcp_entity_suspend: the SDUs held are delivered if t-Reordering is
\* running, and stay in the list otherwise.
RxSuspend ==
    /\ entity # "released"
    /\ up' = IF t_reordering_start THEN rx_list ELSE {}
    /\ rx_list' = IF t_reordering_start THEN {} ELSE rx_list
    /\ RestartCount
    /\ entity' = "suspended"
    /\ UNCHANGED <<entity_type, t_reordering>>

\* (variant: the list survives the re-establishment of a DRB on UM)
ReestablishDrbUmKeepsList ==
    /\ entity_type = "drb_um"
    /\ up' = IF t_reordering_start THEN rx_list ELSE {}
    /\ rx_list' = rx_list
    /\ RestartCount

\* nr_pdcp_entity_reestablish_drb_um
ReestablishDrbUm ==
    /\ entity_type = "drb_um"
    /\ up' = IF t_reordering_start THEN rx_list ELSE {}
    /\ rx_list' = IF t_reordering_start THEN {} ELSE rx_list
    /\ RestartCount

\* nr_pdcp_entity_reestablish_srb
ReestablishSrb ==
    /\ entity_type = "srb"
    /\ up' = {}
    /\ rx_list' = {}
    /\ RestartCount

\* nr_pdcp_entity_reestablish_drb_am: only the security changes.
ReestablishDrbAm ==
    /\ entity_type = "drb_am"
    /\ up' = {}
    /\ UNCHANGED <<t_reordering_start, rx_deliv, rx_next, rx_reord, rx_list, delivered>>

RxReestablish ==
    /\ entity # "released"
    /\ ReestablishDrbUm \/ ReestablishSrb \/ ReestablishDrbAm
    /\ entity' = "active"
    /\ UNCHANGED <<entity_type, t_reordering>>

\* nr_pdcp_reconfigure_srb and nr_pdcp_reconfigure_drb: a new value takes
\* effect on the timer that is running.  Only a DRB can lose its timer.
Reconfigure(value) ==
    /\ entity # "released"
    /\ value = "infinite" => entity_type # "srb"
    /\ t_reordering' = value
    /\ up' = {}
    /\ UNCHANGED <<entity_type, entity, t_reordering_start, rx_deliv, rx_next, rx_reord,
                   rx_list, delivered>>

\* nr_pdcp_release_drb delivers what is held and deletes the entity,
\* nr_pdcp_release_srb deletes it.
Release ==
    /\ entity # "released"
    /\ HandUp(IF entity_type = "srb" THEN {} ELSE rx_list)
    /\ rx_list' = {}
    /\ entity' = "released"
    /\ t_reordering_start' = FALSE
    /\ UNCHANGED <<entity_type, t_reordering, rx_deliv, rx_next, rx_reord>>
-----------------------------------------------------------------------------
RxNext ==
    \/ \E sn \in SN, intact \in BOOLEAN : RecvPdu(sn, intact)
    \/ TReorderingExpires
    \/ RxSuspend
    \/ RxReestablish
    \/ \E value \in {"finite", "infinite"} : Reconfigure(value)
    \/ Release

RxSpec == RxInit /\ [][RxNext]_rxVars
-----------------------------------------------------------------------------
\* The variables of the entity have the types of the struct's members.
PdcpTypeOK ==
    /\ entity_type \in EntityTypes
    /\ entity \in {"active", "suspended", "released"}
    /\ t_reordering \in {"finite", "infinite"}
    /\ t_reordering_start \in BOOLEAN
    /\ rx_deliv \in COUNT
    /\ rx_next \in COUNT
    /\ rx_reord \in COUNT
    /\ rx_list \in SUBSET COUNT
    /\ delivered \in SUBSET COUNT
    /\ up \in SUBSET COUNT

\* No SDU with the last COUNT is held or was handed up: it would have reset rx_next
\* to 0 while rx_deliv and the SDUs held stay where they are, with no timer for them.
\* A sender does not get there, the network renews the keys before (38.331).  The
\* receiver does, when HFN is 0 and integrity is not configured, by a PDU with the
\* last SN: half the SN space or more above that of rx_deliv it is taken for one of
\* HFN -1, which is the last HFN.
BelowTheWrap == CountModulus - 1 \notin rx_list \cup up

\* recv_pdu, check_t_reordering, suspend and the re-establishments: while an
\* SDU is held t-Reordering runs, it waits for a COUNT after rx_deliv that
\* something received precedes, and the SDUs held lie strictly between
\* rx_deliv and rx_next: nothing is left behind in the list, whatever PDUs come in
\* but one with the last COUNT (BelowTheWrap) and whenever the bearer is suspended
\* or re-established.
HeldIsTimed ==
    /\ \A c \in rx_list : rx_deliv < c /\ c < rx_next
    /\ rx_list # {} => t_reordering_start
    /\ rx_deliv <= rx_next
    /\ t_reordering_start => rx_deliv < rx_reord /\ rx_reord <= rx_next

\* The inductive invariant of the proofs: moreover t-Reordering runs for every
\* gap, held SDU or not, and what was delivered is behind rx_deliv.
PdcpRxInv ==
    /\ PdcpTypeOK
    /\ HeldIsTimed
    /\ entity # "released" => /\ rx_deliv < rx_next => t_reordering_start
                             /\ \A c \in delivered : c < rx_deliv
    /\ entity = "released" => rx_list = {}

\* recv_pdu, check_t_reordering and deliver_all_sdus: whatever PDUs arrive, but for
\* one with the last COUNT (BelowTheWrap), in any order and any number of times,
\* SDUs go up in ascending COUNT order and none goes up twice, until COUNT is reset.
InOrderOnce == [][\A c \in up', d \in delivered : c > d]_rxVars
=============================================================================
