----------------------------- MODULE PdcpCount -----------------------------
(***************************************************************************)
(* The COUNT of a PDCP PDU (openair2/LAYER2/nr_pdcp/nr_pdcp_entity.c).     *)
(*                                                                         *)
(* A COUNT is a hyper frame number followed by the sequence number the PDU *)
(* carries.  The HFN is not sent: the receiver takes the one that puts the *)
(* SN closest to rx_deliv.  The COUNT is an input of the cipher, of the    *)
(* integrity check and of the reordering, so that a wrong guess spoils the *)
(* PDU.                                                                    *)
(*                                                                         *)
(* In this module and PdcpRx, an operator marked "variant" is a plausible  *)
(* mistake in the operator that follows it, and nothing uses it.           *)
(***************************************************************************)
EXTENDS Integers

CONSTANTS
    WindowSize,   \* entity->window_size = 1 << (sn_size - 1)
    HfnModulus    \* HFNs of a 32-bit COUNT: 2^20 or 2^14 in the program

\* new_nr_pdcp_entity: sn_size is 12 or 18 bits of the 32.
ASSUME CountAssumption ==
    /\ WindowSize \in Nat \ {0}
    /\ HfnModulus \in Nat \ {0}

SnModulus == 2 * WindowSize
CountModulus == SnModulus * HfnModulus

SN == 0 .. SnModulus - 1
COUNT == 0 .. CountModulus - 1

\* (variant: the window is (1 << (sn_size - 1)) - 1)
RcvdHfnSmallWindow(rx_deliv, rcvd_sn) ==
    LET rx_deliv_sn == rx_deliv % SnModulus
        rx_deliv_hfn == rx_deliv \div SnModulus
    IN  IF rcvd_sn < rx_deliv_sn - (WindowSize - 1) THEN rx_deliv_hfn + 1
        ELSE IF rcvd_sn >= rx_deliv_sn + (WindowSize - 1) THEN rx_deliv_hfn - 1
        ELSE rx_deliv_hfn

\* The HFN nearest to rx_deliv.  The comparisons are of ints; HFN 0 minus 1
\* wraps in 32 bits, which the reduction of RcvdCount stands for.
RcvdHfn(rx_deliv, rcvd_sn) ==
    LET rx_deliv_sn == rx_deliv % SnModulus
        rx_deliv_hfn == rx_deliv \div SnModulus
    IN  IF rcvd_sn < rx_deliv_sn - WindowSize THEN rx_deliv_hfn + 1
        ELSE IF rcvd_sn >= rx_deliv_sn + WindowSize THEN rx_deliv_hfn - 1
        ELSE rx_deliv_hfn

\* (rcvd_hfn << sn_size) | rcvd_sn
RcvdCount(rx_deliv, rcvd_sn) ==
    (SnModulus * RcvdHfn(rx_deliv, rcvd_sn) + rcvd_sn) % CountModulus
=============================================================================
