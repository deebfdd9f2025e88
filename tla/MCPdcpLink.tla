----------------------------- MODULE MCPdcpLink -----------------------------
(***************************************************************************)
(* PdcpLink for TLC.  Beside the state of a new bearer, the runs start in  *)
(* that of a bearer which has carried Carried SDUs in order, so that the   *)
(* SN wraps after few more; SDUs are numbered from there.                  *)
(***************************************************************************)
EXTENDS PdcpLink

CONSTANT Carried   \* SDUs carried before the run

ASSUME CarriedAssumption == Carried \in COUNT

\* The states LinkNext reaches from LinkInit when Carried SDUs have gone
\* through and nothing is under way.
MCInit ==
    \E n \in {0, Carried} :
        /\ entity_type \in EntityTypes
        /\ entity = "active"
        /\ t_reordering \in {"finite", "infinite"}
        /\ t_reordering_start = FALSE
        /\ rx_deliv = n
        /\ rx_next = n
        /\ rx_reord = 0
        /\ rx_list = {}
        /\ delivered = 0 .. n - 1
        /\ up = {}
        /\ tx_next = n
        /\ air = {}
        /\ base = -n
        /\ offered = 0
        /\ handed = {}

MCSpec == MCInit /\ [][LinkNext]_linkVars /\ LinkFairness
=============================================================================
