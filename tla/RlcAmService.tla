---------------------------- MODULE RlcAmService ----------------------------
(***************************************************************************)
(* What an acknowledged-mode RLC bearer promises to PDCP, seen from the    *)
(* four calls at its ends: recv_sdu (offer) and sdu_successful_delivery    *)
(* (confirm) at the sender, deliver_sdu at the receiver, and what drops an *)
(* SDU: rejection by a full buffer, discard_sdu, re-establishment.         *)
(*                                                                         *)
(* An SDU is delivered at most once and only if it was offered, it is      *)
(* confirmed only if it was delivered, and nothing that was dropped is     *)
(* delivered or confirmed afterwards.  The order of deliveries is free:    *)
(* PDCP restores it.                                                       *)
(***************************************************************************)
EXTENDS Integers

CONSTANT Count    \* SDUs 1 .. Count are offered, in that order

VARIABLES
    offered,      \* number of SDUs offered so far
    delivered,    \* how often each SDU was delivered
    confirmed,    \* set of confirmed SDUs
    dropped       \* set of dropped SDUs

vars == <<offered, delivered, confirmed, dropped>>

ServiceInit ==
    /\ offered = 0
    /\ delivered = [i \in 1 .. Count |-> 0]
    /\ confirmed = {}
    /\ dropped = {}

Pending == (1 .. offered) \ (confirmed \cup dropped)

Offer ==
    /\ offered < Count
    /\ offered' = offered + 1
    /\ dropped' \in {dropped, dropped \cup {offered'}}
    /\ UNCHANGED <<delivered, confirmed>>

Deliver(i) ==
    /\ i \in Pending
    /\ delivered[i] = 0
    /\ delivered' = [delivered EXCEPT ![i] = 1]
    /\ UNCHANGED <<offered, confirmed, dropped>>

Confirm(S) ==
    /\ S \subseteq {i \in Pending : delivered[i] = 1}
    /\ confirmed' = confirmed \cup S
    /\ UNCHANGED <<offered, delivered, dropped>>

Drop(S) ==
    /\ S \subseteq Pending
    /\ dropped' = dropped \cup S
    /\ UNCHANGED <<offered, delivered, confirmed>>

ServiceNext ==
    \/ Offer
    \/ \E i \in 1 .. Count : Deliver(i)
    \/ \E S \in SUBSET Pending : Confirm(S) \/ Drop(S)

Service == ServiceInit /\ [][ServiceNext]_vars
=============================================================================
