---------------------------- MODULE PdcpService ----------------------------
(***************************************************************************)
(* What a PDCP bearer promises to the layer above (SDAP, RRC): the SDUs    *)
(* handed up at one end were handed in at the other, in the order they     *)
(* were handed in, each at most once.  SDUs may be missing.                *)
(***************************************************************************)
EXTENDS Integers

VARIABLES
    offered,   \* number of SDUs accepted: they are 1 .. offered
    handed     \* the SDUs handed up

vars == <<offered, handed>>

ServiceInit == offered = 0 /\ handed = {}

Offer == offered' = offered + 1 /\ UNCHANGED handed

\* A batch goes up, in ascending order, after all that went before.
HandUp(batch) ==
    /\ batch \subseteq 1 .. offered
    /\ \A i \in batch, j \in handed : j < i
    /\ handed' = handed \cup batch
    /\ UNCHANGED offered

ServiceNext == Offer \/ \E batch \in SUBSET (1 .. offered) : HandUp(batch)

Service == ServiceInit /\ [][ServiceNext]_vars
=============================================================================
