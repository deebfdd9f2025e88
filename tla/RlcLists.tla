------------------------------ MODULE RlcLists ------------------------------
(***************************************************************************)
(* Sorted lists and sublists, as the linked lists of nr_rlc_pdu.c and      *)
(* nr_rlc_sdu.c are used.                                                  *)
(***************************************************************************)
EXTENDS Integers, Sequences, FiniteSets

\* The elements of the finite set S in the order "before": element k has
\* k - 1 others before it
InOrder(S, before(_, _)) ==
    [k \in 1 .. Cardinality(S) |->
        CHOOSE x \in S : Cardinality({y \in S : before(y, x)}) = k - 1]

\* The entries of the list at the positions in I, in the order of the list
Entries(list, I) ==
    LET order == InOrder(I, <)
    IN [k \in DOMAIN order |-> list[order[k]]]
=============================================================================
