------------------------------- MODULE RlcSn -------------------------------
(***************************************************************************)
(* Sequence-number arithmetic of the NR RLC AM entity                      *)
(* (openair2/LAYER2/nr_rlc/nr_rlc_entity_am.c and nr_rlc_entity.c).        *)
(*                                                                         *)
(* The code keeps every SN in 0 .. sn_modulus-1 and compares two of them   *)
(* by their distance from a base: rx_next on the receiving side, and       *)
(* tx_next_ack on the sending side.  Sums are reduced with one conditional *)
(* subtraction, which is what "% sn_modulus" computes for operands below   *)
(* 2 * sn_modulus, the only ones the code forms.                           *)
(*                                                                         *)
(* In this module and the others, an operator marked "variant" is a        *)
(* plausible mistake in the operator that follows it.  Nothing uses it: it *)
(* is there to see a property fail when it takes the operator's place.     *)
(***************************************************************************)
EXTENDS Integers

CONSTANTS
    WindowSize,   \* entity->window_size: half the SN space
    SnModulus     \* entity->sn_modulus: 4096 or 262144 in the program

\* new_nr_rlc_entity_am: sn_modulus = 1 << sn_field_length and
\* window_size = sn_modulus / 2.  The smallest configuration has 12 bits.
ASSUME SnAssumption ==
    /\ WindowSize \in Nat
    /\ WindowSize >= 2
    /\ SnModulus = 2 * WindowSize

SN == 0 .. SnModulus - 1

\* a % sn_modulus, for 0 <= a < 2 * sn_modulus
SnWrap(a) == IF a >= SnModulus THEN a - SnModulus ELSE a

\* (variant: the modulo forgotten)
SnNextNoWrap(x) == x + 1

SnNext(x) == SnWrap(x + 1)

SnPrev(x) == SnWrap(x - 1 + SnModulus)

\* modulus_rx and modulus_tx: the distance of a from the base
Modulus(base, a) == IF a - base < 0 THEN a - base + SnModulus ELSE a - base
=============================================================================
