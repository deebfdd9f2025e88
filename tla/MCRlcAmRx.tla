----------------------------- MODULE MCRlcAmRx -----------------------------
(***************************************************************************)
(* Model of the receiving side alone, fed with every PDU a peer can cut    *)
(* out of its SDUs, in any order and any number of times.  The SDUs with   *)
(* even SNs have EvenSize bytes, the others OddSize: segments that overlap *)
(* next to SDUs that are missing as a whole.                               *)
(***************************************************************************)
EXTENDS RlcAmWalks

CONSTANTS EvenSize, OddSize    \* bytes of an SDU

MCSduSize(sn) == IF sn % 2 = 0 THEN EvenSize ELSE OddSize

MCPdus ==
    {d \in [sn : SN, so : 0 .. EvenSize + OddSize, size : 1 .. EvenSize + OddSize,
            last : BOOLEAN, sdu : Sdus, p : BOOLEAN] :
        /\ d.so + d.size <= MCSduSize(d.sn)
        /\ d.last = (d.so + d.size = MCSduSize(d.sn))
        /\ d.p => d.last}
=============================================================================
