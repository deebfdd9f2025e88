---------------------------- MODULE MCRlcAmLink ----------------------------
(***************************************************************************)
(* Models of the link: SDUs of a few bytes, and every PDU that can be cut  *)
(* out of them.                                                            *)
(***************************************************************************)
EXTENDS RlcAmControlWalk

\* sizes of the SDUs the upper layer offers
FiveSmall == <<1, 1, 1, 1, 1>>
OneThenThree == <<1, 3>>
TwoSmall == <<1, 1>>
TwoOfTwo == <<2, 2>>
TwoOneOne == <<2, 1, 1>>
TwoThenOne == <<2, 1>>

Infinity == -1

MCSdus == DOMAIN SduSize

MCPdus ==
    UNION {{[sn |-> sn, so |-> so, size |-> size, last |-> so + size = SduSize[id],
             sdu |-> id, p |-> p] :
              sn \in SN, so \in 0 .. SduSize[id] - 1,
              size \in 1 .. SduSize[id], p \in BOOLEAN} : id \in DOMAIN SduSize}

\* The runs follow the link up to the first radio link failure, on which RRC
\* releases the bearer: MaxRetx bounds the losses of a run.
UpToRlf == ~rlf
=============================================================================
