------------------------------ MODULE MCSigning ------------------------------
(***************************************************************************)
(* Instances of Signing for TLC.                                           *)
(***************************************************************************)
EXTENDS Signing, TLC

CONSTANTS a1, p1

MCAddr   == {a1}
MCPath   == {p1}
NoAddr   == {}
MCTo     == [t \in Tx |-> {a1}]
MCPathOf == [t \in Tx |-> p1]

TxSymmetry == Permutations(Tx)
=============================================================================
