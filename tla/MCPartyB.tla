------------------------------ MODULE MCPartyB ------------------------------
(***************************************************************************)
(* Instances of PartyB for TLC: the transactions pay the same address over *)
(* the same path, so that whitelisting one lets the next one through.      *)
(***************************************************************************)
EXTENDS PartyB, TLC

CONSTANTS a1, p1

MCTo     == [t \in Tx |-> {a1}]
MCPathOf == [t \in Tx |-> p1]
MCAddr   == {a1}
MCPath   == {p1}
NoAddr   == {}

TxSymmetry == Permutations(Tx)
=============================================================================
