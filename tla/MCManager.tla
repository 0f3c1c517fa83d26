----------------------------- MODULE MCManager -----------------------------
(***************************************************************************)
(* Instances of the stream manager for TLC.                                *)
(***************************************************************************)
EXTENDS ManagerProperties, TLC

CONSTANTS p1, p2, k1, k2

MCConsumers == Producers \X Calls
MCOwnId == [k \in Calls |-> k]
MCSameId == [k \in Calls |-> "a"]
MCOneProducer == [k \in Calls |-> "cam"]
MCSymmetry == Permutations(Producers) \cup Permutations(Calls)
=============================================================================
