----------------------------- MODULE MCProducer -----------------------------
(***************************************************************************)
(* Instances of the producer for TLC: one producer, and one or two         *)
(* AddConsumer calls, for consumer IDs of their own or for the same one.   *)
(***************************************************************************)
EXTENDS ProducerProperties, TLC

CONSTANTS k1, k2

MCConsumers == Producers \X Calls
MCOwnId == [k \in Calls |-> k]
MCSameId == [k \in Calls |-> "a"]
MCSecondNil == Producers \X (Calls \ {k1})
MCSymmetry == Permutations(Calls)
=============================================================================
