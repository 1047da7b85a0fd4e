---------------------------- MODULE MCKafkaPlugin ----------------------------
(***************************************************************************)
(* Instances of the kafka plugin for TLC: two topics that exist and one    *)
(* name that is refused.                                                   *)
(***************************************************************************)
EXTENDS KafkaPlugin, TLC

CONSTANTS orders, replies, empty

MCTopics == {orders, replies, empty}
MCInvalid == {empty}
Existing == Permutations({orders, replies})
=============================================================================
