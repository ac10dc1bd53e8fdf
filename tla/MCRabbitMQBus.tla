---------------------------- MODULE MCRabbitMQBus ----------------------------
(***************************************************************************)
(* An instance of RabbitMQBus for TLC: two event types with the name of one*)
(* event, a second name that only dynamic subscriptions use, and a message *)
(* of the first.                                                           *)
(***************************************************************************)
EXTENDS RabbitMQBus

CONSTANTS enrolled, closed

MCTwoNames == {enrolled, closed}
MCNamesakes == [t \in EventTypes |-> enrolled]
MCEventOf == [m \in Msgs |-> enrolled]
=============================================================================
