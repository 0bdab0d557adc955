------------------------------ MODULE MCBroker ------------------------------
(* Bounds for the broker in its open environment. *)
EXTENDS Broker, FiniteSets

CONSTANT MaxInTransit    \* bound on the datagrams in transit at one time

MCTopic == {<<"room", "temp">>}
MCFilter == {<<"room", "#">>}

InTransitBound == Cardinality(net) <= MaxInTransit
=============================================================================
