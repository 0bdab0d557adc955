------------------------------ MODULE MCSlimMQ ------------------------------
(* Constants and bounds for the model checking of SlimMQ. *)
EXTENDS SlimMQ, FiniteSets

CONSTANT MaxInTransit    \* bound on the datagrams in transit at one time

MCTopic == {<<"room", "temp">>}
MCFilter == {<<"room", "#">>}

\* Every client is a process of its own.
OwnProcess == [c \in Client |-> c]

\* At most MaxInTransit datagrams in transit, and one call of a client that
\* only subscribes.
Bounds ==
    /\ Cardinality(net) <= MaxInTransit
    /\ \A c \in Client \ Publisher : calls[c] <= 1
=============================================================================
