---------------------------- MODULE MCLossyBroker ---------------------------
(* Constants for the model checking of LossyBroker. *)
EXTENDS LossyBroker

MCTopic == {<<"room", "temp">>}
MCFilter == {<<"room", "#">>}
OwnProcess == [c \in Client |-> c]
=============================================================================
