------------------------------ MODULE MCTimely ------------------------------
(* Constants for the model checking of Timely. *)
EXTENDS Timely

MCTopic == {<<"room", "temp">>}
MCFilter == {<<"room", "#">>}
OwnProcess == [c \in Client |-> c]
=============================================================================
