----------------------------- MODULE MCQos2Table ----------------------------
(* Constants for the model checking of Qos2Table. *)
EXTENDS Qos2Table, TLC

MCKey == 1 .. MaxId
MCHashOf == [k \in Key |-> k % NBuckets]
\* The state of a freed entry is never read.
MCGarbage == [key : Key, value : {"WAIT_COMPLETE"}]
\* A freed entry shows the key of the last message only: the entry of an earlier
\* one is found only while it is allocated.
LastKeyGarbage == [key : {MaxId}, value : {"WAIT_COMPLETE"}]

\* Nothing in the module tells addresses apart.
Addresses == Permutations(Cell)
=============================================================================
