----------------------------- MODULE MCHashChain ----------------------------
(* Constants for the model checking of HashChain as the pending table. *)
EXTENDS HashChain, TLC

\* All keys in one list; the other list stays empty.
MCHashOf == [k \in Key |-> 0]
MCGarbage == {CHOOSE g \in [key : Key, value : Value] : TRUE}

\* Nothing in the module tells addresses apart.
Addresses == Permutations(Cell)
=============================================================================
