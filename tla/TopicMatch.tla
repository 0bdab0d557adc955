---------------------------- MODULE TopicMatch -----------------------------
(***************************************************************************)
(* What a topic filter means to the broker: the set of topics for which    *)
(* match_recursive reaches the node of the filter.  The walk through the   *)
(* trie itself is in module TopicTable.                                    *)
(***************************************************************************)
EXTENDS Naturals, Sequences

PlusWildcard == "+"
HashWildcard == "#"

\* A filter node at depth Len(f) is reached when every segment on its path
\* equals the topic's segment or is a wildcard.  Its subscribers are taken at
\* the last level of the topic, and at any level if its own segment is '#'.
\* A '#' that is not last stands for exactly one segment; a final '#' stands
\* for one or more.
FilterMatches(f, t) ==
    /\ Len(f) <= Len(t)
    /\ \A i \in 1 .. Len(f) : f[i] \in {t[i], PlusWildcard, HashWildcard}
    /\ \/ Len(f) = Len(t)
       \/ Len(f) > 0 /\ f[Len(f)] = HashWildcard
=============================================================================
