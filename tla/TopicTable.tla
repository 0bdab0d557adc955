----------------------------- MODULE TopicTable -----------------------------
(***************************************************************************)
(* The subscription table of the broker (topic_table.c): a trie of topic   *)
(* segments.  A node is named by the path that leads to it.  A topic or    *)
(* filter string is given as what stands between its slashes, so that      *)
(* "/sensor/#" is <<"", "sensor", "#">>.                                   *)
(***************************************************************************)
EXTENDS TopicMatch, SequencesExt

CONSTANTS
    Client,       \* subscriber addresses
    FilterString, \* filters that clients subscribe to
    TopicString   \* topics that clients publish to

VARIABLES
    tree,         \* topic_root: the children and subscribers of each node
    alive,        \* FALSE once the process has used a null segment
    registered    \* history: the subscriptions made, as <<filter, client>>

tableVars == <<tree, alive, registered>>

Null == "(null)"   \* the null pointer, where a segment is expected
Empty == ""        \* what stands between two slashes in a row

\* The null pointer is not a string.
ASSUME TableAssumption ==
    FilterString \cup TopicString \subseteq Seq(STRING \ {Null})

Leaf == [children |-> <<>>, subscribers |-> <<>>]

\* init_topic_table
TableInit ==
    /\ tree = [path \in {<<>>} |-> Leaf]
    /\ alive = TRUE
    /\ registered = {}

-----------------------------------------------------------------------------
\* The tokens that strtok finds: it skips the empty segments.
Tokens(name) ==
    LET found[i \in 0 .. Len(name)] ==
            IF i = 0 THEN <<>>
            ELSE IF name[i] = Empty THEN found[i - 1] ELSE Append(found[i - 1], name[i])
    IN  found[Len(name)]

\* split_topic: the array has a slot for every segment between slashes, so
\* that slots at the end stay null where strtok skipped a segment.
SplitTopic(name) ==
    LET tokens == Tokens(name)
    IN  [i \in 1 .. Len(name) |-> IF i <= Len(tokens) THEN tokens[i] ELSE Null]

\* A new node, last in the list of its parent.  As a mutant of
\* FindOrCreateChild: the child is not looked for.
CreateChild(tr, path, seg) ==
    LET child == Append(path, seg)
    IN  [p \in DOMAIN tr \cup {child} |->
            IF p = child THEN Leaf
            ELSE IF p = path THEN [tr[p] EXCEPT !.children = Append(@, seg)]
            ELSE tr[p]]

FindOrCreateChild(tr, path, seg) ==
    IF Contains(tr[path].children, seg) THEN tr ELSE CreateChild(tr, path, seg)

\* The loop of subscribe_topic: from the root to the node of the filter.
Descend(tr, segs) ==
    LET after[i \in 0 .. Len(segs)] ==
            IF i = 0 THEN tr
            ELSE FindOrCreateChild(after[i - 1], SubSeq(segs, 1, i - 1), segs[i])
    IN  after[Len(segs)]

AddSubscriber(list, c) == IF Contains(list, c) THEN list ELSE <<c>> \o list

\* subscribe_topic.  find_or_create_child passes a null segment to strcmp or
\* strdup: the process ends.
SubscribeTopic(name, c) ==
    LET segs == SplitTopic(name)
    IN  /\ alive
        /\ \/ /\ Contains(segs, Null)
              /\ alive' = FALSE
              /\ UNCHANGED <<tree, registered>>
           \/ /\ ~Contains(segs, Null)
              /\ tree' = [Descend(tree, segs) EXCEPT ![segs].subscribers =
                             AddSubscriber(@, c)]
              /\ registered' = registered \cup {<<segs, c>>}
              /\ UNCHANGED alive

-----------------------------------------------------------------------------
\* Mutant: '#' is not a wildcard for a child.
FollowsExceptHash(seg, topicSeg) == seg \in {topicSeg, PlusWildcard}

\* Does match_recursive go down to a child, given the segment of the topic?
Follows(seg, topicSeg) == seg \in {topicSeg, PlusWildcard, HashWildcard}

\* The subscribers of a node are taken at the last level of the topic, and at
\* any level if the segment of the node is '#'.
Collects(path, segs) ==
    Len(path) = Len(segs) \/ (path # <<>> /\ Last(path) = HashWildcard)

\* The first loop of match_recursive: those not yet in the result go to its head.
AddAll(found, list) ==
    LET after[i \in 0 .. Len(list)] ==
            IF i = 0 THEN found ELSE AddSubscriber(after[i - 1], list[i])
    IN  after[Len(list)]

\* The second one, where visit[child] is the call for a child.
VisitChildren(visit, path, segs, found) ==
    LET children == tree[path].children
        after[i \in 0 .. Len(children)] ==
            IF i = 0 THEN found
            ELSE IF Follows(children[i], segs[Len(path) + 1])
                   THEN visit[Append(path, children[i])][after[i - 1]]
                   ELSE after[i - 1]
    IN  after[Len(children)]

\* match_recursive at the node path, which is at level Len(path).
MatchNode(visit, path, segs, found) ==
    LET here == IF Collects(path, segs) THEN AddAll(found, tree[path].subscribers) ELSE found
    IN  IF Len(path) >= Len(segs) THEN here ELSE VisitChildren(visit, path, segs, here)

MatchRecursive(segs) ==
    LET visit[path \in DOMAIN tree] ==
            [found \in Seq(Client) |-> MatchNode(visit, path, segs, found)]
    IN  visit

\* remove_duplicates: the first entry of each address stays.
RemoveDuplicates(list) ==
    LET kept[i \in 0 .. Len(list)] ==
            IF i = 0 THEN <<>>
            ELSE IF Contains(kept[i - 1], list[i]) THEN kept[i - 1]
            ELSE Append(kept[i - 1], list[i])
    IN  kept[Len(list)]

\* get_matching_subscribers
GetMatchingSubscribers(name) ==
    RemoveDuplicates(MatchRecursive(SplitTopic(name))[<<>>][<<>>])

\* The nodes match_recursive visits compare their children with the segment of
\* their level; where that is null, strcmp ends the process.
ComparesNull(name) ==
    LET segs == SplitTopic(name)
    IN  \E path \in DOMAIN tree :
            /\ Len(path) < Len(segs)
            /\ segs[Len(path) + 1] = Null
            /\ tree[path].children # <<>>
            /\ \A i \in 1 .. Len(path) : Follows(path[i], segs[i])

LookupFails(name) ==
    /\ alive
    /\ ComparesNull(name)
    /\ alive' = FALSE
    /\ UNCHANGED <<tree, registered>>

TableNext ==
    \/ \E f \in FilterString, c \in Client : SubscribeTopic(f, c)
    \/ \E t \in TopicString : LookupFails(t)

TableSpec == TableInit /\ [][TableNext]_tableVars

-----------------------------------------------------------------------------
\* The trie holds exactly the subscriptions made: a node for every prefix of a
\* filter, once in the list of its parent, and each subscriber once in the node
\* of its filter.
TreeMirrorsSubscriptions ==
    LET filters == {r[1] : r \in registered}
    IN  /\ DOMAIN tree = {<<>>} \cup UNION {Prefixes(f) : f \in filters}
        /\ \A path \in DOMAIN tree :
              /\ IsInjective(tree[path].children)
              /\ {Append(path, seg) : seg \in ToSet(tree[path].children)}
                    = {p \in DOMAIN tree : Len(p) = Len(path) + 1 /\ IsPrefix(path, p)}
              /\ IsInjective(tree[path].subscribers)
              /\ ToSet(tree[path].subscribers) = {c \in Client : <<path, c>> \in registered}

\* get_matching_subscribers finds, through the trie, every client with a filter
\* that FilterMatches, no other client, and each one once: what module Broker
\* takes MatchingSubscribers to be.
MatchAgrees ==
    \A t \in TopicString : ~Contains(t, Empty) =>
        LET list == GetMatchingSubscribers(t)
            matching == {c \in Client : \E r \in registered :
                            r[2] = c /\ FilterMatches(r[1], t)}
        IN  ToSet(list) = matching /\ IsInjective(list)
=============================================================================
