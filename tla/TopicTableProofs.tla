-------------------------- MODULE TopicTableProofs --------------------------
(***************************************************************************)
(* The subscription table, for every set of clients, filters and topics:   *)
(* the trie is the set of subscriptions made, and the walk through it      *)
(* finds the clients whose filters match.                                  *)
(***************************************************************************)
EXTENDS TopicTable, WellFoundedInduction, TLAPS

-----------------------------------------------------------------------------
(* Loops.  A loop of the code over 1 .. n is a recursive function on       *)
(* 0 .. n; what is true after each turn is a set of turns.                 *)

LEMMA LeastElement ==
    ASSUME NEW S \in SUBSET Nat, S # {}
    PROVE  \E k \in S : \A j \in S : k <= j
<1>1. PICK k \in S : \A j \in S : ~(<<j, k>> \in OpToRel(<, Nat))
  BY WFMin, NatLessThanWellFounded
<1>2. \A j \in S : ~(j < k)
  BY <1>1 DEF OpToRel
<1> QED
  BY <1>2

\* What is true before the first turn, and after a turn if it was before it, is
\* true after every turn.
LEMMA EveryTurn ==
    ASSUME NEW n \in Nat, NEW S, 0 \in S, \A i \in 1 .. n : i - 1 \in S => i \in S
    PROVE  \A i \in 0 .. n : i \in S
<1> DEFINE Bad == {i \in 0 .. n : i \notin S}
<1> SUFFICES ASSUME Bad # {} PROVE FALSE
  OBVIOUS
<1>1. Bad \in SUBSET Nat
  OBVIOUS
<1>2. PICK k \in Bad : \A j \in Bad : k <= j
  <2> HIDE DEF Bad
  <2> QED
    BY <1>1, LeastElement
<1>3. k \in 1 .. n /\ k \notin S
  BY <1>2
<1>4. k - 1 \in 0 .. n /\ k - 1 \notin Bad
  BY <1>2, <1>3
<1> QED
  BY <1>3, <1>4

\* The loop with the turns step, from init, up to turn n.
Loop(f, init, step, n) ==
    /\ DOMAIN f = 0 .. n
    /\ f[0] = init
    /\ \A i \in 1 .. n : f[i] = step[i][f[i - 1]]

\* It runs to its end, and stays in a set that the turns do not leave.
LEMMA LoopExists ==
    ASSUME NEW S, NEW init \in S, NEW n \in Nat, NEW step \in [1 .. n -> [S -> S]]
    PROVE  \E f \in [0 .. n -> S] : Loop(f, init, step, n)
<1> DEFINE Done == {k \in 0 .. n : \E f \in [0 .. k -> S] : Loop(f, init, step, k)}
<1>1. 0 \in Done
  <2>1. Loop([i \in 0 .. 0 |-> init], init, step, 0)
    BY DEF Loop
  <2> QED
    BY <2>1
<1>2. ASSUME NEW k \in 1 .. n, k - 1 \in Done
      PROVE  k \in Done
  <2>1. PICK f \in [0 .. (k - 1) -> S] : Loop(f, init, step, k - 1)
    BY <1>2
  <2> DEFINE g == [i \in 0 .. k |-> IF i = k THEN step[k][f[k - 1]] ELSE f[i]]
  <2>2. f[k - 1] \in S /\ step[k][f[k - 1]] \in S
    BY <2>1
  <2>3. g \in [0 .. k -> S]
    BY <2>1, <2>2
  <2>4. \A i \in 0 .. (k - 1) : g[i] = f[i]
    OBVIOUS
  <2>5. g[k] = step[k][f[k - 1]]
    OBVIOUS
  <2>6. DOMAIN g = 0 .. k
    OBVIOUS
  <2> HIDE DEF g
  <2>7. ASSUME NEW i \in 1 .. k
        PROVE  g[i] = step[i][g[i - 1]]
    <3>1. i - 1 \in 0 .. (k - 1) /\ g[i - 1] = f[i - 1]
      BY <2>4
    <3>2. CASE i = k
      BY <2>5, <3>1, <3>2
    <3>3. CASE i # k
      <4>1. i \in 1 .. (k - 1) /\ i \in 0 .. (k - 1)
        BY <3>3
      <4> QED
        BY <2>1, <2>4, <3>1, <4>1 DEF Loop
    <3> QED
      BY <3>2, <3>3
  <2>8. g[0] = init
    BY <2>1, <2>4 DEF Loop
  <2> QED
    BY <2>3, <2>6, <2>7, <2>8 DEF Loop
<1> HIDE DEF Done
<1>3. \A k \in 0 .. n : k \in Done
  BY <1>1, <1>2, EveryTurn
<1> QED
  BY <1>3 DEF Done

-----------------------------------------------------------------------------
(* Sequences. *)

LEMMA SnocInjective ==
    ASSUME NEW S, NEW s \in Seq(S), NEW t \in Seq(S), NEW x \in S, NEW y \in S,
           Append(s, x) = Append(t, y)
    PROVE  s = t /\ x = y
<1>1. Len(s) = Len(t)
  BY Len(Append(s, x)) = Len(s) + 1, Len(Append(t, y)) = Len(t) + 1
<1>2. x = y
  BY <1>1, Append(s, x)[Len(s) + 1] = x, Append(t, y)[Len(t) + 1] = y
<1>3. \A i \in 1 .. Len(s) : s[i] = t[i]
  BY <1>1, \A i \in 1 .. Len(s) : Append(s, x)[i] = s[i],
     \A i \in 1 .. Len(t) : Append(t, y)[i] = t[i]
<1> QED
  BY <1>1, <1>2, <1>3

LEMMA PrefixSnoc ==
    ASSUME NEW S, NEW s \in Seq(S), NEW i \in 1 .. Len(s)
    PROVE  /\ SubSeq(s, 1, i - 1) \in Seq(S) /\ s[i] \in S
           /\ SubSeq(s, 1, i) = Append(SubSeq(s, 1, i - 1), s[i])
           /\ SubSeq(s, 1, i) \in Seq(S) /\ Len(SubSeq(s, 1, i)) = i
  OBVIOUS

LEMMA PrefixWhole ==
    ASSUME NEW S, NEW s \in Seq(S)
    PROVE  SubSeq(s, 1, Len(s)) = s /\ SubSeq(s, 1, 0) = <<>>
  OBVIOUS

LEMMA SnocParts ==
    ASSUME NEW S, NEW s \in Seq(S), NEW x \in S
    PROVE  /\ Append(s, x) \in Seq(S) /\ Len(Append(s, x)) = Len(s) + 1
           /\ SubSeq(Append(s, x), 1, Len(s)) = s
           /\ Append(s, x)[Len(s) + 1] = x
           /\ \A i \in 1 .. Len(s) : Append(s, x)[i] = s[i]
  OBVIOUS

LEMMA ContainsSnoc ==
    ASSUME NEW S, NEW s \in Seq(S), NEW x \in S, NEW y
    PROVE  Contains(Append(s, x), y) <=> Contains(s, y) \/ y = x
<1>1. ASSUME Contains(Append(s, x), y), y # x
      PROVE  Contains(s, y)
  BY <1>1, SnocParts DEF Contains
<1>2. ASSUME Contains(s, y)
      PROVE  Contains(Append(s, x), y)
  BY <1>2, SnocParts DEF Contains
<1>3. Contains(Append(s, x), x)
  BY SnocParts DEF Contains
<1> QED
  BY <1>1, <1>2, <1>3

LEMMA InjectiveSnoc ==
    ASSUME NEW S, NEW s \in Seq(S), NEW x \in S, IsInjective(s), ~Contains(s, x)
    PROVE  IsInjective(Append(s, x))
  BY DEF IsInjective, Contains

LEMMA ToSetContains ==
    ASSUME NEW S, NEW s \in Seq(S)
    PROVE  /\ ToSet(s) \subseteq S
           /\ \A x : x \in ToSet(s) <=> Contains(s, x)
  BY DEF ToSet, Contains

\* add_subscriber puts an address at the head of the list, once.
LEMMA AddSubscriberAdds ==
    ASSUME NEW S, NEW list \in Seq(S), NEW c \in S
    PROVE  /\ AddSubscriber(list, c) \in Seq(S)
           /\ IsInjective(list) => IsInjective(AddSubscriber(list, c))
           /\ ToSet(AddSubscriber(list, c)) = ToSet(list) \cup {c}
<1>1. CASE Contains(list, c)
  BY <1>1, ToSetContains DEF AddSubscriber
<1>2. CASE ~Contains(list, c)
  <2>1. PICK new : new = <<c>> \o list
    OBVIOUS
  <2>2. /\ new \in Seq(S) /\ Len(new) = Len(list) + 1 /\ new[1] = c
        /\ \A i \in 1 .. Len(list) : new[i + 1] = list[i]
    BY <2>1
  <2>3. \A i \in 2 .. Len(new) : i - 1 \in 1 .. Len(list) /\ new[i] = list[i - 1]
    BY <2>2
  <2>4. ASSUME IsInjective(list)
        PROVE  IsInjective(new)
    <3>1. \A i \in 2 .. Len(new) : new[i] # new[1]
      BY <1>2, <2>2, <2>3 DEF Contains
    <3>2. \A i, j \in 2 .. Len(new) : new[i] = new[j] => i = j
      <4>1. \A i, j \in 1 .. Len(list) : list[i] = list[j] => i = j
        BY <2>4 DEF IsInjective
      <4> QED
        BY <2>2, <2>3, <4>1
    <3>3. DOMAIN new = 1 .. Len(new) /\ \A i \in DOMAIN new : i = 1 \/ i \in 2 .. Len(new)
      BY <2>2
    <3> QED
      BY <3>1, <3>2, <3>3 DEF IsInjective
  <2>5. ASSUME NEW x
        PROVE  Contains(new, x) <=> Contains(list, x) \/ x = c
    <3>1. ASSUME Contains(new, x), x # c
          PROVE  Contains(list, x)
      BY <2>2, <2>3, <3>1 DEF Contains
    <3>2. ASSUME Contains(list, x)
          PROVE  Contains(new, x)
      <4>1. PICK i \in 1 .. Len(list) : list[i] = x
        BY <3>2 DEF Contains
      <4>2. i + 1 \in 1 .. Len(new) /\ new[i + 1] = x
        BY <2>2, <4>1
      <4> QED
        BY <4>2 DEF Contains
    <3>3. Contains(new, c)
      BY <2>2 DEF Contains
    <3> QED
      BY <3>1, <3>2, <3>3
  <2>6. \A x : (x \in ToSet(new) <=> Contains(new, x)) /\ (x \in ToSet(list) <=> Contains(list, x))
    BY <2>2, ToSetContains
  <2>7. ToSet(new) = ToSet(list) \cup {c}
    BY <2>5, <2>6
  <2> QED
    BY <1>2, <2>1, <2>2, <2>4, <2>7 DEF AddSubscriber
<1> QED
  BY <1>1, <1>2

-----------------------------------------------------------------------------
(* The trie. *)

\* The segments of the filters, as split_topic finds them.
Segment == UNION {ToSet(SplitTopic(f)) : f \in FilterString}

Node == [children : Seq(Segment), subscribers : Seq(Client)]
Tree == UNION {[D -> Node] : D \in SUBSET Seq(Segment)}

\* The nodes hang together: every node but the root has its parent in the tree,
\* which lists it once, and lists nothing else.
Trie(t) ==
    /\ t \in Tree
    /\ <<>> \in DOMAIN t
    /\ \A p \in DOMAIN t : Len(p) > 0 => SubSeq(p, 1, Len(p) - 1) \in DOMAIN t
    /\ \A p \in DOMAIN t : IsInjective(t[p].children)
    /\ \A p \in DOMAIN t, seg \in Segment :
          Contains(t[p].children, seg) <=> Append(p, seg) \in DOMAIN t

\* t is u, but for the children, with empty nodes for the paths New.
Grown(u, t, New) ==
    /\ DOMAIN t = DOMAIN u \cup New
    /\ \A p \in DOMAIN t : t[p].subscribers = IF p \in DOMAIN u THEN u[p].subscribers ELSE <<>>

LEMMA SplitType ==
    ASSUME NEW name \in FilterString \cup TopicString
    PROVE  /\ Len(name) \in Nat /\ SplitTopic(name) \in Seq(ToSet(SplitTopic(name)))
           /\ Len(SplitTopic(name)) = Len(name)
<1>1. Len(name) \in Nat
  BY TableAssumption
<1>2. PICK e : SplitTopic(name) = [i \in 1 .. Len(name) |-> e[i]]
  <2>1. SplitTopic(name) = [i \in 1 .. Len(name) |-> SplitTopic(name)[i]]
    BY DEF SplitTopic
  <2> QED
    BY <2>1
<1> QED
  BY <1>1, <1>2 DEF ToSet

LEMMA FilterType ==
    ASSUME NEW f \in FilterString
    PROVE  SplitTopic(f) \in Seq(Segment)
<1>1. ToSet(SplitTopic(f)) \subseteq Segment
  BY DEF Segment
<1> HIDE DEF Segment
<1> QED
  BY <1>1, SplitType

LEMMA TreeParts ==
    ASSUME NEW t \in Tree
    PROVE  /\ DOMAIN t \subseteq Seq(Segment)
           /\ t = [p \in DOMAIN t |-> t[p]]
           /\ \A p \in DOMAIN t :
                 /\ t[p] \in Node
                 /\ t[p].children \in Seq(Segment) /\ t[p].subscribers \in Seq(Client)
  BY DEF Tree, Node

\* One more node.
LEMMA CreateChildType ==
    ASSUME NEW t \in Tree, NEW path \in Seq(Segment), NEW seg \in Segment
    PROVE  CreateChild(t, path, seg) \in Tree
<1>1. PICK child : child = Append(path, seg)
  OBVIOUS
<1>2. child \in Seq(Segment)
  BY <1>1
<1>3. PICK D : D = DOMAIN t \cup {child}
  OBVIOUS
<1>4. D \subseteq Seq(Segment)
  BY <1>2, <1>3, TreeParts
<1>5. \A p \in DOMAIN t : [t[p] EXCEPT !.children = Append(@, seg)] \in Node
  <2> TAKE p \in DOMAIN t
  <2>1. PICK nd \in Node : nd = t[p]
    BY TreeParts
  <2>2. PICK ch : ch = Append(nd.children, seg)
    OBVIOUS
  <2>3. ch \in Seq(Segment)
    <3>1. nd.children \in Seq(Segment)
      BY DEF Node
    <3> QED
      BY <2>2, <3>1, SnocParts
  <2>4. [nd EXCEPT !.children = ch] \in Node
    BY <2>3 DEF Node
  <2> QED
    BY <2>1, <2>2, <2>4
<1>6. Leaf \in Node
  BY DEF Leaf, Node
<1>7. CreateChild(t, path, seg) = [p \in D |->
            IF p = child THEN Leaf
            ELSE IF p = path THEN [t[p] EXCEPT !.children = Append(@, seg)]
            ELSE t[p]]
  BY <1>1, <1>3 DEF CreateChild
<1>8. CreateChild(t, path, seg) \in [D -> Node]
  BY <1>3, <1>5, <1>6, <1>7, TreeParts
<1> QED
  BY <1>4, <1>8 DEF Tree

LEMMA FindOrCreateType ==
    ASSUME NEW t \in Tree, NEW path \in Seq(Segment), NEW seg \in Segment
    PROVE  FindOrCreateChild(t, path, seg) \in Tree
  BY CreateChildType DEF FindOrCreateChild

\* u is t with a new node child, which has the segment seg, under path.
Created(t, path, seg, child, u) ==
    /\ DOMAIN u = DOMAIN t \cup {child}
    /\ u[child] = Leaf
    /\ u[path].children = Append(t[path].children, seg)
    /\ u[path].subscribers = t[path].subscribers
    /\ \A p \in DOMAIN t \ {path} : u[p] = t[p]

LEMMA CreateChildNodes ==
    ASSUME NEW t \in Tree, NEW path \in DOMAIN t, NEW seg \in Segment,
           NEW child, child = Append(path, seg), child \notin DOMAIN t,
           NEW u, u = CreateChild(t, path, seg)
    PROVE  Created(t, path, seg, child, u)
<1>1. PICK D : D = DOMAIN t \cup {child}
  OBVIOUS
<1>2. u = [p \in D |->
            IF p = child THEN Leaf
            ELSE IF p = path THEN [t[p] EXCEPT !.children = Append(@, seg)]
            ELSE t[p]]
  BY <1>1 DEF CreateChild
<1>3. child \notin DOMAIN t /\ path # child
  OBVIOUS
<1>4. u[path] = [t[path] EXCEPT !.children = Append(@, seg)]
  BY <1>1, <1>2, <1>3
<1>5. PICK nd \in Node : nd = t[path]
  BY TreeParts
<1>6. u[path] = [nd EXCEPT !.children = Append(nd.children, seg)]
  BY <1>4, <1>5
<1>7. u[path].children = Append(nd.children, seg) /\ u[path].subscribers = nd.subscribers
  BY <1>6 DEF Node
<1>8. DOMAIN u = D /\ u[child] = Leaf /\ \A p \in DOMAIN t \ {path} : u[p] = t[p]
  BY <1>1, <1>2, <1>3
<1> QED
  BY <1>1, <1>5, <1>7, <1>8 DEF Created

\* find_or_create_child keeps the tree in order, and adds at most the child.
LEMMA TrieGrows ==
    ASSUME NEW t, Trie(t), NEW path \in DOMAIN t, NEW seg \in Segment,
           NEW u, u = FindOrCreateChild(t, path, seg)
    PROVE  Trie(u) /\ Grown(t, u, {Append(path, seg)})
<1>1. t \in Tree /\ path \in Seq(Segment)
  BY TreeParts DEF Trie
<1>2. CASE Contains(t[path].children, seg)
  <2>1. u = t /\ Append(path, seg) \in DOMAIN t
    BY <1>2 DEF FindOrCreateChild, Trie
  <2> QED
    BY <2>1 DEF Grown
<1>3. CASE ~Contains(t[path].children, seg)
  <2>1. u = CreateChild(t, path, seg) /\ Append(path, seg) \notin DOMAIN t
    BY <1>3 DEF FindOrCreateChild, Trie
  <2>2. PICK child : child = Append(path, seg) /\ child \in Seq(Segment)
    BY <1>1, SnocParts
  <2>3. /\ DOMAIN u = DOMAIN t \cup {child}
        /\ u[child] = Leaf
        /\ u[path].children = Append(t[path].children, seg)
        /\ u[path].subscribers = t[path].subscribers
        /\ \A p \in DOMAIN t \ {path} : u[p] = t[p]
    <3>1. child \notin DOMAIN t /\ t \in Tree /\ child = Append(path, seg) /\ path \in DOMAIN t
      BY <1>1, <2>1, <2>2
    <3>2. u = CreateChild(t, path, seg)
      BY <2>1
    <3>3. Created(t, path, seg, child, u)
      BY <3>1, <3>2, CreateChildNodes
    <3> QED
      BY <3>3 DEF Created
  <2>4. u \in Tree
    BY <1>1, <2>1, CreateChildType
  <2>5. child \notin DOMAIN t /\ Len(child) = Len(path) + 1 /\ SubSeq(child, 1, Len(path)) = path
        /\ Len(path) \in Nat
    BY <1>1, <2>1, <2>2, SnocParts
  <2>6. Leaf.children = <<>> /\ Leaf.subscribers = <<>>
    BY DEF Leaf
  <2>7. DOMAIN t \subseteq Seq(Segment) /\ DOMAIN u \subseteq Seq(Segment)
        /\ t[path].children \in Seq(Segment)
    BY <1>1, <2>4, TreeParts
  <2>8. \A p \in DOMAIN u : Len(p) > 0 => SubSeq(p, 1, Len(p) - 1) \in DOMAIN u
    <3> TAKE p \in DOMAIN u
    <3>1. CASE p = child
      <4>1. Len(p) - 1 = Len(path) /\ SubSeq(p, 1, Len(path)) = path
        BY <2>5, <3>1
      <4>2. SubSeq(p, 1, Len(p) - 1) = path
        BY <4>1
      <4> QED
        BY <2>3, <4>2
    <3>2. CASE p \in DOMAIN t
      BY <2>3, <3>2 DEF Trie
    <3> QED
      BY <2>3, <3>1, <3>2
  <2>9. \A p \in DOMAIN u : IsInjective(u[p].children)
    <3> TAKE p \in DOMAIN u
    <3>1. CASE p = child
      BY <2>3, <2>6, <3>1 DEF IsInjective
    <3>2. CASE p = path
      <4>1. IsInjective(t[path].children)
        BY DEF Trie
      <4> QED
        BY <1>3, <2>3, <2>7, <3>2, <4>1, InjectiveSnoc
    <3>3. CASE p \in DOMAIN t \ {path}
      BY <2>3, <3>3 DEF Trie
    <3> QED
      BY <2>3, <3>1, <3>2, <3>3
  <2>10. ASSUME NEW p \in DOMAIN u, NEW sg \in Segment
         PROVE  Contains(u[p].children, sg) <=> Append(p, sg) \in DOMAIN u
    <3>1. CASE p = child
      <4>1. PICK q : q = Append(child, sg)
        OBVIOUS
      <4>2. q \in Seq(Segment) /\ Len(q) = Len(child) + 1 /\ SubSeq(q, 1, Len(child)) = child
        BY <2>2, <4>1, SnocParts
      <4>3. q # child
        BY <2>5, <4>2
      <4>4. q \notin DOMAIN t
        <5>1. Len(q) > 0 /\ SubSeq(q, 1, Len(q) - 1) = child
          BY <2>5, <4>2
        <5> QED
          BY <2>5, <5>1 DEF Trie
      <4>5. ~Contains(u[p].children, sg)
        BY <2>3, <2>6, <3>1 DEF Contains
      <4> QED
        BY <2>3, <3>1, <4>1, <4>3, <4>4, <4>5
    <3>2. CASE p = path
      <4>1. Contains(u[p].children, sg) <=> Contains(t[path].children, sg) \/ sg = seg
        <5>1. Contains(Append(t[path].children, seg), sg)
                <=> Contains(t[path].children, sg) \/ sg = seg
          BY <2>7, ContainsSnoc
        <5> QED
          BY <2>3, <3>2, <5>1
      <4>2. Append(path, sg) = child => sg = seg
        BY <1>1, <2>2, SnocInjective
      <4>3. Contains(t[path].children, sg) <=> Append(path, sg) \in DOMAIN t
        BY DEF Trie
      <4> QED
        BY <2>2, <2>3, <3>2, <4>1, <4>2, <4>3
    <3>3. CASE p \in DOMAIN t \ {path}
      <4>1. Append(p, sg) # child
        BY <1>1, <2>2, <2>7, <3>3, SnocInjective
      <4>2. Contains(t[p].children, sg) <=> Append(p, sg) \in DOMAIN t
        BY <3>3 DEF Trie
      <4> QED
        BY <2>3, <3>3, <4>1, <4>2
    <3> QED
      BY <2>3, <3>1, <3>2, <3>3
  <2>11. Trie(u)
    BY <2>3, <2>4, <2>8, <2>9, <2>10 DEF Trie
  <2>12. Grown(t, u, {child})
    BY <2>3, <2>5, <2>6 DEF Grown
  <2> QED
    BY <2>2, <2>11, <2>12
<1> QED
  BY <1>2, <1>3

LEMMA GrownTwice ==
    ASSUME NEW t, NEW u, NEW v, NEW M, NEW N, Grown(t, u, M), Grown(u, v, N)
    PROVE  Grown(t, v, M \cup N)
<1>1. DOMAIN v = DOMAIN t \cup (M \cup N)
  BY DEF Grown
<1>2. \A p \in DOMAIN v : v[p].subscribers = IF p \in DOMAIN t THEN t[p].subscribers ELSE <<>>
  BY DEF Grown
<1> QED
  BY <1>1, <1>2 DEF Grown

\* f holds the tree after each turn of the loop of subscribe_topic.
Turns(f, tr, segs) ==
    f = [i \in 0 .. Len(segs) |->
            IF i = 0 THEN tr
            ELSE FindOrCreateChild(f[i - 1], SubSeq(segs, 1, i - 1), segs[i])]

LEMMA TurnsExist ==
    ASSUME NEW tr \in Tree, NEW segs \in Seq(Segment)
    PROVE  \E f : Turns(f, tr, segs)
<1>1. PICK n \in Nat : n = Len(segs)
  OBVIOUS
<1> DEFINE step == [i \in 1 .. n |->
                      [t \in Tree |-> FindOrCreateChild(t, SubSeq(segs, 1, i - 1), segs[i])]]
<1>2. step \in [1 .. n -> [Tree -> Tree]]
  <2>1. ASSUME NEW i \in 1 .. n, NEW t \in Tree
        PROVE  FindOrCreateChild(t, SubSeq(segs, 1, i - 1), segs[i]) \in Tree
    <3>1. SubSeq(segs, 1, i - 1) \in Seq(Segment) /\ segs[i] \in Segment
      BY <1>1, PrefixSnoc
    <3> QED
      BY <3>1, FindOrCreateType
  <2> QED
    BY <2>1
<1>3. \A i \in 1 .. n, t \in Tree :
          step[i][t] = FindOrCreateChild(t, SubSeq(segs, 1, i - 1), segs[i])
  OBVIOUS
<1> HIDE DEF step
<1>4. PICK f \in [0 .. n -> Tree] : Loop(f, tr, step, n)
  BY <1>2, LoopExists
<1>5. ASSUME NEW i \in 0 .. n
      PROVE  f[i] = IF i = 0 THEN tr
                    ELSE FindOrCreateChild(f[i - 1], SubSeq(segs, 1, i - 1), segs[i])
  <2>1. CASE i = 0
    BY <1>4, <2>1 DEF Loop
  <2>2. CASE i # 0
    <3>1. i \in 1 .. n /\ i - 1 \in 0 .. n
      BY <1>1, <2>2
    <3>2. f[i - 1] \in Tree
      BY <1>4, <3>1
    <3>3. f[i] = step[i][f[i - 1]]
      BY <1>4, <3>1 DEF Loop
    <3> QED
      BY <1>3, <2>2, <3>1, <3>2, <3>3
  <2> QED
    BY <2>1, <2>2
<1> QED
  BY <1>1, <1>4, <1>5 DEF Turns

\* The loop of subscribe_topic keeps the tree in order, and adds the nodes on the
\* way to the filter that are missing.
LEMMA DescendGrows ==
    ASSUME NEW tr, Trie(tr), NEW segs \in Seq(Segment)
    PROVE  Trie(Descend(tr, segs)) /\ Grown(tr, Descend(tr, segs), Prefixes(segs))
<1>1. PICK n \in Nat : n = Len(segs)
  OBVIOUS
<1>2. PICK f : f = CHOOSE g : Turns(g, tr, segs)
  OBVIOUS
<1>3. Turns(f, tr, segs)
  BY <1>2, TurnsExist DEF Trie
<1>4. Descend(tr, segs) = f[n]
  BY <1>1, <1>2 DEF Descend, Turns
<1>5. f[0] = tr /\ \A i \in 1 .. n :
          f[i] = FindOrCreateChild(f[i - 1], SubSeq(segs, 1, i - 1), segs[i])
  BY <1>1, <1>3 DEF Turns
<1> DEFINE Past(i) == {SubSeq(segs, 1, j) : j \in 0 .. i}
           Fine(i) == Trie(f[i]) /\ Grown(tr, f[i], Past(i))
           Good == {i \in 0 .. n : Fine(i)}
<1>6. 0 \in Good
  <2>1. Past(0) = {<<>>}
    <3>1. SubSeq(segs, 1, 0) = <<>>
      BY PrefixWhole
    <3>2. 0 .. 0 = {0}
      OBVIOUS
    <3>3. Past(0) = {SubSeq(segs, 1, j) : j \in {0}}
      BY <3>2
    <3> QED
      BY <3>1, <3>3
  <2> HIDE DEF Past
  <2>2. Grown(tr, tr, {<<>>})
    BY DEF Grown, Trie
  <2>3. Fine(0)
    BY <1>5, <2>1, <2>2
  <2> QED
    BY <2>3
<1>7. ASSUME NEW i \in 1 .. n, i - 1 \in Good
      PROVE  i \in Good
  <2>1. PICK path, seg : path = SubSeq(segs, 1, i - 1) /\ seg = segs[i]
    OBVIOUS
  <2>2. path \in Seq(Segment) /\ seg \in Segment /\ SubSeq(segs, 1, i) = Append(path, seg)
    BY <1>1, <2>1, PrefixSnoc
  <2>3. PICK t : t = f[i - 1]
    OBVIOUS
  <2>4. Trie(t) /\ Grown(tr, t, Past(i - 1))
    BY <1>7, <2>3
  <2>5. path \in Past(i - 1)
    BY <2>1
  <2>6. Past(i) = Past(i - 1) \cup {Append(path, seg)}
    <3>1. 0 .. i = (0 .. (i - 1)) \cup {i}
      OBVIOUS
    <3>2. \A j \in 0 .. (i - 1) : SubSeq(segs, 1, j) \in Past(i)
      OBVIOUS
    <3>3. Append(path, seg) \in Past(i)
      BY <2>2
    <3>4. \A x \in Past(i) : x \in Past(i - 1) \/ x = Append(path, seg)
      BY <2>2, <3>1
    <3> QED
      BY <3>2, <3>3, <3>4
  <2> HIDE DEF Past
  <2>7. path \in DOMAIN t
    BY <2>4, <2>5 DEF Grown
  <2>8. f[i] = FindOrCreateChild(t, path, seg)
    BY <1>5, <2>1, <2>3
  <2>9. Trie(f[i]) /\ Grown(t, f[i], {Append(path, seg)})
    BY <2>2, <2>4, <2>7, <2>8, TrieGrows
  <2>10. Grown(tr, f[i], Past(i - 1) \cup {Append(path, seg)})
    BY <2>4, <2>9, GrownTwice
  <2>11. Fine(i)
    BY <2>6, <2>9, <2>10
  <2> HIDE DEF Fine
  <2> QED
    BY <2>11
<1> HIDE DEF Good
<1>8. \A i \in 0 .. n : i \in Good
  BY <1>6, <1>7, EveryTurn
<1>9. Prefixes(segs) = Past(n)
  BY <1>1 DEF Prefixes
<1> HIDE DEF Past
<1> QED
  BY <1>4, <1>8, <1>9 DEF Good

-----------------------------------------------------------------------------
(* The trie is the set of subscriptions. *)

\* The paths that the subscriptions made call for.
CalledBy(R) == UNION {Prefixes(f) : f \in {r[1] : r \in R}}
Called == {<<>>} \cup CalledBy(registered)

SubscribersOf(t, reg) ==
    \A p \in DOMAIN t :
        /\ IsInjective(t[p].subscribers)
        /\ ToSet(t[p].subscribers) = {c \in Client : <<p, c>> \in reg}

\* The inductive invariant.
TableInv ==
    /\ registered \subseteq Seq(Segment) \X Client
    /\ Trie(tree)
    /\ DOMAIN tree = Called
    /\ SubscribersOf(tree, registered)

\* What a path is below: itself, and at each step up its parent.
LEMMA ParentPrefix ==
    ASSUME NEW S, NEW path \in Seq(S), NEW p \in Seq(S)
    PROVE  (Len(p) = Len(path) + 1 /\ IsPrefix(path, p))
             <=> \E seg \in S : p = Append(path, seg)
<1>1. ASSUME Len(p) = Len(path) + 1, IsPrefix(path, p)
      PROVE  \E seg \in S : p = Append(path, seg)
  <2>1. Len(p) \in 1 .. Len(p) /\ Len(p) - 1 = Len(path)
    BY <1>1
  <2>2. SubSeq(p, 1, Len(path)) = path
    BY <1>1, PrefixWhole DEF IsPrefix
  <2>3. p[Len(p)] \in S /\ SubSeq(p, 1, Len(p)) = Append(SubSeq(p, 1, Len(p) - 1), p[Len(p)])
    BY <2>1, PrefixSnoc
  <2>4. SubSeq(p, 1, Len(p)) = p
    BY PrefixWhole
  <2> QED
    BY <2>1, <2>2, <2>3, <2>4
<1>2. ASSUME NEW seg \in S, p = Append(path, seg)
      PROVE  Len(p) = Len(path) + 1 /\ IsPrefix(path, p)
  <2>1. Len(p) = Len(path) + 1 /\ SubSeq(p, 1, Len(path)) = path
    BY <1>2, SnocParts
  <2>2. SubSeq(path, 1, Len(path)) = path /\ Len(path) \in Nat
    BY PrefixWhole
  <2> QED
    BY <2>1, <2>2 DEF IsPrefix
<1> QED
  BY <1>1, <1>2

\* The inductive invariant gives what the run checks.
LEMMA TableInvMirrors == TableInv => TreeMirrorsSubscriptions
<1> SUFFICES ASSUME TableInv PROVE TreeMirrorsSubscriptions
  OBVIOUS
<1>1. DOMAIN tree = {<<>>} \cup UNION {Prefixes(f) : f \in {r[1] : r \in registered}}
  BY DEF TableInv, Called, CalledBy
<1>2. ASSUME NEW path \in DOMAIN tree
      PROVE  /\ IsInjective(tree[path].children)
             /\ {Append(path, seg) : seg \in ToSet(tree[path].children)}
                   = {p \in DOMAIN tree : Len(p) = Len(path) + 1 /\ IsPrefix(path, p)}
             /\ IsInjective(tree[path].subscribers)
             /\ ToSet(tree[path].subscribers) = {c \in Client : <<path, c>> \in registered}
  <2>1. /\ tree \in Tree /\ DOMAIN tree \subseteq Seq(Segment)
        /\ tree[path].children \in Seq(Segment)
    BY TreeParts DEF TableInv, Trie
  <2>2. IsInjective(tree[path].children)
    BY DEF TableInv, Trie
  <2>3. ASSUME NEW p \in DOMAIN tree, Len(p) = Len(path) + 1, IsPrefix(path, p)
        PROVE  \E seg \in ToSet(tree[path].children) : p = Append(path, seg)
    <3>1. PICK seg \in Segment : p = Append(path, seg)
      BY <2>1, <2>3, ParentPrefix
    <3>2. Contains(tree[path].children, seg)
      BY <3>1 DEF TableInv, Trie
    <3> QED
      BY <2>1, <3>1, <3>2, ToSetContains
  <2>4. ASSUME NEW seg \in ToSet(tree[path].children), NEW p, p = Append(path, seg)
        PROVE  p \in DOMAIN tree /\ Len(p) = Len(path) + 1 /\ IsPrefix(path, p)
    <3>1. seg \in Segment /\ Contains(tree[path].children, seg)
      BY <2>1, ToSetContains
    <3>2. p \in DOMAIN tree
      BY <2>4, <3>1 DEF TableInv, Trie
    <3> QED
      BY <2>1, <2>4, <3>1, <3>2, ParentPrefix
  <2>5. {Append(path, seg) : seg \in ToSet(tree[path].children)}
          = {p \in DOMAIN tree : Len(p) = Len(path) + 1 /\ IsPrefix(path, p)}
    BY <2>3, <2>4
  <2> QED
    BY <2>2, <2>5 DEF TableInv, SubscribersOf
<1> QED
  BY <1>1, <1>2 DEF TreeMirrorsSubscriptions

LEMMA TableInitInv == TableInit => TableInv
<1> SUFFICES ASSUME TableInit PROVE TableInv
  OBVIOUS
<1>1. Called = {<<>>} /\ registered \subseteq Seq(Segment) \X Client
  BY DEF TableInit, Called, CalledBy
<1>2. DOMAIN tree = {<<>>} /\ tree[<<>>] = Leaf
  BY DEF TableInit
<1>3. <<>> \in Seq(Segment) /\ Leaf \in Node /\ Leaf.children = <<>> /\ Leaf.subscribers = <<>>
  BY DEF Leaf, Node
<1>4. tree \in Tree
  <2>1. tree \in [{<<>>} -> Node]
    BY <1>3 DEF TableInit
  <2>2. {<<>>} \in SUBSET Seq(Segment)
    BY <1>3
  <2> QED
    BY <2>1, <2>2 DEF Tree
<1>5. ASSUME NEW seg \in Segment
      PROVE  ~Contains(Leaf.children, seg) /\ Append(<<>>, seg) # <<>>
  <2>1. ~Contains(Leaf.children, seg)
    BY <1>3 DEF Contains
  <2>2. Len(Append(<<>>, seg)) = 1
    BY <1>3, SnocParts
  <2> QED
    BY <2>1, <2>2
<1>6. IsInjective(<<>>) /\ ToSet(<<>>) = {} /\ ~(Len(<<>>) > 0)
  BY DEF IsInjective, ToSet
<1>7. Trie(tree)
  BY <1>2, <1>3, <1>4, <1>5, <1>6 DEF Trie
<1>8. SubscribersOf(tree, registered)
  <2>1. registered = {}
    BY DEF TableInit
  <2> QED
    BY <1>2, <1>3, <1>6, <2>1 DEF SubscribersOf
<1> QED
  BY <1>1, <1>2, <1>7, <1>8 DEF TableInv

\* v is u with the list of the node path replaced by subs.
Relisted(u, v, path, subs) ==
    /\ DOMAIN v = DOMAIN u
    /\ \A p \in DOMAIN u :
          /\ v[p].children = u[p].children
          /\ v[p].subscribers = IF p = path THEN subs ELSE u[p].subscribers

LEMMA RelistTree ==
    ASSUME NEW u, Trie(u), NEW path \in DOMAIN u, NEW c \in Client,
           NEW v, v = [u EXCEPT ![path].subscribers = AddSubscriber(@, c)]
    PROVE  Trie(v) /\ Relisted(u, v, path, AddSubscriber(u[path].subscribers, c))
<1>1. u \in Tree
  BY DEF Trie
<1>2. PICK nd \in Node : nd = u[path]
  BY <1>1, TreeParts
<1>3. PICK subs : subs = AddSubscriber(u[path].subscribers, c)
  OBVIOUS
<1>4. subs \in Seq(Client)
  BY <1>1, <1>3, TreeParts, AddSubscriberAdds
<1>5. PICK new : new = [nd EXCEPT !.subscribers = subs]
  OBVIOUS
<1>6. new \in Node /\ new.children = nd.children /\ new.subscribers = subs
  BY <1>4, <1>5 DEF Node
<1>7. v = [u EXCEPT ![path] = new]
  BY <1>2, <1>3, <1>5
<1>8. DOMAIN v = DOMAIN u /\ v[path] = new /\ \A p \in DOMAIN u \ {path} : v[p] = u[p]
  BY <1>1, <1>7, TreeParts
<1>9. v \in Tree
  <2>1. v = [p \in DOMAIN u |-> v[p]]
    BY <1>7
  <2>2. v \in [DOMAIN u -> Node]
    BY <1>1, <1>6, <1>8, <2>1, TreeParts
  <2>3. DOMAIN u \in SUBSET Seq(Segment)
    BY <1>1, TreeParts
  <2> QED
    BY <2>2, <2>3 DEF Tree
<1>10. Relisted(u, v, path, subs)
  <2>1. ASSUME NEW p \in DOMAIN u
        PROVE  /\ v[p].children = u[p].children
               /\ v[p].subscribers = IF p = path THEN subs ELSE u[p].subscribers
    <3>1. CASE p = path
      BY <1>2, <1>6, <1>8, <3>1
    <3>2. CASE p # path
      BY <1>8, <3>2
    <3> QED
      BY <3>1, <3>2
  <2> QED
    BY <1>8, <2>1 DEF Relisted
<1>11. \A p \in DOMAIN v : v[p].children = u[p].children
  BY <1>10 DEF Relisted
<1>12. Trie(v)
  BY <1>8, <1>9, <1>11 DEF Trie
<1> QED
  BY <1>3, <1>10, <1>12

\* A subscription calls for the paths of its filter.
LEMMA CalledMeans ==
    ASSUME NEW R, NEW x
    PROVE  x \in CalledBy(R) <=> \E r \in R : x \in Prefixes(r[1])
  BY DEF CalledBy

LEMMA CalledGrows ==
    ASSUME NEW segs, NEW c, registered' = registered \cup {<<segs, c>>}
    PROVE  Called' = Called \cup Prefixes(segs)
<1>1. PICK R : R = registered
  OBVIOUS
<1>2. PICK Q : Q = R \cup {<<segs, c>>}
  OBVIOUS
<1>3. <<segs, c>>[1] = segs
  OBVIOUS
<1>4. ASSUME NEW x
      PROVE  (\E r \in Q : x \in Prefixes(r[1]))
                <=> (\E r \in R : x \in Prefixes(r[1])) \/ x \in Prefixes(segs)
  BY <1>2, <1>3
<1>5. ASSUME NEW x
      PROVE  x \in CalledBy(Q) <=> x \in CalledBy(R) \/ x \in Prefixes(segs)
  BY <1>4, CalledMeans
<1>6. CalledBy(Q) = CalledBy(R) \cup Prefixes(segs)
  BY <1>5
<1>7. Called = {<<>>} \cup CalledBy(R) /\ Called' = {<<>>} \cup CalledBy(Q)
  BY <1>1, <1>2 DEF Called
<1> QED
  BY <1>6, <1>7

\* The node of a filter is called for by every subscription to it.
LEMMA RegisteredCalled ==
    ASSUME TableInv, NEW p, NEW c, <<p, c>> \in registered
    PROVE  p \in DOMAIN tree
<1>1. p \in Seq(Segment)
  BY DEF TableInv
<1>2. p \in Prefixes(p)
  <2>1. SubSeq(p, 1, Len(p)) = p /\ Len(p) \in 0 .. Len(p)
    BY <1>1, PrefixWhole
  <2> QED
    BY <2>1 DEF Prefixes
<1>3. p \in {r[1] : r \in registered}
  <2>1. <<p, c>>[1] = p
    OBVIOUS
  <2> QED
    BY <2>1
<1>4. p \in Called
  BY <1>2, <1>3 DEF Called, CalledBy
<1> QED
  BY <1>4 DEF TableInv

LEMMA SubscribeInv ==
    ASSUME TableInv, NEW name \in FilterString, NEW c \in Client, SubscribeTopic(name, c)
    PROVE  TableInv'
<1>1. PICK segs \in Seq(Segment) : segs = SplitTopic(name)
  BY FilterType
<1>2. CASE UNCHANGED <<tree, registered>>
  BY <1>2 DEF TableInv, Called
<1>3. CASE /\ tree' = [Descend(tree, segs) EXCEPT ![segs].subscribers = AddSubscriber(@, c)]
           /\ registered' = registered \cup {<<segs, c>>}
  <2>1. PICK u : u = Descend(tree, segs)
    OBVIOUS
  <2>2. Trie(u) /\ Grown(tree, u, Prefixes(segs))
    BY <2>1, DescendGrows DEF TableInv
  <2>3. segs \in DOMAIN u
    <3>1. SubSeq(segs, 1, Len(segs)) = segs /\ Len(segs) \in 0 .. Len(segs)
      BY PrefixWhole
    <3> QED
      BY <2>2, <3>1 DEF Grown, Prefixes
  <2>4. PICK subs : subs = AddSubscriber(u[segs].subscribers, c)
    OBVIOUS
  <2>5. PICK v : v = tree'
    OBVIOUS
  <2>6. v = [u EXCEPT ![segs].subscribers = AddSubscriber(@, c)]
    BY <1>3, <2>1, <2>5
  <2>7. Trie(v) /\ Relisted(u, v, segs, subs)
    BY <2>2, <2>3, <2>4, <2>6, RelistTree
  <2>8. DOMAIN v = Called'
    <3>1. Called' = Called \cup Prefixes(segs)
      BY <1>3, CalledGrows
    <3> QED
      BY <2>2, <2>7, <3>1 DEF Grown, Relisted, TableInv
  <2>9. PICK reg : reg = registered \cup {<<segs, c>>}
    OBVIOUS
  <2>10. ASSUME NEW p \in DOMAIN u
         PROVE  /\ IsInjective(u[p].subscribers)
                /\ u[p].subscribers \in Seq(Client)
                /\ ToSet(u[p].subscribers) = {d \in Client : <<p, d>> \in registered}
    <3>1. u[p].subscribers \in Seq(Client)
      BY <2>2, TreeParts DEF Trie
    <3>2. CASE p \in DOMAIN tree
      <4>1. u[p].subscribers = tree[p].subscribers
        BY <2>2, <3>2 DEF Grown
      <4> QED
        BY <3>1, <3>2, <4>1 DEF TableInv, SubscribersOf
    <3>3. CASE p \notin DOMAIN tree
      <4>1. u[p].subscribers = <<>>
        BY <2>2, <3>3 DEF Grown
      <4>2. \A d : <<p, d>> \notin registered
        BY <3>3, RegisteredCalled
      <4>3. IsInjective(<<>>) /\ ToSet(<<>>) = {}
        BY DEF IsInjective, ToSet
      <4> QED
        BY <3>1, <4>1, <4>2, <4>3
    <3> QED
      BY <3>2, <3>3
  <2>11. /\ IsInjective(subs)
         /\ ToSet(subs) = {d \in Client : <<segs, d>> \in reg}
    <3>1. IsInjective(subs) /\ ToSet(subs) = ToSet(u[segs].subscribers) \cup {c}
      BY <2>3, <2>4, <2>10, AddSubscriberAdds
    <3> QED
      BY <2>3, <2>9, <2>10, <3>1
  <2>12. SubscribersOf(v, reg)
    <3> SUFFICES ASSUME NEW p \in DOMAIN v
                 PROVE  /\ IsInjective(v[p].subscribers)
                        /\ ToSet(v[p].subscribers) = {d \in Client : <<p, d>> \in reg}
      BY DEF SubscribersOf
    <3>1. CASE p = segs
      BY <2>3, <2>7, <2>11, <3>1 DEF Relisted
    <3>2. CASE p # segs
      <4>1. p \in DOMAIN u /\ v[p].subscribers = u[p].subscribers
        BY <2>7, <3>2 DEF Relisted
      <4>2. \A d : <<p, d>> \in reg <=> <<p, d>> \in registered
        BY <2>9, <3>2
      <4> QED
        BY <2>10, <4>1, <4>2
    <3> QED
      BY <3>1, <3>2
  <2>13. reg \subseteq Seq(Segment) \X Client
    BY <2>9 DEF TableInv
  <2>14. registered' = reg /\ tree' = v
    BY <1>3, <2>5, <2>9
  <2>15. Trie(tree') /\ SubscribersOf(tree', registered')
    BY <2>7, <2>12, <2>14
  <2> QED
    BY <2>8, <2>13, <2>14, <2>15 DEF TableInv, Trie, SubscribersOf
<1> QED
  BY <1>1, <1>2, <1>3 DEF SubscribeTopic

LEMMA TableInvHolds == TableSpec => []TableInv
<1>1. TableInit => TableInv
  BY TableInitInv
<1>2. TableInv /\ [TableNext]_tableVars => TableInv'
  <2> SUFFICES ASSUME TableInv, [TableNext]_tableVars PROVE TableInv'
    OBVIOUS
  <2>1. CASE \E f \in FilterString, c \in Client : SubscribeTopic(f, c)
    BY <2>1, SubscribeInv
  <2>2. CASE UNCHANGED <<tree, registered>>
    BY <2>2 DEF TableInv, Called
  <2> QED
    BY <2>1, <2>2 DEF TableNext, LookupFails, tableVars
<1> QED
  BY <1>1, <1>2, PTL DEF TableSpec

\* The trie holds exactly the subscriptions made, in every run of subscribe_topic
\* and get_matching_subscribers: a node for every prefix of a filter, once in the
\* list of its parent, and each subscriber once in the node of its filter.
THEOREM TreeMirrorsSubscriptionsHolds == TableSpec => []TreeMirrorsSubscriptions
<1>1. TableInv => TreeMirrorsSubscriptions
  BY TableInvMirrors
<1> QED
  BY <1>1, TableInvHolds, PTL

-----------------------------------------------------------------------------
(* The loops over lists. *)

\* A topic without an empty segment is split into its segments.
LEMMA SplitPlain ==
    ASSUME NEW S, NEW name \in Seq(S), ~Contains(name, Empty)
    PROVE  SplitTopic(name) = name
<1>1. PICK n \in Nat : n = Len(name)
  OBVIOUS
<1> DEFINE Rec(f) == f = [i \in 0 .. Len(name) |->
                            IF i = 0 THEN <<>>
                            ELSE IF name[i] = Empty THEN f[i - 1] ELSE Append(f[i - 1], name[i])]
           pre == [i \in 0 .. Len(name) |-> SubSeq(name, 1, i)]
<1>2. \A i \in 1 .. n : name[i] # Empty /\ SubSeq(name, 1, i) = Append(SubSeq(name, 1, i - 1), name[i])
  BY <1>1, PrefixSnoc DEF Contains
<1>3. Rec(pre)
  <2>1. ASSUME NEW i \in 0 .. n
        PROVE  SubSeq(name, 1, i) =
                 IF i = 0 THEN <<>>
                 ELSE IF name[i] = Empty THEN pre[i - 1] ELSE Append(pre[i - 1], name[i])
    <3>1. CASE i = 0
      BY <3>1, PrefixWhole
    <3>2. CASE i # 0
      <4>1. i \in 1 .. n /\ i - 1 \in 0 .. n
        BY <1>1, <3>2
      <4>2. pre[i - 1] = SubSeq(name, 1, i - 1)
        BY <1>1, <4>1
      <4> HIDE DEF pre
      <4> QED
        BY <1>2, <3>2, <4>1, <4>2
    <3> QED
      BY <3>1, <3>2
  <2> QED
    BY <1>1, <2>1
<1>4. PICK f : f = CHOOSE g : Rec(g)
  OBVIOUS
<1>5. Tokens(name) = f[n]
  BY <1>1, <1>4 DEF Tokens
<1>6. Rec(f)
  <2> HIDE DEF Rec
  <2> QED
    BY <1>3, <1>4
<1>7. f[0] = <<>> /\ \A i \in 1 .. n : f[i] = Append(f[i - 1], name[i])
  <2>1. \A i \in 0 .. n : f[i] =
            IF i = 0 THEN <<>>
            ELSE IF name[i] = Empty THEN f[i - 1] ELSE Append(f[i - 1], name[i])
    BY <1>1, <1>6
  <2> HIDE DEF Rec, pre
  <2>2. f[0] = <<>>
    <3>1. 0 \in 0 .. n
      BY <1>1
    <3> QED
      BY <2>1, <3>1
  <2>3. ASSUME NEW i \in 1 .. n
        PROVE  f[i] = Append(f[i - 1], name[i])
    <3>1. i \in 0 .. n /\ i # 0 /\ name[i] # Empty
      BY <1>1, <1>2
    <3>2. f[i] = IF i = 0 THEN <<>>
                 ELSE IF name[i] = Empty THEN f[i - 1] ELSE Append(f[i - 1], name[i])
      BY <2>1, <3>1
    <3> QED
      BY <3>1, <3>2
  <2> QED
    BY <2>2, <2>3
<1> HIDE DEF Rec, pre
<1> DEFINE Fine(i) == f[i] = SubSeq(name, 1, i)
           Good == {i \in 0 .. n : Fine(i)}
<1>8. 0 \in Good
  <2>1. SubSeq(name, 1, 0) = <<>>
    BY PrefixWhole
  <2>2. Fine(0)
    BY <1>7, <2>1
  <2> HIDE DEF Fine
  <2> QED
    BY <2>2
<1>9. ASSUME NEW i \in 1 .. n, i - 1 \in Good
      PROVE  i \in Good
  <2>1. f[i - 1] = SubSeq(name, 1, i - 1)
    BY <1>9
  <2>2. f[i] = SubSeq(name, 1, i)
    BY <1>2, <1>7, <2>1
  <2> QED
    BY <2>2
<1> HIDE DEF Good
<1>10. \A i \in 0 .. n : i \in Good
  BY <1>8, <1>9, EveryTurn
<1>11. Tokens(name) = name
  BY <1>1, <1>5, <1>10, PrefixWhole DEF Good
<1>12. SplitTopic(name) = [i \in 1 .. Len(name) |-> name[i]]
  BY <1>11 DEF SplitTopic
<1> QED
  BY <1>12

\* The first n entries of a list.
FirstOf(list, n) == {list[j] : j \in 1 .. n}

LEMMA FirstOfNone ==
    ASSUME NEW list
    PROVE  FirstOf(list, 0) = {}
  BY DEF FirstOf

LEMMA FirstOfNext ==
    ASSUME NEW list, NEW n \in Nat \ {0}
    PROVE  FirstOf(list, n) = FirstOf(list, n - 1) \cup {list[n]}
<1>1. \A j \in 1 .. n : j = n \/ j \in 1 .. (n - 1)
  OBVIOUS
<1>2. n \in 1 .. n /\ \A j \in 1 .. (n - 1) : j \in 1 .. n
  OBVIOUS
<1> QED
  BY <1>1, <1>2 DEF FirstOf

LEMMA FirstOfAll ==
    ASSUME NEW S, NEW list \in Seq(S)
    PROVE  FirstOf(list, Len(list)) = ToSet(list)
  BY DEF FirstOf, ToSet

\* The loop of match_recursive over the subscribers of a node.
LEMMA AddAllAdds ==
    ASSUME NEW S, NEW found \in Seq(S), NEW list \in Seq(S)
    PROVE  /\ AddAll(found, list) \in Seq(S)
           /\ IsInjective(found) => IsInjective(AddAll(found, list))
           /\ ToSet(AddAll(found, list)) = ToSet(found) \cup ToSet(list)
<1>1. PICK n \in Nat : n = Len(list)
  OBVIOUS
<1> DEFINE Rec(f) == f = [i \in 0 .. Len(list) |->
                            IF i = 0 THEN found ELSE AddSubscriber(f[i - 1], list[i])]
           step == [i \in 1 .. n |-> [l \in Seq(S) |-> AddSubscriber(l, list[i])]]
<1>2. \A i \in 1 .. n : list[i] \in S
  BY <1>1
<1>3. \A i \in 1 .. n, l \in Seq(S) :
          step[i][l] = AddSubscriber(l, list[i]) /\ AddSubscriber(l, list[i]) \in Seq(S)
  BY <1>2, AddSubscriberAdds
<1>4. step \in [1 .. n -> [Seq(S) -> Seq(S)]]
  BY <1>3
<1> HIDE DEF step
<1>5. PICK g \in [0 .. n -> Seq(S)] : Loop(g, found, step, n)
  BY <1>4, LoopExists
<1>6. Rec(g)
  <2>1. ASSUME NEW i \in 0 .. n
        PROVE  g[i] = IF i = 0 THEN found ELSE AddSubscriber(g[i - 1], list[i])
    <3>1. CASE i = 0
      BY <1>5, <3>1 DEF Loop
    <3>2. CASE i # 0
      <4>1. i \in 1 .. n /\ i - 1 \in 0 .. n
        BY <1>1, <3>2
      <4> QED
        BY <1>3, <1>5, <3>2, <4>1 DEF Loop
    <3> QED
      BY <3>1, <3>2
  <2> QED
    BY <1>1, <1>5, <2>1
<1>7. PICK f : f = CHOOSE h : Rec(h)
  OBVIOUS
<1>8. AddAll(found, list) = f[n]
  BY <1>1, <1>7 DEF AddAll
<1>9. Rec(f)
  <2> HIDE DEF Rec
  <2> QED
    BY <1>6, <1>7
<1>10. f[0] = found /\ \A i \in 1 .. n : f[i] = AddSubscriber(f[i - 1], list[i])
  <2>1. \A i \in 0 .. n : f[i] = IF i = 0 THEN found ELSE AddSubscriber(f[i - 1], list[i])
    BY <1>1, <1>9
  <2> QED
    BY <2>1
<1> HIDE DEF Rec
<1> DEFINE Fine(i) == /\ f[i] \in Seq(S)
                      /\ IsInjective(found) => IsInjective(f[i])
                      /\ ToSet(f[i]) = ToSet(found) \cup FirstOf(list, i)
           Good == {i \in 0 .. n : Fine(i)}
<1>11. 0 \in Good
  BY <1>10, FirstOfNone
<1>12. ASSUME NEW i \in 1 .. n, i - 1 \in Good
       PROVE  i \in Good
  <2>1. PICK l \in Seq(S) : l = f[i - 1]
    BY <1>12
  <2>2. Fine(i - 1)
    BY <1>12
  <2>3. PICK m \in Seq(S) : m = AddSubscriber(l, list[i])
    BY <1>2, AddSubscriberAdds
  <2>4. (IsInjective(l) => IsInjective(m)) /\ ToSet(m) = ToSet(l) \cup {list[i]}
    BY <1>2, <2>3, AddSubscriberAdds
  <2>5. FirstOf(list, i) = FirstOf(list, i - 1) \cup {list[i]}
    BY FirstOfNext
  <2>6. f[i] = m
    BY <1>10, <2>1, <2>3
  <2>7. Fine(i)
    BY <2>1, <2>2, <2>4, <2>5, <2>6
  <2> HIDE DEF Fine
  <2> QED
    BY <2>7
<1> HIDE DEF Good
<1>13. \A i \in 0 .. n : i \in Good
  BY <1>11, <1>12, EveryTurn
<1>14. Fine(n)
  BY <1>13 DEF Good
<1> QED
  BY <1>1, <1>8, <1>14, FirstOfAll

\* A turn of the loop of remove_duplicates.
KeepOnce(kept, c) == IF Contains(kept, c) THEN kept ELSE Append(kept, c)

LEMMA KeepOnceKeeps ==
    ASSUME NEW S, NEW kept \in Seq(S), NEW c \in S
    PROVE  /\ KeepOnce(kept, c) \in Seq(S)
           /\ IsInjective(kept) => IsInjective(KeepOnce(kept, c))
           /\ ToSet(KeepOnce(kept, c)) = ToSet(kept) \cup {c}
<1>1. CASE Contains(kept, c)
  BY <1>1, ToSetContains DEF KeepOnce
<1>2. CASE ~Contains(kept, c)
  <2>1. PICK new : new = Append(kept, c)
    OBVIOUS
  <2>2. new \in Seq(S)
    BY <2>1, SnocParts
  <2>3. IsInjective(kept) => IsInjective(new)
    BY <1>2, <2>1, InjectiveSnoc
  <2>4. \A x : Contains(new, x) <=> Contains(kept, x) \/ x = c
    BY <2>1, ContainsSnoc
  <2>5. \A x : (x \in ToSet(new) <=> Contains(new, x)) /\ (x \in ToSet(kept) <=> Contains(kept, x))
    BY <2>2, ToSetContains
  <2>6. ToSet(new) = ToSet(kept) \cup {c}
    BY <2>4, <2>5
  <2> QED
    BY <1>2, <2>1, <2>2, <2>3, <2>6 DEF KeepOnce
<1> QED
  BY <1>1, <1>2

\* remove_duplicates keeps every address, once.
LEMMA RemoveDuplicatesKeeps ==
    ASSUME NEW S, NEW list \in Seq(S)
    PROVE  /\ IsInjective(RemoveDuplicates(list))
           /\ ToSet(RemoveDuplicates(list)) = ToSet(list)
<1>1. PICK n \in Nat : n = Len(list)
  OBVIOUS
<1> DEFINE Rec(f) == f = [i \in 0 .. Len(list) |->
                            IF i = 0 THEN <<>>
                            ELSE IF Contains(f[i - 1], list[i]) THEN f[i - 1]
                            ELSE Append(f[i - 1], list[i])]
           step == [i \in 1 .. n |-> [l \in Seq(S) |-> KeepOnce(l, list[i])]]
<1>2. \A i \in 1 .. n : list[i] \in S
  BY <1>1
<1>3. \A i \in 1 .. n, l \in Seq(S) :
          step[i][l] = KeepOnce(l, list[i]) /\ KeepOnce(l, list[i]) \in Seq(S)
  BY <1>2, KeepOnceKeeps
<1>4. step \in [1 .. n -> [Seq(S) -> Seq(S)]]
  BY <1>3
<1> HIDE DEF step
<1>5. PICK g \in [0 .. n -> Seq(S)] : Loop(g, <<>>, step, n)
  <2>1. <<>> \in Seq(S)
    OBVIOUS
  <2> QED
    BY <1>4, <2>1, LoopExists
<1>6. Rec(g)
  <2>1. ASSUME NEW i \in 0 .. n
        PROVE  g[i] = IF i = 0 THEN <<>>
                      ELSE IF Contains(g[i - 1], list[i]) THEN g[i - 1]
                      ELSE Append(g[i - 1], list[i])
    <3>1. CASE i = 0
      BY <1>5, <3>1 DEF Loop
    <3>2. CASE i # 0
      <4>1. i \in 1 .. n /\ i - 1 \in 0 .. n
        BY <1>1, <3>2
      <4>2. g[i] = KeepOnce(g[i - 1], list[i])
        BY <1>3, <1>5, <3>2, <4>1 DEF Loop
      <4> QED
        BY <3>2, <4>2 DEF KeepOnce
    <3> QED
      BY <3>1, <3>2
  <2> QED
    BY <1>1, <1>5, <2>1
<1>7. PICK f : f = CHOOSE h : Rec(h)
  OBVIOUS
<1>8. RemoveDuplicates(list) = f[n]
  BY <1>1, <1>7 DEF RemoveDuplicates
<1>9. Rec(f)
  <2> HIDE DEF Rec
  <2> QED
    BY <1>6, <1>7
<1>10. f[0] = <<>> /\ \A i \in 1 .. n : f[i] = KeepOnce(f[i - 1], list[i])
  <2>1. \A i \in 0 .. n : f[i] = IF i = 0 THEN <<>>
                                 ELSE IF Contains(f[i - 1], list[i]) THEN f[i - 1]
                                 ELSE Append(f[i - 1], list[i])
    BY <1>1, <1>9
  <2>2. f[0] = <<>>
    BY <2>1
  <2>3. ASSUME NEW i \in 1 .. n
        PROVE  f[i] = KeepOnce(f[i - 1], list[i])
    <3>1. i \in 0 .. n /\ i # 0
      OBVIOUS
    <3> QED
      BY <2>1, <3>1 DEF KeepOnce
  <2> QED
    BY <2>2, <2>3
<1> HIDE DEF Rec
<1> DEFINE Fine(i) == /\ f[i] \in Seq(S)
                      /\ IsInjective(f[i])
                      /\ ToSet(f[i]) = FirstOf(list, i)
           Good == {i \in 0 .. n : Fine(i)}
<1>11. 0 \in Good
  <2>1. <<>> \in Seq(S) /\ IsInjective(<<>>) /\ ToSet(<<>>) = {}
    BY DEF IsInjective, ToSet
  <2>2. Fine(0)
    BY <1>10, <2>1, FirstOfNone
  <2> HIDE DEF Fine
  <2> QED
    BY <2>2
<1>12. ASSUME NEW i \in 1 .. n, i - 1 \in Good
       PROVE  i \in Good
  <2>1. PICK l \in Seq(S) : l = f[i - 1]
    BY <1>12
  <2>2. Fine(i - 1)
    BY <1>12
  <2>3. PICK m \in Seq(S) : m = KeepOnce(l, list[i])
    BY <1>2, KeepOnceKeeps
  <2>4. (IsInjective(l) => IsInjective(m)) /\ ToSet(m) = ToSet(l) \cup {list[i]}
    BY <1>2, <2>3, KeepOnceKeeps
  <2>5. FirstOf(list, i) = FirstOf(list, i - 1) \cup {list[i]}
    BY FirstOfNext
  <2>6. f[i] = m
    BY <1>10, <2>1, <2>3
  <2>7. Fine(i)
    BY <2>1, <2>2, <2>4, <2>5, <2>6
  <2> HIDE DEF Fine
  <2> QED
    BY <2>7
<1> HIDE DEF Good
<1>13. \A i \in 0 .. n : i \in Good
  BY <1>11, <1>12, EveryTurn
<1>14. Fine(n)
  BY <1>13 DEF Good
<1> QED
  BY <1>1, <1>8, <1>14, FirstOfAll

-----------------------------------------------------------------------------
(* The walk of match_recursive. *)

\* The i-th child of a node, how many there are, and whether the walk for segs
\* goes down to it.
Kid(path, i) == Append(path, tree[path].children[i])
Kids(path) == Len(tree[path].children)
Down(path, i, segs) == Follows(tree[path].children[i], segs[Len(path) + 1])

\* visit gives a list for a list at each child of path.
Visits(visit, path) ==
    \A i \in 1 .. Kids(path) : visit[Kid(path, i)] \in [Seq(Client) -> Seq(Client)]

\* f holds the result after each turn of the loop over the children.
KidTurns(f, visit, path, segs, found) ==
    /\ f \in [0 .. Kids(path) -> Seq(Client)]
    /\ f[0] = found
    /\ \A i \in 1 .. Kids(path) :
          f[i] = IF Down(path, i, segs) THEN visit[Kid(path, i)][f[i - 1]] ELSE f[i - 1]

LEMMA KidsType ==
    ASSUME tree \in Tree, NEW path \in DOMAIN tree
    PROVE  /\ Kids(path) \in Nat
           /\ \A i \in 1 .. Kids(path) : tree[path].children[i] \in Segment
<1>1. PICK ch \in Seq(Segment) : ch = tree[path].children
  BY TreeParts
<1>2. Kids(path) = Len(ch)
  BY <1>1 DEF Kids
<1>3. Len(ch) \in Nat /\ \A i \in 1 .. Len(ch) : ch[i] \in Segment
  OBVIOUS
<1> QED
  BY <1>1, <1>2, <1>3

LEMMA VisitRuns ==
    ASSUME tree \in Tree, NEW path \in DOMAIN tree, NEW visit, Visits(visit, path),
           NEW segs, NEW found \in Seq(Client)
    PROVE  \E f : /\ KidTurns(f, visit, path, segs, found)
                  /\ VisitChildren(visit, path, segs, found) = f[Kids(path)]
<1>1. PICK ch \in Seq(Segment) : ch = tree[path].children
  BY TreeParts
<1>2. PICK n \in Nat : n = Len(ch) /\ n = Kids(path)
  BY <1>1 DEF Kids
<1> DEFINE After(l, i) == IF Follows(ch[i], segs[Len(path) + 1])
                            THEN visit[Append(path, ch[i])][l] ELSE l
           Rec(f) == f = [i \in 0 .. Len(ch) |->
                            IF i = 0 THEN found
                            ELSE IF Follows(ch[i], segs[Len(path) + 1])
                                   THEN visit[Append(path, ch[i])][f[i - 1]]
                                   ELSE f[i - 1]]
           step == [i \in 1 .. n |-> [l \in Seq(Client) |-> After(l, i)]]
<1>3. ASSUME NEW i \in 1 .. n
      PROVE  /\ Kid(path, i) = Append(path, ch[i])
             /\ Down(path, i, segs) <=> Follows(ch[i], segs[Len(path) + 1])
             /\ visit[Append(path, ch[i])] \in [Seq(Client) -> Seq(Client)]
  BY <1>1, <1>2 DEF Kid, Down, Visits
<1>4. ASSUME NEW i \in 1 .. n, NEW l \in Seq(Client)
      PROVE  After(l, i) \in Seq(Client)
  BY <1>3
<1>5. /\ step \in [1 .. n -> [Seq(Client) -> Seq(Client)]]
      /\ \A i \in 1 .. n, l \in Seq(Client) : step[i][l] = After(l, i)
  <2> HIDE DEF After
  <2> QED
    BY <1>4
<1> HIDE DEF step
<1>6. PICK g \in [0 .. n -> Seq(Client)] : Loop(g, found, step, n)
  BY <1>5, LoopExists
<1>7. \A i \in 1 .. n : g[i] = After(g[i - 1], i)
  <2> SUFFICES ASSUME NEW i \in 1 .. n PROVE g[i] = After(g[i - 1], i)
    OBVIOUS
  <2>1. i - 1 \in 0 .. n
    BY <1>2
  <2>2. PICK l \in Seq(Client) : l = g[i - 1]
    BY <1>6, <2>1
  <2>3. g[i] = step[i][l]
    BY <1>6, <2>2 DEF Loop
  <2> HIDE DEF After
  <2> QED
    BY <1>5, <2>2, <2>3
<1>8. Rec(g)
  <2>1. ASSUME NEW i \in 0 .. n
        PROVE  g[i] = IF i = 0 THEN found
                      ELSE IF Follows(ch[i], segs[Len(path) + 1])
                             THEN visit[Append(path, ch[i])][g[i - 1]]
                             ELSE g[i - 1]
    <3>1. CASE i = 0
      BY <1>6, <3>1 DEF Loop
    <3>2. CASE i # 0
      <4>1. i \in 1 .. n
        BY <1>2, <3>2
      <4> QED
        BY <1>7, <3>2, <4>1
    <3> QED
      BY <3>1, <3>2
  <2> QED
    BY <1>2, <1>6, <2>1
<1>9. PICK f : f = CHOOSE h : Rec(h)
  OBVIOUS
<1>10. VisitChildren(visit, path, segs, found) = f[n]
  BY <1>1, <1>2, <1>9 DEF VisitChildren
<1>11. Rec(f)
  <2> HIDE DEF Rec
  <2> QED
    BY <1>8, <1>9
<1>12. /\ DOMAIN f = 0 .. n /\ f = [i \in 0 .. n |-> f[i]]
       /\ f[0] = found
       /\ \A i \in 1 .. n : f[i] = After(f[i - 1], i)
  <2>1. \A i \in 0 .. n : f[i] =
            IF i = 0 THEN found
            ELSE IF Follows(ch[i], segs[Len(path) + 1])
                   THEN visit[Append(path, ch[i])][f[i - 1]]
                   ELSE f[i - 1]
    BY <1>2, <1>11
  <2>2. f[0] = found
    BY <2>1
  <2>3. ASSUME NEW i \in 1 .. n
        PROVE  f[i] = After(f[i - 1], i)
    <3>1. i \in 0 .. n /\ i # 0
      OBVIOUS
    <3> QED
      BY <2>1, <3>1
  <2>4. DOMAIN f = 0 .. n /\ f = [i \in 0 .. n |-> f[i]]
    BY <1>2, <1>11
  <2> HIDE DEF After, Rec
  <2> QED
    BY <2>2, <2>3, <2>4
<1> HIDE DEF Rec
<1> DEFINE Good == {i \in 0 .. n : f[i] \in Seq(Client)}
<1>13. 0 \in Good
  BY <1>12
<1>14. ASSUME NEW i \in 1 .. n, i - 1 \in Good
       PROVE  i \in Good
  <2>1. After(f[i - 1], i) \in Seq(Client)
    <3> HIDE DEF After
    <3> QED
      BY <1>4, <1>14
  <2> HIDE DEF After
  <2>2. f[i] \in Seq(Client)
    BY <1>12, <2>1
  <2> QED
    BY <2>2
<1> HIDE DEF Good
<1>15. \A i \in 0 .. n : i \in Good
  BY <1>13, <1>14, EveryTurn
<1>16. f \in [0 .. n -> Seq(Client)]
  BY <1>12, <1>15 DEF Good
<1>17. ASSUME NEW i \in 1 .. n
       PROVE  f[i] = IF Down(path, i, segs) THEN visit[Kid(path, i)][f[i - 1]] ELSE f[i - 1]
  BY <1>3, <1>12
<1>18. KidTurns(f, visit, path, segs, found)
  <2> HIDE DEF After
  <2> QED
    BY <1>2, <1>12, <1>16, <1>17 DEF KidTurns
<1> QED
  BY <1>2, <1>10, <1>18

\* What the loop gives depends on nothing but what visit gives at the children.
LEMMA VisitSame ==
    ASSUME tree \in Tree, NEW path \in DOMAIN tree,
           NEW v, Visits(v, path), NEW w, Visits(w, path),
           \A i \in 1 .. Kids(path) : v[Kid(path, i)] = w[Kid(path, i)],
           NEW segs, NEW found \in Seq(Client)
    PROVE  VisitChildren(v, path, segs, found) = VisitChildren(w, path, segs, found)
<1>1. PICK n \in Nat : n = Kids(path)
  BY KidsType
<1>2. PICK f : /\ KidTurns(f, v, path, segs, found)
               /\ VisitChildren(v, path, segs, found) = f[Kids(path)]
  BY VisitRuns
<1>3. PICK g : /\ KidTurns(g, w, path, segs, found)
               /\ VisitChildren(w, path, segs, found) = g[Kids(path)]
  BY VisitRuns
<1> DEFINE Good == {i \in 0 .. n : f[i] = g[i]}
<1>4. 0 \in Good
  BY <1>2, <1>3 DEF KidTurns
<1>5. ASSUME NEW i \in 1 .. n, i - 1 \in Good
      PROVE  i \in Good
  <2>1. f[i - 1] = g[i - 1]
    BY <1>5
  <2>2. f[i] = IF Down(path, i, segs) THEN v[Kid(path, i)][f[i - 1]] ELSE f[i - 1]
    BY <1>1, <1>2 DEF KidTurns
  <2>3. g[i] = IF Down(path, i, segs) THEN w[Kid(path, i)][g[i - 1]] ELSE g[i - 1]
    BY <1>1, <1>3 DEF KidTurns
  <2>4. f[i] = g[i]
    BY <1>1, <2>1, <2>2, <2>3
  <2> QED
    BY <2>4
<1> HIDE DEF Good
<1>6. \A i \in 0 .. n : i \in Good
  BY <1>4, <1>5, EveryTurn
<1> QED
  BY <1>1, <1>2, <1>3, <1>6 DEF Good

LEMMA KidInTree ==
    ASSUME Trie(tree), NEW path \in DOMAIN tree, NEW i \in 1 .. Kids(path)
    PROVE  Kid(path, i) \in DOMAIN tree /\ Len(Kid(path, i)) = Len(path) + 1 /\ Len(path) \in Nat
<1>1. tree \in Tree /\ path \in Seq(Segment)
  BY TreeParts DEF Trie
<1>2. PICK seg \in Segment : seg = tree[path].children[i]
  BY <1>1, KidsType
<1>3. Contains(tree[path].children, seg)
  BY <1>2 DEF Contains, Kids
<1>4. Kid(path, i) = Append(path, seg)
  BY <1>2 DEF Kid
<1>5. Append(path, seg) \in DOMAIN tree
  BY <1>3 DEF Trie
<1> QED
  BY <1>1, <1>4, <1>5, SnocParts

\* The result after the first loop of match_recursive.
Here(path, segs, found) ==
    IF Collects(path, segs) THEN AddAll(found, tree[path].subscribers) ELSE found

LEMMA HereType ==
    ASSUME tree \in Tree, NEW path \in DOMAIN tree, NEW segs, NEW found \in Seq(Client)
    PROVE  /\ Here(path, segs, found) \in Seq(Client)
           /\ IsInjective(found) => IsInjective(Here(path, segs, found))
           /\ ToSet(Here(path, segs, found)) =
                 ToSet(found) \cup (IF Collects(path, segs) THEN ToSet(tree[path].subscribers) ELSE {})
<1>1. PICK list \in Seq(Client) : list = tree[path].subscribers
  BY TreeParts
<1>2. CASE Collects(path, segs)
  <2>1. Here(path, segs, found) = AddAll(found, list)
    BY <1>1, <1>2 DEF Here
  <2> QED
    BY <1>1, <1>2, <2>1, AddAllAdds
<1>3. CASE ~Collects(path, segs)
  BY <1>3 DEF Here
<1> QED
  BY <1>2, <1>3

LEMMA MatchNodeIs ==
    ASSUME NEW visit, NEW path, NEW segs, NEW found
    PROVE  MatchNode(visit, path, segs, found) =
               IF Len(path) >= Len(segs) THEN Here(path, segs, found)
               ELSE VisitChildren(visit, path, segs, Here(path, segs, found))
  BY DEF MatchNode, Here

LEMMA MatchNodeType ==
    ASSUME tree \in Tree, NEW path \in DOMAIN tree, NEW visit, NEW segs, NEW found \in Seq(Client),
           Len(path) >= Len(segs) \/ Visits(visit, path)
    PROVE  MatchNode(visit, path, segs, found) \in Seq(Client)
<1>1. PICK here \in Seq(Client) : here = Here(path, segs, found)
  BY HereType
<1>2. CASE Len(path) >= Len(segs)
  BY <1>1, <1>2, MatchNodeIs
<1>3. CASE ~(Len(path) >= Len(segs))
  <2>1. PICK f : /\ KidTurns(f, visit, path, segs, here)
                 /\ VisitChildren(visit, path, segs, here) = f[Kids(path)]
    BY <1>3, VisitRuns
  <2>2. f[Kids(path)] \in Seq(Client)
    BY <2>1, KidsType DEF KidTurns
  <2> QED
    BY <1>1, <1>3, <2>1, <2>2, MatchNodeIs
<1> QED
  BY <1>2, <1>3

LEMMA MatchNodeSame ==
    ASSUME tree \in Tree, NEW path \in DOMAIN tree, NEW v, NEW w, NEW segs,
           NEW found \in Seq(Client),
           \/ Len(path) >= Len(segs)
           \/ /\ Visits(v, path) /\ Visits(w, path)
              /\ \A i \in 1 .. Kids(path) : v[Kid(path, i)] = w[Kid(path, i)]
    PROVE  MatchNode(v, path, segs, found) = MatchNode(w, path, segs, found)
<1>1. PICK here \in Seq(Client) : here = Here(path, segs, found)
  BY HereType
<1>2. CASE Len(path) >= Len(segs)
  BY <1>2, MatchNodeIs
<1>3. CASE ~(Len(path) >= Len(segs))
  <2>1. VisitChildren(v, path, segs, here) = VisitChildren(w, path, segs, here)
    BY <1>3, VisitSame
  <2> QED
    BY <1>1, <1>3, <2>1, MatchNodeIs
<1> QED
  BY <1>2, <1>3

\* f is what the recursion of match_recursive asks for, at the last k levels and
\* below.
Solved(f, segs, k) ==
    /\ f = [path \in DOMAIN tree |-> f[path]]
    /\ \A path \in DOMAIN tree : Len(path) + k >= Len(segs) =>
          /\ f[path] \in [Seq(Client) -> Seq(Client)]
          /\ \A found \in Seq(Client) : f[path][found] = MatchNode(f, path, segs, found)

LEMMA SolvedNext ==
    ASSUME Trie(tree), NEW segs, Len(segs) \in Nat, NEW k \in Nat, NEW f,
           k = 0 \/ Solved(f, segs, k - 1)
    PROVE  \E g : Solved(g, segs, k)
<1>1. tree \in Tree /\ \A path \in DOMAIN tree : Len(path) \in Nat
  BY TreeParts DEF Trie
<1>2. PICK g : g = [path \in DOMAIN tree |->
                      [found \in Seq(Client) |-> MatchNode(f, path, segs, found)]]
  OBVIOUS
<1>3. \A path \in DOMAIN tree :
          g[path] = [found \in Seq(Client) |-> MatchNode(f, path, segs, found)]
  BY <1>2
<1>4. ASSUME NEW path \in DOMAIN tree, Len(path) + k >= Len(segs)
      PROVE  Len(path) >= Len(segs) \/ Visits(f, path)
  <2>1. CASE k = 0
    BY <1>1, <1>4, <2>1
  <2>2. CASE k # 0
    <3>1. ASSUME NEW i \in 1 .. Kids(path)
          PROVE  f[Kid(path, i)] \in [Seq(Client) -> Seq(Client)]
      <4>1. PICK q \in DOMAIN tree : q = Kid(path, i) /\ Len(q) = Len(path) + 1
        BY KidInTree
      <4>2. Len(q) + (k - 1) >= Len(segs)
        BY <1>1, <1>4, <4>1
      <4> QED
        BY <2>2, <4>1, <4>2 DEF Solved
    <3> QED
      BY <3>1 DEF Visits
  <2> QED
    BY <2>1, <2>2
<1>5. ASSUME NEW path \in DOMAIN tree, Len(path) + k >= Len(segs)
      PROVE  g[path] \in [Seq(Client) -> Seq(Client)]
  <2>1. \A found \in Seq(Client) : MatchNode(f, path, segs, found) \in Seq(Client)
    BY <1>1, <1>4, <1>5, MatchNodeType
  <2> QED
    BY <1>3, <2>1
<1>6. ASSUME NEW q \in DOMAIN tree, k # 0, Len(q) + (k - 1) >= Len(segs)
      PROVE  g[q] = f[q]
  <2>1. /\ f[q] \in [Seq(Client) -> Seq(Client)]
        /\ \A found \in Seq(Client) : f[q][found] = MatchNode(f, q, segs, found)
    BY <1>6 DEF Solved
  <2>2. f[q] = [found \in Seq(Client) |-> MatchNode(f, q, segs, found)]
    BY <2>1
  <2> QED
    BY <1>3, <2>2
<1>7. ASSUME NEW path \in DOMAIN tree, Len(path) + k >= Len(segs), NEW found \in Seq(Client)
      PROVE  MatchNode(g, path, segs, found) = MatchNode(f, path, segs, found)
  <2>1. CASE Len(path) >= Len(segs)
    BY <1>1, <2>1, MatchNodeSame
  <2>2. CASE ~(Len(path) >= Len(segs))
    <3>1. k # 0 /\ Visits(f, path)
      BY <1>1, <1>4, <1>7, <2>2
    <3>2. ASSUME NEW i \in 1 .. Kids(path)
          PROVE  f[Kid(path, i)] = g[Kid(path, i)]
      <4>1. PICK q \in DOMAIN tree : q = Kid(path, i) /\ Len(q) = Len(path) + 1
        BY KidInTree
      <4>2. Len(q) + (k - 1) >= Len(segs)
        BY <1>1, <1>7, <4>1
      <4> QED
        BY <1>6, <3>1, <4>1, <4>2
    <3>3. Visits(g, path)
      BY <3>1, <3>2 DEF Visits
    <3> QED
      BY <1>1, <3>1, <3>2, <3>3, MatchNodeSame
  <2> QED
    BY <2>1, <2>2
<1>8. ASSUME NEW path \in DOMAIN tree, Len(path) + k >= Len(segs), NEW found \in Seq(Client)
      PROVE  g[path][found] = MatchNode(g, path, segs, found)
  <2>1. g[path][found] = MatchNode(f, path, segs, found)
    BY <1>3
  <2> QED
    BY <1>7, <1>8, <2>1
<1>9. g = [path \in DOMAIN tree |-> g[path]]
  BY <1>2
<1>10. Solved(g, segs, k)
  BY <1>5, <1>8, <1>9 DEF Solved
<1> QED
  BY <1>10

\* match_recursive ends for every node, with what MatchNode says.
LEMMA MatchRecursiveIs ==
    ASSUME Trie(tree), NEW segs, Len(segs) \in Nat
    PROVE  \A path \in DOMAIN tree :
              MatchRecursive(segs)[path] =
                 [found \in Seq(Client) |-> MatchNode(MatchRecursive(segs), path, segs, found)]
<1>1. PICK n \in Nat : n = Len(segs)
  OBVIOUS
<1>2. \A path \in DOMAIN tree : Len(path) \in Nat
  BY TreeParts DEF Trie
<1> DEFINE Good == {k \in 0 .. n : \E f : Solved(f, segs, k)}
           Rec(f) == f = [path \in DOMAIN tree |->
                            [found \in Seq(Client) |-> MatchNode(f, path, segs, found)]]
<1>3. 0 \in Good
  BY <1>1, SolvedNext
<1>4. ASSUME NEW k \in 1 .. n, k - 1 \in Good
      PROVE  k \in Good
  <2>1. PICK f : Solved(f, segs, k - 1)
    BY <1>4
  <2>2. \E g : Solved(g, segs, k)
    BY <2>1, SolvedNext
  <2> QED
    BY <2>2
<1> HIDE DEF Good
<1>5. \A k \in 0 .. n : k \in Good
  BY <1>3, <1>4, EveryTurn
<1>6. PICK f : Solved(f, segs, n)
  BY <1>5 DEF Good
<1>7. Rec(f)
  <2>1. ASSUME NEW path \in DOMAIN tree
        PROVE  f[path] = [found \in Seq(Client) |-> MatchNode(f, path, segs, found)]
    <3>1. Len(path) + n >= Len(segs)
      BY <1>1, <1>2
    <3>2. /\ f[path] \in [Seq(Client) -> Seq(Client)]
          /\ \A found \in Seq(Client) : f[path][found] = MatchNode(f, path, segs, found)
      BY <1>6, <3>1 DEF Solved
    <3> QED
      BY <3>2
  <2>2. f = [path \in DOMAIN tree |-> f[path]]
    BY <1>6 DEF Solved
  <2> QED
    BY <2>1, <2>2
<1>8. PICK g : g = CHOOSE h : Rec(h)
  OBVIOUS
<1>9. MatchRecursive(segs) = g
  BY <1>8 DEF MatchRecursive
<1>10. Rec(g)
  <2> HIDE DEF Rec
  <2> QED
    BY <1>7, <1>8
<1>11. \A path \in DOMAIN tree :
           g[path] = [found \in Seq(Client) |-> MatchNode(g, path, segs, found)]
  BY <1>10
<1> QED
  BY <1>9, <1>11

-----------------------------------------------------------------------------
(* What the walk finds. *)

\* The walk for segs that is at the node q goes on to the node p.
Below(q, p, segs) ==
    /\ Len(q) <= Len(p) /\ Len(p) <= Len(segs)
    /\ SubSeq(p, 1, Len(q)) = q
    /\ \A i \in (Len(q) + 1) .. Len(p) : Follows(p[i], segs[i])

\* The clients that it finds from there on.
Reach(q, segs) ==
    {c \in Client : \E p \in DOMAIN tree : /\ Below(q, p, segs)
                                           /\ Collects(p, segs)
                                           /\ c \in ToSet(tree[p].subscribers)}

\* r is the result l with those clients added, each once.
Finds(q, segs, l, r) ==
    /\ r \in Seq(Client)
    /\ IsInjective(l) => IsInjective(r)
    /\ ToSet(r) = ToSet(l) \cup Reach(q, segs)

LEMMA BelowSteps ==
    ASSUME NEW S, NEW path \in Seq(S), NEW p \in Seq(S), NEW seg \in S, NEW segs, Len(segs) \in Nat
    PROVE  Below(Append(path, seg), p, segs) /\ Follows(seg, segs[Len(path) + 1])
             <=> Below(path, p, segs) /\ Len(p) > Len(path) /\ p[Len(path) + 1] = seg
<1>1. PICK n \in Nat : n = Len(path)
  OBVIOUS
<1>2. PICK q \in Seq(S) : q = Append(path, seg) /\ Len(q) = n + 1
  BY <1>1, SnocParts
<1>3. Len(p) \in Nat
  OBVIOUS
<1>4. ASSUME n + 1 <= Len(p)
      PROVE  SubSeq(p, 1, n + 1) = q <=> SubSeq(p, 1, n) = path /\ p[n + 1] = seg
  <2>1. n + 1 \in 1 .. Len(p) /\ (n + 1) - 1 = n
    BY <1>3, <1>4
  <2>2. PICK pre \in Seq(S) : pre = SubSeq(p, 1, n)
    BY <2>1, PrefixSnoc
  <2>3. p[n + 1] \in S /\ SubSeq(p, 1, n + 1) = Append(pre, p[n + 1])
    BY <2>1, <2>2, PrefixSnoc
  <2>4. PICK x \in S : x = p[n + 1]
    BY <2>3
  <2>5. Append(pre, x) = Append(path, seg) => pre = path /\ x = seg
    BY SnocInjective
  <2> QED
    BY <1>2, <2>2, <2>3, <2>4, <2>5
<1>5. ASSUME Below(q, p, segs), Follows(seg, segs[n + 1])
      PROVE  Below(path, p, segs) /\ Len(p) > n /\ p[n + 1] = seg
  <2>1. n + 1 <= Len(p) /\ Len(p) <= Len(segs) /\ SubSeq(p, 1, n + 1) = q
    BY <1>2, <1>5 DEF Below
  <2>2. SubSeq(p, 1, n) = path /\ p[n + 1] = seg
    BY <1>4, <2>1
  <2>3. ASSUME NEW i \in (n + 1) .. Len(p)
        PROVE  Follows(p[i], segs[i])
    <3>1. CASE i = n + 1
      BY <1>5, <2>2, <3>1
    <3>2. CASE i # n + 1
      <4>1. i \in (Len(q) + 1) .. Len(p)
        BY <1>2, <1>3, <3>2
      <4> QED
        BY <1>5, <4>1 DEF Below
    <3> QED
      BY <3>1, <3>2
  <2> QED
    BY <1>1, <1>3, <2>1, <2>2, <2>3 DEF Below
<1>6. ASSUME Below(path, p, segs), Len(p) > n, p[n + 1] = seg
      PROVE  Below(q, p, segs) /\ Follows(seg, segs[n + 1])
  <2>1. n + 1 <= Len(p) /\ Len(p) <= Len(segs) /\ SubSeq(p, 1, n) = path
    BY <1>1, <1>3, <1>6 DEF Below
  <2>2. SubSeq(p, 1, n + 1) = q
    BY <1>4, <1>6, <2>1
  <2>3. \A i \in (n + 1) .. Len(p) : Follows(p[i], segs[i])
    BY <1>1, <1>6 DEF Below
  <2>4. Follows(seg, segs[n + 1])
    <3>1. n + 1 \in (n + 1) .. Len(p)
      BY <1>3, <2>1
    <3> QED
      BY <1>6, <2>3, <3>1
  <2>5. \A i \in (Len(q) + 1) .. Len(p) : Follows(p[i], segs[i])
    BY <1>2, <1>3, <2>3
  <2> QED
    BY <1>2, <2>1, <2>2, <2>4, <2>5 DEF Below
<1> QED
  BY <1>1, <1>2, <1>5, <1>6

LEMMA PrefixClosed ==
    ASSUME TableInv, NEW p \in DOMAIN tree, NEW k \in 0 .. Len(p)
    PROVE  SubSeq(p, 1, k) \in DOMAIN tree
<1>1. p \in Seq(Segment)
  BY TreeParts DEF TableInv, Trie
<1>2. CASE p = <<>>
  <2>1. k = 0
    BY <1>2
  <2> QED
    BY <1>1, <1>2, <2>1, PrefixWhole
<1>3. CASE p \in CalledBy(registered)
  <2>1. PICK r \in registered : p \in Prefixes(r[1])
    BY <1>3, CalledMeans
  <2>2. PICK f \in Seq(Segment) : f = r[1]
    BY <2>1 DEF TableInv
  <2>3. PICK l \in 0 .. Len(f) : p = SubSeq(f, 1, l)
    BY <2>1, <2>2 DEF Prefixes
  <2>4. k \in 0 .. Len(f) /\ SubSeq(p, 1, k) = SubSeq(f, 1, k)
    BY <1>1, <2>2, <2>3
  <2>5. SubSeq(p, 1, k) \in Prefixes(r[1])
    BY <2>2, <2>4 DEF Prefixes
  <2>6. SubSeq(p, 1, k) \in CalledBy(registered)
    BY <2>5, CalledMeans
  <2> QED
    BY <2>6 DEF TableInv, Called
<1> QED
  BY <1>2, <1>3 DEF TableInv, Called

\* What is found at a node is found there or from one of its children.
LEMMA ReachSplits ==
    ASSUME TableInv, NEW path \in DOMAIN tree, NEW segs, Len(segs) \in Nat,
           Len(path) < Len(segs), NEW c
    PROVE  c \in Reach(path, segs) <=>
              \/ Collects(path, segs) /\ c \in ToSet(tree[path].subscribers)
              \/ \E j \in 1 .. Kids(path) : Down(path, j, segs) /\ c \in Reach(Kid(path, j), segs)
<1>1. Trie(tree) /\ tree \in Tree /\ DOMAIN tree \subseteq Seq(Segment)
  BY TreeParts DEF TableInv, Trie
<1>2. PICK n \in Nat : n = Len(path)
  BY <1>1
<1>3. ASSUME c \in Reach(path, segs),
             ~(Collects(path, segs) /\ c \in ToSet(tree[path].subscribers))
      PROVE  \E j \in 1 .. Kids(path) : Down(path, j, segs) /\ c \in Reach(Kid(path, j), segs)
  <2>1. PICK p \in DOMAIN tree : /\ Below(path, p, segs)
                                 /\ Collects(p, segs)
                                 /\ c \in ToSet(tree[p].subscribers)
    BY <1>3 DEF Reach
  <2>2. p \in Seq(Segment) /\ path \in Seq(Segment) /\ Len(p) \in Nat
    BY <1>1
  <2>3. Len(p) # n
    <3> SUFFICES ASSUME Len(p) = n PROVE FALSE
      OBVIOUS
    <3>1. p = path
      BY <1>2, <2>1, <2>2, PrefixWhole DEF Below
    <3> QED
      BY <1>3, <2>1, <3>1
  <2>4. Len(p) > n /\ n + 1 \in 1 .. Len(p) /\ n + 1 \in 0 .. Len(p)
    BY <1>2, <2>1, <2>2, <2>3 DEF Below
  <2>5. PICK seg \in Segment : seg = p[n + 1]
    BY <2>2, <2>4
  <2>6. Below(Append(path, seg), p, segs) /\ Follows(seg, segs[n + 1])
    BY <1>2, <2>1, <2>2, <2>4, <2>5, BelowSteps
  <2>7. Append(path, seg) \in DOMAIN tree
    <3>1. SubSeq(p, 1, n + 1) = Append(path, seg)
      BY <1>2, <2>2, <2>6, SnocParts DEF Below
    <3> QED
      BY <2>4, <3>1, PrefixClosed
  <2>8. Contains(tree[path].children, seg)
    BY <1>1, <2>7 DEF Trie
  <2>9. PICK j \in 1 .. Kids(path) : tree[path].children[j] = seg
    BY <2>8 DEF Contains, Kids
  <2>10. Kid(path, j) = Append(path, seg) /\ Down(path, j, segs)
    BY <1>2, <2>6, <2>9 DEF Kid, Down
  <2>11. c \in Client
    BY <1>3 DEF Reach
  <2> QED
    BY <2>1, <2>6, <2>10, <2>11 DEF Reach
<1>4. ASSUME Collects(path, segs), c \in ToSet(tree[path].subscribers)
      PROVE  c \in Reach(path, segs)
  <2>1. Below(path, path, segs)
    <3>1. SubSeq(path, 1, Len(path)) = path
      BY <1>1, PrefixWhole
    <3>2. ~\E i \in (Len(path) + 1) .. Len(path) : TRUE
      BY <1>2
    <3> QED
      BY <1>2, <3>1, <3>2 DEF Below
  <2>2. c \in Client
    BY <1>1, <1>4, TreeParts, ToSetContains
  <2> QED
    BY <1>4, <2>1, <2>2 DEF Reach
<1>5. ASSUME NEW j \in 1 .. Kids(path), Down(path, j, segs), c \in Reach(Kid(path, j), segs)
      PROVE  c \in Reach(path, segs)
  <2>1. PICK seg \in Segment : seg = tree[path].children[j]
    BY <1>1, KidsType
  <2>2. Kid(path, j) = Append(path, seg) /\ Follows(seg, segs[Len(path) + 1])
    BY <1>5, <2>1 DEF Kid, Down
  <2>3. PICK p \in DOMAIN tree : /\ Below(Append(path, seg), p, segs)
                                 /\ Collects(p, segs)
                                 /\ c \in ToSet(tree[p].subscribers)
    BY <1>5, <2>2 DEF Reach
  <2>4. Below(path, p, segs)
    BY <1>1, <2>2, <2>3, BelowSteps
  <2> QED
    BY <1>5, <2>3, <2>4 DEF Reach
<1> QED
  BY <1>3, <1>4, <1>5

\* What is found from the first i children.
Under(path, segs, i) ==
    {c \in Client : \E j \in 1 .. i : Down(path, j, segs) /\ c \in Reach(Kid(path, j), segs)}

LEMMA UnderNext ==
    ASSUME NEW path, NEW segs, NEW i \in Nat \ {0}
    PROVE  Under(path, segs, i) = Under(path, segs, i - 1)
               \cup (IF Down(path, i, segs) THEN Reach(Kid(path, i), segs) ELSE {})
<1>1. \A j \in 1 .. i : j = i \/ j \in 1 .. (i - 1)
  OBVIOUS
<1>2. i \in 1 .. i /\ \A j \in 1 .. (i - 1) : j \in 1 .. i
  OBVIOUS
<1>3. Reach(Kid(path, i), segs) \subseteq Client
  BY DEF Reach
<1>4. ASSUME NEW c \in Under(path, segs, i)
      PROVE  c \in Under(path, segs, i - 1) \/ (Down(path, i, segs) /\ c \in Reach(Kid(path, i), segs))
  BY <1>1 DEF Under
<1>5. Under(path, segs, i - 1) \subseteq Under(path, segs, i)
  BY <1>2 DEF Under
<1>6. Down(path, i, segs) => Reach(Kid(path, i), segs) \subseteq Under(path, segs, i)
  BY <1>2, <1>3 DEF Under
<1> QED
  BY <1>4, <1>5, <1>6

\* The loop over the children finds what is found from each that it goes down to.
LEMMA VisitFinds ==
    ASSUME tree \in Tree, NEW path \in DOMAIN tree, NEW segs, NEW visit, Visits(visit, path),
           \A i \in 1 .. Kids(path), l \in Seq(Client) :
              Finds(Kid(path, i), segs, l, visit[Kid(path, i)][l]),
           NEW found \in Seq(Client), NEW r, r = VisitChildren(visit, path, segs, found)
    PROVE  /\ r \in Seq(Client)
           /\ IsInjective(found) => IsInjective(r)
           /\ ToSet(r) = ToSet(found) \cup Under(path, segs, Kids(path))
<1>1. PICK n \in Nat : n = Kids(path)
  BY KidsType
<1>2. PICK f : KidTurns(f, visit, path, segs, found) /\ r = f[n]
  BY <1>1, VisitRuns
<1>3. f[0] = found /\ \A i \in 0 .. n : f[i] \in Seq(Client)
  BY <1>1, <1>2 DEF KidTurns
<1> DEFINE Fine(i) == /\ IsInjective(found) => IsInjective(f[i])
                      /\ ToSet(f[i]) = ToSet(found) \cup Under(path, segs, i)
           Good == {i \in 0 .. n : Fine(i)}
<1>4. 0 \in Good
  <2>1. Under(path, segs, 0) = {}
    BY DEF Under
  <2>2. Fine(0)
    BY <1>3, <2>1
  <2> HIDE DEF Fine
  <2> QED
    BY <2>2
<1>5. ASSUME NEW i \in 1 .. n, i - 1 \in Good
      PROVE  i \in Good
  <2>1. Fine(i - 1)
    BY <1>5
  <2>2. PICK l \in Seq(Client) : l = f[i - 1]
    BY <1>1, <1>3
  <2>3. f[i] = IF Down(path, i, segs) THEN visit[Kid(path, i)][l] ELSE l
    BY <1>1, <1>2, <2>2 DEF KidTurns
  <2>4. Under(path, segs, i) = Under(path, segs, i - 1)
            \cup (IF Down(path, i, segs) THEN Reach(Kid(path, i), segs) ELSE {})
    BY UnderNext
  <2>5. CASE Down(path, i, segs)
    <3>1. Finds(Kid(path, i), segs, l, f[i])
      BY <1>1, <2>3, <2>5
    <3>2. Fine(i)
      BY <2>1, <2>2, <2>4, <2>5, <3>1 DEF Finds
    <3> HIDE DEF Fine
    <3> QED
      BY <3>2
  <2>6. CASE ~Down(path, i, segs)
    <3>1. Fine(i)
      BY <2>1, <2>2, <2>3, <2>4, <2>6
    <3> HIDE DEF Fine
    <3> QED
      BY <3>1
  <2> QED
    BY <2>5, <2>6
<1> HIDE DEF Good
<1>6. \A i \in 0 .. n : i \in Good
  BY <1>4, <1>5, EveryTurn
<1>7. Fine(n)
  BY <1>6 DEF Good
<1> QED
  BY <1>1, <1>2, <1>3, <1>7

\* match_recursive finds, from a node that is not too deep, the clients it should.
LEMMA MatchFinds ==
    ASSUME TableInv, NEW segs, Len(segs) \in Nat, NEW visit, visit = MatchRecursive(segs)
    PROVE  \A path \in DOMAIN tree : Len(path) <= Len(segs) =>
              \A found \in Seq(Client) : Finds(path, segs, found, visit[path][found])
<1>1. Trie(tree) /\ tree \in Tree /\ DOMAIN tree \subseteq Seq(Segment)
  BY TreeParts DEF TableInv, Trie
<1>2. \A path \in DOMAIN tree : Len(path) \in Nat
  BY <1>1
<1>3. PICK n \in Nat : n = Len(segs)
  OBVIOUS
<1>4. \A path \in DOMAIN tree :
          visit[path] = [found \in Seq(Client) |-> MatchNode(visit, path, segs, found)]
  <2>1. \A path \in DOMAIN tree :
            MatchRecursive(segs)[path] =
               [found \in Seq(Client) |-> MatchNode(MatchRecursive(segs), path, segs, found)]
    BY <1>1, MatchRecursiveIs
  <2> QED
    BY <2>1
<1> DEFINE Fine(k) == \A path \in DOMAIN tree : (Len(path) <= n /\ Len(path) + k >= n) =>
                          \A found \in Seq(Client) : Finds(path, segs, found, visit[path][found])
           Good == {k \in 0 .. n : Fine(k)}
<1>5. ASSUME NEW path \in DOMAIN tree, Len(path) = n, NEW found \in Seq(Client)
      PROVE  Finds(path, segs, found, visit[path][found])
  <2>1. Collects(path, segs)
    BY <1>3, <1>5 DEF Collects
  <2>2. visit[path][found] = Here(path, segs, found)
    <3>1. visit[path][found] = MatchNode(visit, path, segs, found)
      BY <1>4
    <3>2. Len(path) >= Len(segs)
      BY <1>2, <1>3, <1>5
    <3> QED
      BY <3>1, <3>2, MatchNodeIs
  <2>3. Reach(path, segs) = ToSet(tree[path].subscribers)
    <3>1. ASSUME NEW p \in DOMAIN tree, Below(path, p, segs)
          PROVE  p = path
      <4>1. Len(p) = n /\ SubSeq(p, 1, Len(p)) = path
        BY <1>2, <1>3, <1>5, <3>1 DEF Below
      <4> QED
        BY <1>1, <4>1, PrefixWhole
    <3>2. Below(path, path, segs)
      <4>1. SubSeq(path, 1, Len(path)) = path
        BY <1>1, PrefixWhole
      <4>2. ~\E i \in (Len(path) + 1) .. Len(path) : TRUE
        BY <1>2
      <4> QED
        BY <1>2, <1>3, <1>5, <4>1, <4>2 DEF Below
    <3>3. ToSet(tree[path].subscribers) \subseteq Client
      BY <1>1, TreeParts, ToSetContains
    <3> QED
      BY <2>1, <3>1, <3>2, <3>3 DEF Reach
  <2> QED
    BY <1>1, <2>1, <2>2, <2>3, HereType DEF Finds
<1>6. 0 \in Good
  <2>1. Fine(0)
    BY <1>2, <1>5
  <2> HIDE DEF Fine
  <2> QED
    BY <2>1
<1>7. ASSUME NEW k \in 1 .. n, k - 1 \in Good
      PROVE  k \in Good
  <2>1. Fine(k - 1)
    BY <1>7
  <2>2. ASSUME NEW path \in DOMAIN tree, Len(path) < n, Len(path) + k >= n,
               NEW found \in Seq(Client)
        PROVE  Finds(path, segs, found, visit[path][found])
    <3>1. ASSUME NEW i \in 1 .. Kids(path), NEW l \in Seq(Client)
          PROVE  Finds(Kid(path, i), segs, l, visit[Kid(path, i)][l])
      <4>1. PICK q \in DOMAIN tree : q = Kid(path, i) /\ Len(q) = Len(path) + 1
        BY <1>1, KidInTree
      <4>2. Len(q) <= n /\ Len(q) + (k - 1) >= n
        BY <1>2, <2>2, <4>1
      <4> QED
        BY <2>1, <4>1, <4>2
    <3>2. Visits(visit, path)
      <4> SUFFICES ASSUME NEW i \in 1 .. Kids(path)
                   PROVE  visit[Kid(path, i)] \in [Seq(Client) -> Seq(Client)]
        BY DEF Visits
      <4>1. PICK q \in DOMAIN tree : q = Kid(path, i)
        BY <1>1, KidInTree
      <4>2. \A l \in Seq(Client) : visit[q][l] \in Seq(Client)
        BY <3>1, <4>1 DEF Finds
      <4>3. visit[q] = [l \in Seq(Client) |-> visit[q][l]]
        BY <1>4
      <4> QED
        BY <4>1, <4>2, <4>3
    <3>3. PICK here \in Seq(Client) : here = Here(path, segs, found)
      BY <1>1, HereType
    <3>4. PICK r : r = visit[path][found]
      OBVIOUS
    <3>5. r = VisitChildren(visit, path, segs, here)
      <4>1. r = MatchNode(visit, path, segs, found)
        BY <1>4, <3>4
      <4>2. ~(Len(path) >= Len(segs))
        BY <1>2, <1>3, <2>2
      <4> QED
        BY <3>3, <4>1, <4>2, MatchNodeIs
    <3>6. /\ r \in Seq(Client)
          /\ IsInjective(here) => IsInjective(r)
          /\ ToSet(r) = ToSet(here) \cup Under(path, segs, Kids(path))
      BY <1>1, <3>1, <3>2, <3>5, VisitFinds
    <3>7. /\ IsInjective(found) => IsInjective(here)
          /\ ToSet(here) = ToSet(found)
                \cup (IF Collects(path, segs) THEN ToSet(tree[path].subscribers) ELSE {})
      BY <1>1, <3>3, HereType
    <3>8. ASSUME NEW c
          PROVE  c \in Reach(path, segs) <=>
                    \/ c \in (IF Collects(path, segs) THEN ToSet(tree[path].subscribers) ELSE {})
                    \/ c \in Under(path, segs, Kids(path))
      <4>1. Len(path) < Len(segs)
        BY <1>3, <2>2
      <4>2. c \in Under(path, segs, Kids(path)) <=>
              \E j \in 1 .. Kids(path) : Down(path, j, segs) /\ c \in Reach(Kid(path, j), segs)
        BY DEF Under, Reach
      <4> QED
        BY <4>1, <4>2, ReachSplits
    <3>9. ToSet(r) = ToSet(found) \cup Reach(path, segs)
      BY <3>6, <3>7, <3>8
    <3> QED
      BY <3>4, <3>6, <3>7, <3>9 DEF Finds
  <2>3. Fine(k)
    BY <1>2, <1>5, <2>2
  <2> HIDE DEF Fine
  <2> QED
    BY <2>3
<1> HIDE DEF Good
<1>8. \A k \in 0 .. n : k \in Good
  BY <1>6, <1>7, EveryTurn
<1>9. Fine(n)
  BY <1>8 DEF Good
<1> QED
  BY <1>2, <1>3, <1>9

\* From the root, the walk goes to the filters that match.
LEMMA ReachMatches ==
    ASSUME TableInv, NEW S, NEW t \in Seq(S)
    PROVE  Reach(<<>>, t) = {c \in Client : \E r \in registered : r[2] = c /\ FilterMatches(r[1], t)}
<1>1. Trie(tree) /\ tree \in Tree /\ DOMAIN tree \subseteq Seq(Segment) /\ Len(t) \in Nat
  BY TreeParts DEF TableInv, Trie
<1>2. ASSUME NEW p \in DOMAIN tree
      PROVE  Below(<<>>, p, t) /\ Collects(p, t) <=> FilterMatches(p, t)
  <2>1. p \in Seq(Segment) /\ Len(p) \in Nat /\ (p # <<>> <=> Len(p) > 0)
    BY <1>1
  <2>2. Len(<<>>) = 0 /\ SubSeq(p, 1, 0) = <<>>
    BY <2>1, PrefixWhole
  <2>3. Below(<<>>, p, t) <=>
          Len(p) <= Len(t) /\ \A i \in 1 .. Len(p) : Follows(p[i], t[i])
    BY <2>1, <2>2 DEF Below
  <2>4. Collects(p, t) <=> Len(p) = Len(t) \/ (Len(p) > 0 /\ p[Len(p)] = HashWildcard)
    BY <2>1 DEF Collects, Last
  <2> QED
    BY <2>3, <2>4 DEF FilterMatches, Follows
<1>3. ASSUME NEW p \in DOMAIN tree, NEW c \in ToSet(tree[p].subscribers), FilterMatches(p, t)
      PROVE  \E r \in registered : r[2] = c /\ FilterMatches(r[1], t)
  <2>1. <<p, c>> \in registered
    BY DEF TableInv, SubscribersOf
  <2>2. <<p, c>>[1] = p /\ <<p, c>>[2] = c
    OBVIOUS
  <2> QED
    BY <1>3, <2>1, <2>2
<1>4. ASSUME NEW r \in registered, FilterMatches(r[1], t), NEW c, c = r[2]
      PROVE  \E p \in DOMAIN tree : FilterMatches(p, t) /\ c \in ToSet(tree[p].subscribers)
  <2>1. PICK p, d : p \in Seq(Segment) /\ d \in Client /\ r = <<p, d>>
    BY DEF TableInv
  <2>2. r[1] = p /\ c = d
    BY <1>4, <2>1
  <2>3. p \in DOMAIN tree
    BY <2>1, RegisteredCalled
  <2>4. c \in ToSet(tree[p].subscribers)
    BY <2>1, <2>2, <2>3 DEF TableInv, SubscribersOf
  <2> QED
    BY <1>4, <2>2, <2>3, <2>4
<1>5. ASSUME NEW c
      PROVE  c \in Reach(<<>>, t) <=>
                c \in Client /\ \E p \in DOMAIN tree : FilterMatches(p, t) /\ c \in ToSet(tree[p].subscribers)
  BY <1>2 DEF Reach
<1>6. ASSUME NEW c \in Client
      PROVE  c \in Reach(<<>>, t) <=> \E r \in registered : r[2] = c /\ FilterMatches(r[1], t)
  <2>1. ASSUME c \in Reach(<<>>, t)
        PROVE  \E r \in registered : r[2] = c /\ FilterMatches(r[1], t)
    <3>1. PICK p \in DOMAIN tree : FilterMatches(p, t) /\ c \in ToSet(tree[p].subscribers)
      BY <1>5, <2>1
    <3> QED
      BY <1>3, <3>1
  <2>2. ASSUME NEW r \in registered, r[2] = c, FilterMatches(r[1], t)
        PROVE  c \in Reach(<<>>, t)
    <3>1. \E p \in DOMAIN tree : FilterMatches(p, t) /\ c \in ToSet(tree[p].subscribers)
      BY <1>4, <2>2
    <3> QED
      BY <1>5, <3>1
  <2> QED
    BY <2>1, <2>2
<1>7. Reach(<<>>, t) \subseteq Client
  BY DEF Reach
<1> QED
  BY <1>6, <1>7

LEMMA TableInvMatches == TableInv => MatchAgrees
<1> SUFFICES ASSUME TableInv, NEW t \in TopicString, ~Contains(t, Empty)
             PROVE  /\ ToSet(GetMatchingSubscribers(t)) =
                         {c \in Client : \E r \in registered : r[2] = c /\ FilterMatches(r[1], t)}
                    /\ IsInjective(GetMatchingSubscribers(t))
  BY DEF MatchAgrees
<1>1. PICK S : t \in Seq(S)
  <2>1. t \in Seq(STRING \ {Null})
    BY TableAssumption
  <2> QED
    BY <2>1
<1>2. SplitTopic(t) = t
  BY <1>1, SplitPlain
<1>3. PICK visit : visit = MatchRecursive(t)
  OBVIOUS
<1>4. <<>> \in DOMAIN tree /\ <<>> \in Seq(Client) /\ Len(<<>>) <= Len(t) /\ Len(t) \in Nat
  BY <1>1 DEF TableInv, Trie
<1>5. PICK list : list = visit[<<>>][<<>>]
  OBVIOUS
<1>6. Finds(<<>>, t, <<>>, list)
  <2>1. \A path \in DOMAIN tree : Len(path) <= Len(t) =>
            \A found \in Seq(Client) : Finds(path, t, found, visit[path][found])
    BY <1>3, <1>4, MatchFinds
  <2> QED
    BY <1>4, <1>5, <2>1
<1>7. list \in Seq(Client) /\ ToSet(list) = Reach(<<>>, t)
  <2>1. ToSet(<<>>) = {}
    BY DEF ToSet
  <2> QED
    BY <1>6, <2>1 DEF Finds
<1>8. GetMatchingSubscribers(t) = RemoveDuplicates(list)
  BY <1>2, <1>3, <1>5 DEF GetMatchingSubscribers
<1>9. IsInjective(RemoveDuplicates(list)) /\ ToSet(RemoveDuplicates(list)) = ToSet(list)
  BY <1>7, RemoveDuplicatesKeeps
<1> QED
  BY <1>1, <1>7, <1>8, <1>9, ReachMatches

\* get_matching_subscribers finds, through the trie, every client with a filter
\* that matches, no other client, and each one once, whatever was subscribed
\* before: what the broker takes MatchingSubscribers to be.
THEOREM MatchAgreesHolds == TableSpec => []MatchAgrees
<1>1. TableInv => MatchAgrees
  BY TableInvMatches
<1> QED
  BY <1>1, TableInvHolds, PTL
=============================================================================
