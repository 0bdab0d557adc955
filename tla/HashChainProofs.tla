-------------------------- MODULE HashChainProofs ---------------------------
(* The lists of pending_table.c and qos2_table.c, for any number of keys,    *)
(* lists and entries: their types for any number of threads, and for a table *)
(* that one thread uses, that no entry is lost or used after it was freed.   *)
EXTENDS HashChain, FiniteSetTheorems, WellFoundedInduction, TLAPS

-----------------------------------------------------------------------------
(* Type correctness. *)

\* The steps of the table, one by one.
Step(t) ==
    \/ \E op \in {"set", "get", "remove"}, k \in Key, v \in Value : Begin(t, op, k, v)
    \/ \E op \in {"cleanup", "destroy"} : Sweep(t, op)
    \/ Walk(t) \/ SetFound(t) \/ SetNew(t) \/ SetLink(t) \/ Get(t)
    \/ RemoveMissing(t) \/ Unlink(t) \/ Free(t)
    \/ CleanEntry(t) \/ DestroyEntry(t) \/ NextBucket(t)

LEMMA ChainCases ==
    ASSUME [ChainNext]_chainVars
    PROVE  (\E t \in Thread : Step(t)) \/ Tick \/ UNCHANGED chainVars
  BY DEF ChainNext, CallStep, SweepStep, Step

PC == {"idle", "walk", "found", "link", "free", "sweep"}

LEMMA NoCallFacts == NoCall \in Call /\ NoCall.op = "get"
<1>1. PICK g \in [key : Key, value : Value] : TRUE
  BY ChainAssumption
<1>2. [op |-> "get", key |-> g.key, value |-> g.value] \in Call
  BY <1>1 DEF Call
<1>3. \E c \in Call : c.op = "get"
  BY <1>2
<1> QED
  BY <1>3 DEF NoCall

LEMMA BucketFacts == NBuckets \in Nat /\ NBuckets > 0 /\ 0 \in Bucket
  BY ChainAssumption DEF Bucket

\* Where a call goes on, and what it holds.
LEMMA StartType ==
    ASSUME ChainVarsOK, HandInv, NEW t \in Thread, NEW c \in Call, NEW b \in Bucket,
           NEW l \in {"walk", "sweep"}, Start(t, c, b, l)
    PROVE  ChainVarsOK' /\ HandInv'
<1> USE DEF ChainVarsOK, HandInv
<1>1. /\ pc' = [pc EXCEPT ![t] = l] /\ call' = [call EXCEPT ![t] = c]
      /\ bucket' = [bucket EXCEPT ![t] = b] /\ cur' = [cur EXCEPT ![t] = table[b]]
      /\ prev' = [prev EXCEPT ![t] = NULL] /\ UNCHANGED <<table, entry, live, now>>
  BY DEF Start, memVars
<1>2. table[b] \in Pointer /\ NULL \in Pointer
  BY DEF Pointer
<1>3. ChainVarsOK'
  BY <1>1, <1>2
<1>4. HandInv'
  BY <1>1 DEF Holding
<1> QED
  BY <1>3, <1>4

LEMMA ReturnType ==
    ASSUME ChainVarsOK, HandInv, NEW t \in Thread, Return(t),
           table' \in [Bucket -> Pointer], entry' \in [Cell -> Entry], live' \subseteq Cell
    PROVE  ChainVarsOK' /\ HandInv'
<1> USE DEF ChainVarsOK, HandInv
<1>1. /\ pc' = [pc EXCEPT ![t] = "idle"] /\ call' = [call EXCEPT ![t] = NoCall]
      /\ bucket' = [bucket EXCEPT ![t] = 0] /\ cur' = [cur EXCEPT ![t] = NULL]
      /\ prev' = [prev EXCEPT ![t] = NULL] /\ now' = now
  BY DEF Return
<1>2. NULL \in Pointer /\ 0 \in Bucket /\ NoCall \in Call
  BY NoCallFacts, BucketFacts DEF Pointer
<1>3. ChainVarsOK'
  BY <1>1, <1>2
<1>4. HandInv'
  BY <1>1 DEF Holding
<1> QED
  BY <1>3, <1>4

\* Writing to an entry keeps it an entry; free leaves one behind too.
LEMMA EntryFacts ==
    ASSUME NEW c, NEW e \in [Cell -> Entry]
    PROVE  /\ \A p \in Pointer : [e EXCEPT ![c].next = p] \in [Cell -> Entry]
           /\ \A v \in Value, s \in 0 .. MaxTime :
                 [e EXCEPT ![c].value = v, ![c].stamp = s] \in [Cell -> Entry]
<1>1. \A p \in Pointer : [e EXCEPT ![c].next = p] \in [Cell -> Entry]
  BY DEF Entry
<1>2. \A v \in Value, s \in 0 .. MaxTime :
         [e EXCEPT ![c].value = v, ![c].stamp = s] \in [Cell -> Entry]
  BY DEF Entry
<1> QED
  BY <1>1, <1>2

LEMMA ReleaseType ==
    ASSUME NEW c, NEW e \in [Cell -> Entry], live \subseteq Cell, Release(c, e)
    PROVE  /\ entry' \in [Cell -> Entry] /\ live' \subseteq Cell
           /\ \A d \in Cell : d # c => entry'[d] = e[d]
           /\ \A d \in Cell : entry'[d].next = e[d].next
<1>1. PICK g \in Garbage :
         entry' = [e EXCEPT ![c].key = g.key, ![c].value = g.value, ![c].stamp = 0]
  BY DEF Release
<1>2. g.key \in Key /\ g.value \in Value /\ 0 \in 0 .. MaxTime
  BY ChainAssumption
<1>3. \A d \in Cell : e[d] \in Entry
  OBVIOUS
<1> DEFINE e1 == [e EXCEPT ![c].key = g.key]
           e2 == [e1 EXCEPT ![c].value = g.value]
           e3 == [e2 EXCEPT ![c].stamp = 0]
<1>4. e1 \in [Cell -> Entry] /\ \A d \in Cell : (d # c => e1[d] = e[d]) /\ e1[d].next = e[d].next
  BY <1>2, <1>3 DEF Entry
<1>5. e2 \in [Cell -> Entry] /\ \A d \in Cell : (d # c => e2[d] = e[d]) /\ e2[d].next = e[d].next
  <2> HIDE DEF e1
  <2> QED BY <1>2, <1>4 DEF Entry
<1>6. e3 \in [Cell -> Entry] /\ \A d \in Cell : (d # c => e3[d] = e[d]) /\ e3[d].next = e[d].next
  <2> HIDE DEF e2
  <2> QED BY <1>2, <1>5 DEF Entry
<1>7. live' \subseteq Cell /\ entry' = e3
  BY <1>1 DEF Release
<1> HIDE DEF e3
<1> QED
  BY <1>6, <1>7

\* An entry and its place in the list give a table and entries again.
LEMMA WithoutType ==
    ASSUME ChainVarsOK, NEW t \in Thread, cur[t] \in Cell
    PROVE  TableWithout(t) \in [Bucket -> Pointer] /\ EntriesWithout(t) \in [Cell -> Entry]
<1>1. /\ table \in [Bucket -> Pointer] /\ entry \in [Cell -> Entry]
      /\ entry[cur[t]].next \in Pointer
  BY DEF ChainVarsOK, Entry
<1> QED
  BY <1>1, EntryFacts DEF TableWithout, EntriesWithout

LEMMA ChainTypeStep ==
    ASSUME ChainVarsOK, HandInv, [ChainNext]_chainVars
    PROVE  ChainVarsOK' /\ HandInv'
<1>1. /\ table \in [Bucket -> Pointer] /\ entry \in [Cell -> Entry] /\ live \subseteq Cell
      /\ now \in 0 .. MaxTime /\ pc \in [Thread -> PC] /\ call \in [Thread -> Call]
      /\ bucket \in [Thread -> Bucket]
      /\ cur \in [Thread -> Pointer] /\ prev \in [Thread -> Pointer]
  BY DEF ChainVarsOK, PC
<1>2. \A c \in Cell : entry[c] \in Entry /\ entry[c].next \in Pointer
  BY <1>1 DEF Entry
<1>3. ASSUME NEW t \in Thread, Step(t)
      PROVE  ChainVarsOK' /\ HandInv'
  <2>1. ASSUME NEW op \in {"set", "get", "remove"}, NEW k \in Key, NEW v \in Value,
               Begin(t, op, k, v)
        PROVE  ChainVarsOK' /\ HandInv'
    <3>1. [op |-> op, key |-> k, value |-> v] \in Call /\ HashOf[k] \in Bucket
      BY ChainAssumption DEF Call
    <3> QED
      BY <2>1, <3>1, StartType DEF Begin
  <2>2. ASSUME NEW op \in {"cleanup", "destroy"}, Sweep(t, op)
        PROVE  ChainVarsOK' /\ HandInv'
    <3>1. [NoCall EXCEPT !.op = op] \in Call
      BY NoCallFacts DEF Call
    <3> QED
      BY <2>2, <3>1, StartType, BucketFacts DEF Sweep
  <2>3. CASE Walk(t)
    <3>1. CASE GoTo(t, "found") /\ UNCHANGED <<cur, prev>>
      <4>1. /\ pc' = [pc EXCEPT ![t] = "found"] /\ cur[t] \in Cell
            /\ UNCHANGED <<table, entry, live, now, call, bucket, cur, prev>>
        BY <1>1, <2>3, <3>1 DEF Walk, GoTo, memVars, Pointer
      <4> QED
        BY <1>1, <4>1 DEF ChainVarsOK, HandInv, Holding
    <3>2. CASE /\ GoTo(t, "walk")
               /\ prev' = [prev EXCEPT ![t] = cur[t]]
               /\ cur' = [cur EXCEPT ![t] = entry[cur[t]].next]
      <4>1. /\ pc' = [pc EXCEPT ![t] = "walk"] /\ cur[t] \in Cell
            /\ UNCHANGED <<table, entry, live, now, call, bucket>>
        BY <1>1, <2>3, <3>2 DEF Walk, GoTo, memVars, Pointer
      <4>2. cur' \in [Thread -> Pointer] /\ prev' \in [Thread -> Pointer]
        BY <1>1, <1>2, <3>2, <4>1
      <4>3. HandInv'
        BY <1>1, <3>2, <4>1 DEF HandInv, Holding
      <4> QED
        BY <1>1, <4>1, <4>2, <4>3 DEF ChainVarsOK
    <3> QED
      BY <2>3, <3>1, <3>2 DEF Walk
  <2>4. CASE SetFound(t)
    <3>1. call[t].value \in Value
      BY <1>1 DEF Call
    <3>2. entry' \in [Cell -> Entry] /\ table' = table /\ live' = live
      BY <1>1, <2>4, <3>1, EntryFacts DEF SetFound
    <3> QED
      BY <1>1, <2>4, <3>2, ReturnType DEF SetFound
  <2>5. CASE SetNew(t)
    <3>1. PICK c \in Cell :
             /\ live' = live \cup {c} /\ entry' = [entry EXCEPT ![c] = NewEntry(t)]
             /\ cur' = [cur EXCEPT ![t] = c]
      BY <2>5 DEF SetNew
    <3>2. /\ pc' = [pc EXCEPT ![t] = "link"]
          /\ UNCHANGED <<table, prev, now, call, bucket>>
      BY <2>5 DEF SetNew, GoTo
    <3>3. NewEntry(t) \in Entry
      BY <1>1 DEF NewEntry, Entry, Call
    <3>4. entry' \in [Cell -> Entry] /\ live' \subseteq Cell /\ cur' \in [Thread -> Pointer]
      BY <1>1, <3>1, <3>3 DEF Pointer
    <3>5. HandInv'
      BY <1>1, <3>1, <3>2 DEF HandInv, Holding
    <3> QED
      BY <1>1, <3>2, <3>4, <3>5 DEF ChainVarsOK
  <2>6. CASE SetLink(t)
    <3>1. table' \in [Bucket -> Pointer] /\ entry' = entry /\ live' = live
      BY <1>1, <2>6 DEF SetLink
    <3> QED
      BY <1>1, <2>6, <3>1, ReturnType DEF SetLink
  <2>7. CASE Get(t) \/ RemoveMissing(t)
    <3>1. UNCHANGED <<table, entry, live>> /\ Return(t)
      BY <2>7 DEF Get, RemoveMissing, memVars
    <3> QED
      BY <1>1, <3>1, ReturnType
  <2>8. CASE Unlink(t)
    <3>1. cur[t] \in Cell
      BY <2>8 DEF Unlink, HandInv, Holding
    <3>2. table' \in [Bucket -> Pointer] /\ entry' \in [Cell -> Entry]
      BY <2>8, <3>1, WithoutType DEF Unlink
    <3>3. /\ pc' = [pc EXCEPT ![t] = "free"]
          /\ UNCHANGED <<live, cur, prev, now, call, bucket>>
      BY <2>8 DEF Unlink, GoTo
    <3> QED
      BY <1>1, <3>1, <3>2, <3>3 DEF ChainVarsOK, HandInv, Holding
  <2>9. CASE Free(t)
    <3>1. entry' \in [Cell -> Entry] /\ live' \subseteq Cell /\ table' = table
      BY <1>1, <2>9, ReleaseType DEF Free
    <3> QED
      BY <1>1, <2>9, <3>1, ReturnType DEF Free
  <2>10. CASE CleanEntry(t)
    <3>1. /\ cur[t] \in Cell /\ pc[t] = "sweep"
          /\ cur' = [cur EXCEPT ![t] = entry[cur[t]].next]
          /\ UNCHANGED <<now, pc, call, bucket>>
      BY <1>1, <2>10 DEF CleanEntry, Pointer
    <3>2. /\ table' \in [Bucket -> Pointer] /\ entry' \in [Cell -> Entry]
          /\ live' \subseteq Cell /\ prev' \in [Thread -> Pointer]
      <4>1. CASE /\ table' = TableWithout(t) /\ Release(cur[t], EntriesWithout(t))
                 /\ UNCHANGED prev
        <5>1. TableWithout(t) \in [Bucket -> Pointer] /\ EntriesWithout(t) \in [Cell -> Entry]
          BY <3>1, WithoutType
        <5> QED
          BY <1>1, <4>1, <5>1, ReleaseType
      <4>2. CASE prev' = [prev EXCEPT ![t] = cur[t]] /\ UNCHANGED memVars
        BY <1>1, <4>2 DEF memVars
      <4> QED
        BY <2>10, <4>1, <4>2 DEF CleanEntry
    <3>3. cur' \in [Thread -> Pointer]
      BY <1>1, <1>2, <3>1
    <3>4. HandInv'
      BY <1>1, <3>1 DEF HandInv, Holding
    <3> QED
      BY <1>1, <3>1, <3>2, <3>3, <3>4 DEF ChainVarsOK
  <2>11. CASE DestroyEntry(t)
    <3>1. /\ cur[t] \in Cell /\ pc[t] = "sweep"
          /\ cur' = [cur EXCEPT ![t] = entry[cur[t]].next]
          /\ UNCHANGED <<table, now, pc, call, bucket, prev>>
      BY <1>1, <2>11 DEF DestroyEntry, Pointer
    <3>2. entry' \in [Cell -> Entry] /\ live' \subseteq Cell
      BY <1>1, <2>11, ReleaseType DEF DestroyEntry
    <3>3. cur' \in [Thread -> Pointer]
      BY <1>1, <1>2, <3>1
    <3>4. HandInv'
      BY <1>1, <3>1 DEF HandInv, Holding
    <3> QED
      BY <1>1, <3>1, <3>2, <3>3, <3>4 DEF ChainVarsOK
  <2>12. CASE NextBucket(t)
    <3>1. table' \in [Bucket -> Pointer] /\ entry' = entry /\ live' = live
      BY <1>1, <2>12 DEF NextBucket, Pointer
    <3>2. CASE /\ bucket[t] + 1 < NBuckets
               /\ bucket' = [bucket EXCEPT ![t] = @ + 1]
               /\ cur' = [cur EXCEPT ![t] = table[bucket[t] + 1]]
               /\ prev' = [prev EXCEPT ![t] = NULL]
               /\ UNCHANGED <<now, pc, call, did>>
      <4>1. bucket[t] + 1 \in Bucket /\ NULL \in Pointer
        BY <1>1, <3>2, BucketFacts DEF Bucket, Pointer
      <4>2. /\ bucket' \in [Thread -> Bucket] /\ cur' \in [Thread -> Pointer]
            /\ prev' \in [Thread -> Pointer]
        BY <1>1, <3>2, <4>1
      <4>3. HandInv'
        BY <1>1, <2>12, <3>2 DEF HandInv, Holding, NextBucket
      <4> QED
        BY <1>1, <3>1, <3>2, <4>2, <4>3 DEF ChainVarsOK
    <3>3. CASE Return(t)
      BY <1>1, <3>1, <3>3, ReturnType
    <3> QED
      BY <2>12, <3>2, <3>3 DEF NextBucket
  <2> QED
    BY <1>3, <2>1, <2>2, <2>3, <2>4, <2>5, <2>6, <2>7, <2>8, <2>9, <2>10, <2>11, <2>12 DEF Step
<1>4. CASE Tick
  <2>1. now' \in 0 .. MaxTime /\ UNCHANGED <<table, entry, live, pc, call, bucket, cur, prev>>
    BY <1>1, <1>4, ChainAssumption DEF Tick, memVars, ptrVars
  <2> QED
    BY <1>1, <2>1 DEF ChainVarsOK, HandInv
<1>5. CASE UNCHANGED chainVars
  BY <1>5 DEF ChainVarsOK, HandInv, chainVars, memVars, ptrVars
<1> QED
  BY <1>3, <1>4, <1>5, ChainCases

LEMMA ChainInitType == ChainInit => ChainVarsOK /\ HandInv
<1> SUFFICES ASSUME ChainInit PROVE ChainVarsOK /\ HandInv
  OBVIOUS
<1>1. entry \in [Cell -> Entry]
  <2>1. PICK g \in Garbage : entry = [c \in Cell |->
            [key |-> g.key, value |-> g.value, stamp |-> 0, next |-> NULL]]
    BY DEF ChainInit
  <2>2. g.key \in Key /\ g.value \in Value /\ 0 \in 0 .. MaxTime
    BY ChainAssumption
  <2> QED
    BY <2>1, <2>2 DEF Entry, Pointer
<1>2. NULL \in Pointer /\ 0 \in 0 .. MaxTime
  BY ChainAssumption DEF Pointer
<1> QED
  BY <1>1, <1>2, NoCallFacts, BucketFacts DEF ChainInit, ChainVarsOK, HandInv, Holding

LEMMA ChainTypes == ChainSpec => [](ChainVarsOK /\ HandInv)
<1>1. ChainVarsOK /\ HandInv /\ [ChainNext]_chainVars => (ChainVarsOK /\ HandInv)'
  BY ChainTypeStep
<1> QED
  BY <1>1, ChainInitType, PTL DEF ChainSpec

\* The tables keep their types, whatever threads do to them at the same time, and
\* a call that goes on to read, write, link or free an entry without testing its
\* pointer has one in its hands, not the null pointer.
THEOREM ChainTypeCorrect == ChainSpec => []ChainTypeOK
  BY ChainTypes, PTL DEF ChainTypeOK

-----------------------------------------------------------------------------
(* Lists.  The history of a table leaves an order on the entries of each     *)
(* list: own says in which list a cell is (NBuckets: in none) and rank falls *)
(* along the list.  tb and en stand for table and entry.                     *)

\* The head of list b is its cell of highest rank, and the next cell of c is the
\* one of the next lower rank.
HeadOf(own, rank, b, x) ==
    \/ x = NULL /\ \A c \in Cell : own[c] # b
    \/ x \in Cell /\ own[x] = b /\ \A c \in Cell : own[c] = b => rank[c] <= rank[x]
NextOf(own, rank, c, x) ==
    \/ x = NULL /\ \A d \in Cell : own[d] = own[c] => rank[d] >= rank[c]
    \/ /\ x \in Cell /\ own[x] = own[c] /\ rank[x] < rank[c]
       /\ \A d \in Cell : own[d] = own[c] /\ rank[d] < rank[c] => rank[d] <= rank[x]

Order(own, rank) ==
    /\ own \in [Cell -> 0 .. NBuckets] /\ rank \in [Cell -> Nat]
    /\ \A c, d \in Cell : own[c] \in Bucket /\ own[c] = own[d] /\ rank[c] = rank[d] => c = d
Lists(tb, en, own, rank) ==
    /\ Order(own, rank)
    /\ \A b \in Bucket : HeadOf(own, rank, b, tb[b])
    /\ \A c \in Cell : own[c] \in Bucket => NextOf(own, rank, c, en[c].next)

\* The lists, the pointers and the entries depend on next only.
LEMMA ListsDependOnNext ==
    ASSUME NEW tb, NEW en, NEW en2, NEW own, NEW rank, Lists(tb, en, own, rank),
           \A c \in Cell : own[c] \in Bucket => en2[c].next = en[c].next
    PROVE  Lists(tb, en2, own, rank)
  BY DEF Lists

\* A cell that is in no list becomes the first of list b.
LEMMA Linking ==
    ASSUME NEW tb \in [Bucket -> Pointer], NEW en, NEW own, NEW rank, Lists(tb, en, own, rank),
           NEW c \in Cell, own[c] = NBuckets, NEW b \in Bucket, en[c].next = tb[b]
    PROVE  \E r \in Nat :
              Lists([tb EXCEPT ![b] = c], en, [own EXCEPT ![c] = b], [rank EXCEPT ![c] = r])
<1> DEFINE r == IF tb[b] = NULL THEN 0 ELSE rank[tb[b]] + 1
           tb2 == [tb EXCEPT ![b] = c]
           own2 == [own EXCEPT ![c] = b]
           rank2 == [rank EXCEPT ![c] = r]
<1>1. /\ own \in [Cell -> 0 .. NBuckets] /\ rank \in [Cell -> Nat]
      /\ \A d, e \in Cell : own[d] \in Bucket /\ own[d] = own[e] /\ rank[d] = rank[e] => d = e
  BY DEF Lists, Order
<1>2. /\ \A a \in Bucket : HeadOf(own, rank, a, tb[a])
      /\ \A d \in Cell : own[d] \in Bucket => NextOf(own, rank, d, en[d].next)
  BY DEF Lists
<1>3. NBuckets \notin Bucket /\ Bucket \subseteq 0 .. NBuckets /\ NULL \notin Cell
  BY BucketFacts, ChainAssumption DEF Bucket
<1>4. r \in Nat /\ \A d \in Cell : own[d] = b => rank[d] < r
  <2>1. HeadOf(own, rank, b, tb[b]) /\ \A d \in Cell : rank[d] \in Nat
    BY <1>1, <1>2
  <2>2. CASE tb[b] = NULL
    BY <1>3, <2>1, <2>2 DEF HeadOf
  <2>3. CASE tb[b] # NULL
    BY <1>3, <2>1, <2>3 DEF HeadOf
  <2> QED
    BY <2>2, <2>3
<1> HIDE DEF r
<1>5. /\ own2 \in [Cell -> 0 .. NBuckets] /\ rank2 \in [Cell -> Nat]
      /\ own2[c] = b /\ rank2[c] = r
      /\ \A d \in Cell : d # c => own2[d] = own[d] /\ rank2[d] = rank[d]
  BY <1>1, <1>3, <1>4
<1>6. tb2[b] = c /\ \A a \in Bucket : a # b => tb2[a] = tb[a]
  OBVIOUS
<1> HIDE DEF own2, rank2, tb2
<1>7. \A d \in Cell : d # c => rank[d] \in Nat /\ own[d] \in 0 .. NBuckets
  BY <1>1
<1>8. Order(own2, rank2)
  <2>1. ASSUME NEW d \in Cell, NEW e \in Cell,
               own2[d] \in Bucket, own2[d] = own2[e], rank2[d] = rank2[e]
        PROVE  d = e
    <3>1. CASE d # c /\ e # c
      BY <1>1, <1>5, <2>1, <3>1
    <3>2. CASE d # c /\ e = c
      BY <1>4, <1>5, <1>7, <2>1, <3>2
    <3>3. CASE d = c /\ e # c
      BY <1>4, <1>5, <1>7, <2>1, <3>3
    <3> QED
      BY <3>1, <3>2, <3>3
  <2> QED
    BY <1>5, <2>1 DEF Order
<1>9. ASSUME NEW a \in Bucket
      PROVE  HeadOf(own2, rank2, a, tb2[a])
  <2>1. CASE a = b
    BY <1>4, <1>5, <1>6, <1>7, <2>1 DEF HeadOf
  <2>2. CASE a # b
    <3>1. HeadOf(own, rank, a, tb[a]) /\ tb2[a] = tb[a] /\ own[c] # a
      BY <1>2, <1>3, <1>6, <2>2
    <3> QED
      BY <1>3, <1>5, <2>2, <3>1 DEF HeadOf
  <2> QED
    BY <2>1, <2>2
<1>10. ASSUME NEW d \in Cell, own2[d] \in Bucket
       PROVE  NextOf(own2, rank2, d, en[d].next)
  <2>1. CASE d = c
    <3>1. HeadOf(own, rank, b, en[c].next)
      BY <1>2
    <3> QED
      BY <1>3, <1>4, <1>5, <1>7, <2>1, <3>1 DEF HeadOf, NextOf
  <2>2. CASE d # c
    <3>1. own2[d] = own[d] /\ NextOf(own, rank, d, en[d].next) /\ own[c] # own[d]
      BY <1>2, <1>3, <1>5, <1>10, <2>2
    <3>2. own2[c] = own2[d] => rank2[d] < rank2[c]
      BY <1>4, <1>5, <2>2
    <3>3. rank2[d] \in Nat /\ rank2[c] \in Nat
      BY <1>5
    <3>4. CASE en[d].next = NULL
      BY <1>3, <1>5, <2>2, <3>1, <3>2, <3>3, <3>4 DEF NextOf
    <3>5. CASE en[d].next # NULL
      BY <1>3, <1>5, <2>2, <3>1, <3>2, <3>3, <3>5 DEF NextOf
    <3> QED
      BY <3>4, <3>5
  <2> QED
    BY <2>1, <2>2
<1>11. Lists(tb2, en, own2, rank2)
  BY <1>8, <1>9, <1>10 DEF Lists
<1> QED
  BY <1>4, <1>11 DEF tb2, own2, rank2

\* Where a walk stands in list b: c is the head, or what p points to.
Stands(tb, en, own, b, p, c) ==
    /\ c = NULL \/ (c \in Cell /\ own[c] = b)
    /\ \/ p = NULL /\ c = tb[b]
       \/ p \in Cell /\ own[p] = b /\ en[p].next = c

\* TableWithout and EntriesWithout, for any table and entries.
TableOut(tb, en, b, p, c) == IF p = NULL THEN [tb EXCEPT ![b] = en[c].next] ELSE tb
OwnOut(own, c) == [own EXCEPT ![c] = NBuckets]
EntriesOut(en, p, c) == IF p # NULL THEN [en EXCEPT ![p].next = en[c].next] ELSE en

\* A cell is taken out of its list at the place where a walk stands.
LEMMA Unlinking ==
    ASSUME NEW tb \in [Bucket -> Pointer], NEW en \in [Cell -> Entry], NEW own, NEW rank,
           Lists(tb, en, own, rank),
           NEW b \in Bucket, NEW p \in Pointer, NEW c \in Cell, Stands(tb, en, own, b, p, c),
           NEW tb2, tb2 = TableOut(tb, en, b, p, c), NEW en2, en2 = EntriesOut(en, p, c)
    PROVE  /\ Lists(tb2, en2, OwnOut(own, c), rank)
           /\ p # c
           /\ \A d \in Cell : en2[d].key = en[d].key /\ en2[d].stamp = en[d].stamp
           /\ Stands(tb2, en2, OwnOut(own, c), b, p, en[c].next)
           /\ en2[c].next = en[c].next
<1> DEFINE own2 == [own EXCEPT ![c] = NBuckets]
           n == en[c].next
<1> USE DEF TableOut, EntriesOut, OwnOut
<1>1. /\ own \in [Cell -> 0 .. NBuckets] /\ rank \in [Cell -> Nat]
      /\ \A d, e \in Cell : own[d] \in Bucket /\ own[d] = own[e] /\ rank[d] = rank[e] => d = e
  BY DEF Lists, Order
<1>2. /\ \A a \in Bucket : HeadOf(own, rank, a, tb[a])
      /\ \A d \in Cell : own[d] \in Bucket => NextOf(own, rank, d, en[d].next)
  BY DEF Lists
<1>3. /\ NBuckets \notin Bucket /\ Bucket \subseteq 0 .. NBuckets /\ NULL \notin Cell
      /\ NBuckets \in 0 .. NBuckets
  BY BucketFacts, ChainAssumption DEF Bucket
<1>4. own[c] = b /\ NextOf(own, rank, c, n)
  BY <1>2, <1>3 DEF Stands
<1>5. /\ own2 \in [Cell -> 0 .. NBuckets] /\ own2[c] = NBuckets
      /\ \A d \in Cell : d # c => own2[d] = own[d]
  BY <1>1, <1>3
<1>6. \A d \in Cell : rank[d] \in Nat
  BY <1>1
<1> HIDE DEF own2, n
<1>7. Order(own2, rank)
  BY <1>1, <1>3, <1>5 DEF Order
<1>8. n # c /\ (n = NULL \/ (n \in Cell /\ own2[n] = b))
  BY <1>3, <1>4, <1>5, <1>6 DEF NextOf
<1>9. CASE p = NULL
  <2>1. /\ c = tb[b] /\ en2 = en /\ tb2 = [tb EXCEPT ![b] = n]
    BY <1>3, <1>9 DEF Stands, n
  <2>2. tb2[b] = n /\ \A a \in Bucket : a # b => tb2[a] = tb[a]
    BY <2>1
  <2>3. HeadOf(own, rank, b, c)
    BY <1>2, <2>1
  <2>4. ASSUME NEW a \in Bucket
        PROVE  HeadOf(own2, rank, a, tb2[a])
    <3>1. CASE a = b
      <4>1. \A d \in Cell : own2[d] = b => own[d] = own[c] /\ rank[d] < rank[c]
        BY <1>1, <1>3, <1>4, <1>5, <1>6, <2>3 DEF HeadOf
      <4> QED
        BY <1>4, <1>5, <1>6, <1>8, <2>2, <3>1, <4>1 DEF HeadOf, NextOf
    <3>2. CASE a # b
      <4>1. HeadOf(own, rank, a, tb[a]) /\ tb2[a] = tb[a]
        BY <1>2, <2>2, <3>2
      <4> QED
        BY <1>3, <1>4, <1>5, <3>2, <4>1 DEF HeadOf
    <3> QED
      BY <3>1, <3>2
  <2>5. ASSUME NEW d \in Cell, own2[d] \in Bucket
        PROVE  NextOf(own2, rank, d, en[d].next)
    <3>1. d # c /\ own2[d] = own[d] /\ NextOf(own, rank, d, en[d].next)
      BY <1>2, <1>3, <1>5, <2>5
    <3>2. own[d] = b => rank[d] < rank[c]
      BY <1>1, <1>4, <1>6, <2>3, <3>1 DEF HeadOf
    <3>3. en[d].next # c
      BY <1>4, <1>6, <3>1, <3>2, <1>3 DEF NextOf
    <3> QED
      BY <1>3, <1>4, <1>5, <2>5, <3>1, <3>3 DEF NextOf
  <2>6. Lists(tb2, en2, own2, rank)
    BY <1>7, <2>1, <2>4, <2>5 DEF Lists
  <2>7. Stands(tb2, en2, own2, b, p, n)
    BY <1>8, <1>9, <2>2 DEF Stands
  <2> QED
    BY <1>3, <1>9, <2>1, <2>6, <2>7 DEF own2, n
<1>10. CASE p # NULL
  <2>1. /\ p \in Cell /\ own[p] = b /\ en[p].next = c /\ tb2 = tb
        /\ en2 = [en EXCEPT ![p].next = n]
    BY <1>10 DEF Stands, n
  <2>2. /\ NextOf(own, rank, p, c) /\ rank[c] < rank[p] /\ p # c
    BY <1>2, <1>3, <1>6, <2>1 DEF NextOf
  <2>3. /\ en2[p].next = n /\ \A d \in Cell : d # p => en2[d] = en[d]
        /\ \A d \in Cell : en2[d].key = en[d].key
    BY <2>1 DEF Entry
  <2>4. ASSUME NEW a \in Bucket
        PROVE  HeadOf(own2, rank, a, tb2[a])
    <3>1. HeadOf(own, rank, a, tb[a]) /\ tb2[a] = tb[a]
      BY <1>2, <2>1
    <3>2. tb[a] # c
      BY <1>3, <1>4, <1>6, <2>1, <2>2, <3>1 DEF HeadOf
    <3> QED
      BY <1>3, <1>5, <2>1, <2>2, <3>1, <3>2 DEF HeadOf
  <2>5. ASSUME NEW d \in Cell, own2[d] \in Bucket
        PROVE  NextOf(own2, rank, d, en2[d].next)
    <3>1. d # c /\ own2[d] = own[d] /\ NextOf(own, rank, d, en[d].next)
      BY <1>2, <1>3, <1>5, <2>5
    <3>2. CASE d = p
      <4>1. \A e \in Cell : own2[e] = b /\ rank[e] < rank[p] => rank[e] < rank[c]
        BY <1>1, <1>3, <1>4, <1>5, <1>6, <2>1, <2>2 DEF NextOf
      <4>2. CASE n = NULL
        <5>1. \A e \in Cell : own2[e] = b => rank[e] >= rank[p]
          <6> SUFFICES ASSUME NEW e \in Cell, own2[e] = b, ~(rank[e] >= rank[p])
                       PROVE  FALSE
            OBVIOUS
          <6>1. rank[e] < rank[p]
            BY <1>6, <2>1
          <6>2. own[e] = b /\ rank[e] < rank[c]
            BY <1>3, <1>5, <4>1, <6>1
          <6> QED
            BY <1>3, <1>4, <1>6, <4>2, <6>2 DEF NextOf
        <5> QED
          BY <2>1, <2>3, <3>1, <3>2, <4>2, <5>1 DEF NextOf
      <4>3. CASE n # NULL
        <5>1. /\ n \in Cell /\ own[n] = b /\ rank[n] < rank[c] /\ own2[n] = b
              /\ \A e \in Cell : own[e] = b /\ rank[e] < rank[c] => rank[e] <= rank[n]
          BY <1>4, <1>8, <4>3 DEF NextOf
        <5>2. rank[n] < rank[p]
          BY <1>6, <2>1, <2>2, <5>1
        <5>3. \A e \in Cell : own2[e] = b /\ rank[e] < rank[p] => rank[e] <= rank[n]
          BY <1>3, <1>5, <4>1, <5>1, BucketFacts
        <5> QED
          BY <2>1, <2>3, <3>1, <3>2, <5>1, <5>2, <5>3 DEF NextOf
      <4> QED
        BY <4>2, <4>3
    <3>3. CASE d # p
      <4>1. en2[d].next = en[d].next
        BY <2>3, <3>3
      <4>2. en[d].next # c
        <5> SUFFICES ASSUME en[d].next = c PROVE FALSE
          OBVIOUS
        <5>1. own[d] = b /\ rank[c] < rank[d]
          BY <1>3, <1>4, <3>1 DEF NextOf
        <5>2. rank[d] # rank[p]
          BY <1>1, <2>1, <3>3, <5>1
        <5>3. \/ rank[p] < rank[d] /\ rank[p] <= rank[c]
              \/ rank[d] < rank[p] /\ rank[d] <= rank[c]
          BY <1>3, <1>4, <1>6, <2>1, <2>2, <3>1, <5>1, <5>2 DEF NextOf
        <5> QED
          BY <1>6, <2>1, <2>2, <5>1, <5>3
      <4>3. en[d].next \in Cell => own2[en[d].next] = own[en[d].next]
        BY <1>5, <4>2
      <4>4. \A e \in Cell : own2[e] = own2[d] => own[e] = own[d]
        BY <1>3, <1>5, <2>5, <3>1
      <4> QED
        BY <3>1, <4>1, <4>3, <4>4 DEF NextOf
    <3> QED
      BY <3>2, <3>3
  <2>6. Lists(tb2, en2, own2, rank)
    BY <1>7, <2>4, <2>5 DEF Lists
  <2>7. Stands(tb2, en2, own2, b, p, n)
    BY <1>5, <1>8, <2>1, <2>2, <2>3 DEF Stands
  <2>8. en2[c].next = n
    BY <2>2, <2>3 DEF n
  <2> QED
    BY <2>2, <2>3, <2>6, <2>7, <2>8 DEF own2, n
<1> QED
  BY <1>9, <1>10

-----------------------------------------------------------------------------
(* What the calls of one thread keep. *)

Listed(own) == {c \in Cell : own[c] \in Bucket}

\* The entries of the list in front of the one that the call has reached.
Passed(own, rank, t) ==
    {c \in Cell : own[c] = bucket[t] /\ (cur[t] = NULL \/ rank[c] > rank[cur[t]])}

\* An allocated entry is in the list of its key, and a key has one entry.
KeyInv(own) ==
    /\ \A c \in live : own[c] \in Bucket => HashOf[entry[c].key] = own[c]
    /\ \A c, d \in live :
          own[c] \in Bucket /\ own[d] \in Bucket /\ entry[c].key = entry[d].key => c = d

\* A walk has passed entries of other keys only.
WalkInv(own, rank, t) ==
    /\ live = Listed(own)
    /\ call[t].op \in {"set", "get", "remove"}
    /\ bucket[t] = HashOf[call[t].key]
    /\ Stands(table, entry, own, bucket[t], prev[t], cur[t])
    /\ \A c \in Passed(own, rank, t) : entry[c].key # call[t].key

\* A new entry is complete before it becomes the head, and its key is new.
LinkInv(own, t) ==
    /\ own[cur[t]] = NBuckets /\ live = Listed(own) \cup {cur[t]}
    /\ bucket[t] = HashOf[call[t].key]
    /\ entry[cur[t]].key = call[t].key /\ entry[cur[t]].next = table[bucket[t]]
    /\ \A c \in Cell : own[c] = bucket[t] => entry[c].key # call[t].key
    /\ call[t].op = "set"
    /\ entry[cur[t]].value = call[t].value /\ entry[cur[t]].stamp = now

FreeInv(own, t) == own[cur[t]] = NBuckets /\ live = Listed(own) \cup {cur[t]}

\* A cleanup leaves lists of allocated entries; a destroy frees a list from its
\* head on and forgets it at its end.
SweepInv(own, rank, t) ==
    /\ call[t].op \in {"cleanup", "destroy"}
    /\ cur[t] = NULL \/ (cur[t] \in Cell /\ own[cur[t]] = bucket[t])
    /\ call[t].op = "cleanup" =>
          live = Listed(own) /\ Stands(table, entry, own, bucket[t], prev[t], cur[t])
    /\ call[t].op = "destroy" => live = Listed(own) \ Passed(own, rank, t)

\* What a sweep has left behind it: no expired entry, or no entry at all.
SweptInv(own, rank, t) ==
    /\ call[t].op = "cleanup" =>
          \A c \in live : own[c] < bucket[t] \/ c \in Passed(own, rank, t) => ~Expired(c)
    /\ call[t].op = "destroy" => \A c \in Listed(own) : own[c] >= bucket[t]

ThreadInv(own, rank, t) ==
    /\ pc[t] = "idle" => live = Listed(own)
    /\ pc[t] \in {"walk", "found"} => WalkInv(own, rank, t)
    /\ pc[t] = "found" => entry[cur[t]].key = call[t].key
    /\ pc[t] = "link" => LinkInv(own, t)
    /\ pc[t] = "free" => FreeInv(own, t)
    /\ pc[t] = "sweep" => SweepInv(own, rank, t) /\ SweptInv(own, rank, t)

Chain(own, rank, t) ==
    /\ Lists(table, entry, own, rank)
    /\ KeyInv(own)
    /\ ThreadInv(own, rank, t)

\* The head of a list is in front of all of it.
LEMMA AtHead ==
    ASSUME NEW tb, NEW en, NEW own, NEW rank, Lists(tb, en, own, rank), NEW b \in Bucket
    PROVE  /\ Stands(tb, en, own, b, NULL, tb[b])
           /\ tb[b] = NULL \/ (tb[b] \in Cell /\ own[tb[b]] = b)
           /\ {c \in Cell : own[c] = b /\ (tb[b] = NULL \/ rank[c] > rank[tb[b]])} = {}
<1>1. HeadOf(own, rank, b, tb[b]) /\ \A c \in Cell : rank[c] \in Nat
  BY DEF Lists, Order
<1>2. NULL \notin Cell
  BY ChainAssumption
<1> QED
  BY <1>1, <1>2 DEF HeadOf, Stands

\* One entry further.
LEMMA Further ==
    ASSUME NEW tb, NEW en, NEW own, NEW rank, Lists(tb, en, own, rank), NEW b \in Bucket,
           NEW c \in Cell, own[c] = b, NEW n, n = en[c].next
    PROVE  /\ Stands(tb, en, own, b, c, n)
           /\ n = NULL \/ (n \in Cell /\ own[n] = b)
           /\ {d \in Cell : own[d] = b /\ (n = NULL \/ rank[d] > rank[n])} =
              {d \in Cell : own[d] = b /\ (c = NULL \/ rank[d] > rank[c])} \cup {c}
<1>1. /\ NextOf(own, rank, c, n) /\ \A d \in Cell : rank[d] \in Nat
      /\ \A d \in Cell : own[d] = b /\ rank[d] = rank[c] => d = c
  BY DEF Lists, Order
<1>2. NULL \notin Cell
  BY ChainAssumption
<1>3. n = NULL \/ (n \in Cell /\ own[n] = b)
  BY <1>1 DEF NextOf
<1>4. ASSUME NEW d \in Cell, own[d] = b
      PROVE  (n = NULL \/ rank[d] > rank[n]) <=> (rank[d] > rank[c] \/ d = c)
  BY <1>1, <1>2, <1>4 DEF NextOf
<1> QED
  BY <1>2, <1>3, <1>4 DEF Stands

LEMMA Types ==
    ASSUME ChainVarsOK, NEW t \in Thread
    PROVE  /\ table \in [Bucket -> Pointer] /\ entry \in [Cell -> Entry] /\ live \subseteq Cell
           /\ pc \in [Thread -> PC] /\ call \in [Thread -> Call] /\ bucket \in [Thread -> Bucket]
           /\ cur \in [Thread -> Pointer] /\ prev \in [Thread -> Pointer]
           /\ cur[t] \in Pointer /\ prev[t] \in Pointer /\ bucket[t] \in Bucket
           /\ call[t] \in Call /\ call[t].key \in Key
           /\ NULL \notin Cell /\ Pointer = Cell \cup {NULL}
           /\ NBuckets \notin Bucket
<1>1. call[t] \in Call
  BY DEF ChainVarsOK
<1>2. call[t].key \in Key
  BY <1>1 DEF Call
<1>3. NBuckets \notin Bucket
  BY BucketFacts DEF Bucket
<1> QED
  BY <1>1, <1>2, <1>3, ChainAssumption DEF ChainVarsOK, PC, Pointer

LEMMA StartChain ==
    ASSUME ChainVarsOK, NEW t \in Thread, NEW own, NEW rank, Chain(own, rank, t),
           \/ \E op \in {"set", "get", "remove"}, k \in Key, v \in Value : Begin(t, op, k, v)
           \/ \E op \in {"cleanup", "destroy"} : Sweep(t, op)
    PROVE  Chain(own, rank, t)'
<1>1. ASSUME NEW c \in Call, NEW b \in Bucket, NEW l \in {"walk", "sweep"}, Start(t, c, b, l),
             l = "walk" => c.op \in {"set", "get", "remove"} /\ b = HashOf[c.key],
             l = "sweep" => c.op \in {"cleanup", "destroy"} /\ b = 0
      PROVE  Chain(own, rank, t)'
  <2>1. /\ pc[t] = "idle" /\ pc'[t] = l /\ call'[t] = c /\ bucket'[t] = b /\ cur'[t] = table[b]
        /\ prev'[t] = NULL /\ UNCHANGED <<table, entry, live, now>>
    BY <1>1, Types DEF Start, memVars
  <2>2. live = Listed(own) /\ Lists(table, entry, own, rank) /\ KeyInv(own)
    BY <2>1 DEF Chain, ThreadInv
  <2>3. /\ Stands(table, entry, own, b, NULL, table[b])
        /\ table[b] = NULL \/ (table[b] \in Cell /\ own[table[b]] = b)
        /\ {d \in Cell : own[d] = b /\ (table[b] = NULL \/ rank[d] > rank[table[b]])} = {}
    BY <2>2, AtHead
  <2>4. Passed(own, rank, t)' = {}
    BY <2>1, <2>3 DEF Passed
  <2>5. l = "walk" => WalkInv(own, rank, t)'
    BY <1>1, <2>1, <2>2, <2>3, <2>4 DEF WalkInv, Listed
  <2>6. l = "sweep" => SweepInv(own, rank, t)'
    BY <1>1, <2>1, <2>2, <2>3, <2>4 DEF SweepInv, Listed
  <2>7. l = "sweep" => SweptInv(own, rank, t)'
    <3>1. \A d \in Cell : own[d] \in Int /\ own[d] >= 0 /\ ~(own[d] < 0)
      BY <2>2, BucketFacts DEF Lists, Order
    <3> QED
      BY <1>1, <2>1, <2>4, <3>1, Types DEF SweptInv, Listed
  <2>8. ThreadInv(own, rank, t)'
    BY <1>1, <2>1, <2>5, <2>6, <2>7 DEF ThreadInv
  <2>9. Lists(table', entry', own, rank) /\ KeyInv(own)'
    BY <2>1, <2>2 DEF KeyInv
  <2> QED
    BY <2>8, <2>9 DEF Chain
<1>2. ASSUME NEW op \in {"set", "get", "remove"}, NEW k \in Key, NEW v \in Value,
             Begin(t, op, k, v)
      PROVE  Chain(own, rank, t)'
  <2> DEFINE c == [op |-> op, key |-> k, value |-> v]
  <2>1. c \in Call /\ HashOf[k] \in Bucket /\ c.op = op /\ c.key = k
    BY ChainAssumption DEF Call
  <2>2. Start(t, c, HashOf[k], "walk")
    BY <1>2 DEF Begin
  <2> HIDE DEF c
  <2> QED
    BY <1>1, <2>1, <2>2
<1>3. ASSUME NEW op \in {"cleanup", "destroy"}, Sweep(t, op)
      PROVE  Chain(own, rank, t)'
  <2> DEFINE c == [NoCall EXCEPT !.op = op]
  <2>1. c \in Call /\ c.op = op
    BY NoCallFacts DEF Call
  <2>2. Start(t, c, 0, "sweep")
    BY <1>3 DEF Sweep
  <2> HIDE DEF c
  <2> QED
    BY <1>1, <2>1, <2>2, BucketFacts
<1> QED
  BY <1>2, <1>3

LEMMA WalkChain ==
    ASSUME ChainVarsOK, NEW t \in Thread, NEW own, NEW rank, Chain(own, rank, t), Walk(t)
    PROVE  Chain(own, rank, t)'
<1>1. /\ pc[t] = "walk" /\ cur[t] # NULL /\ UNCHANGED <<table, entry, live, call, bucket>>
  BY DEF Walk, GoTo, memVars
<1>2. /\ WalkInv(own, rank, t) /\ Lists(table, entry, own, rank) /\ KeyInv(own)
      /\ KeyInv(own)'
  BY <1>1 DEF Chain, ThreadInv, KeyInv
<1>3. CASE Match(t) /\ GoTo(t, "found") /\ UNCHANGED <<cur, prev>>
  <2>1. pc'[t] = "found" /\ cur'[t] = cur[t] /\ prev'[t] = prev[t]
    BY <1>3, Types DEF GoTo
  <2>2. WalkInv(own, rank, t)' /\ (entry[cur[t]].key = call[t].key)'
    BY <1>1, <1>2, <1>3, <2>1 DEF WalkInv, Match, Passed, Listed
  <2> QED
    BY <1>1, <1>2, <2>1, <2>2 DEF Chain, ThreadInv
<1>4. CASE /\ ~Match(t) /\ GoTo(t, "walk")
           /\ prev' = [prev EXCEPT ![t] = cur[t]]
           /\ cur' = [cur EXCEPT ![t] = entry[cur[t]].next]
  <2>1. pc'[t] = "walk" /\ cur'[t] = entry[cur[t]].next /\ prev'[t] = cur[t]
    BY <1>4, Types DEF GoTo
  <2>2. cur[t] \in Cell /\ own[cur[t]] = bucket[t] /\ bucket[t] \in Bucket
    BY <1>1, <1>2, Types DEF WalkInv, Stands
  <2>3. /\ Stands(table, entry, own, bucket[t], cur[t], cur'[t])
        /\ Passed(own, rank, t)' = Passed(own, rank, t) \cup {cur[t]}
    BY <1>1, <1>2, <2>1, <2>2, Further DEF Passed
  <2>4. entry[cur[t]].key # call[t].key
    BY <1>4 DEF Match
  <2>5. WalkInv(own, rank, t)'
    BY <1>1, <1>2, <2>1, <2>3, <2>4 DEF WalkInv, Listed
  <2> QED
    BY <1>1, <1>2, <2>1, <2>5 DEF Chain, ThreadInv
<1> QED
  BY <1>3, <1>4 DEF Walk

\* A call that returns leaves lists of the allocated entries.
LEMMA ReturnChain ==
    ASSUME ChainVarsOK, NEW t \in Thread, NEW own, NEW rank, Return(t),
           Lists(table', entry', own, rank), KeyInv(own)', live' = Listed(own)
    PROVE  Chain(own, rank, t)'
<1>1. pc'[t] = "idle"
  BY Types DEF Return
<1> QED
  BY <1>1 DEF Chain, ThreadInv, Listed

LEMMA SetFoundChain ==
    ASSUME ChainVarsOK, NEW t \in Thread, NEW own, NEW rank, Chain(own, rank, t), SetFound(t)
    PROVE  Chain(own, rank, t)'
<1>1. /\ pc[t] = "found" /\ UNCHANGED <<table, live>> /\ Return(t)
      /\ entry' = [entry EXCEPT ![cur[t]].value = call[t].value, ![cur[t]].stamp = now]
  BY DEF SetFound
<1>2. live = Listed(own) /\ Lists(table, entry, own, rank) /\ KeyInv(own)
  BY <1>1 DEF Chain, ThreadInv, WalkInv
<1>3. \A c \in Cell : entry'[c].next = entry[c].next /\ entry'[c].key = entry[c].key
  BY <1>1, Types DEF Entry
<1>4. Lists(table', entry', own, rank)
  BY <1>1, <1>2, <1>3, ListsDependOnNext
<1>5. KeyInv(own)'
  BY <1>1, <1>2, <1>3, Types DEF KeyInv
<1> QED
  BY <1>1, <1>2, <1>4, <1>5, ReturnChain

LEMMA SetNewChain ==
    ASSUME ChainVarsOK, NEW t \in Thread, NEW own, NEW rank, Chain(own, rank, t), SetNew(t)
    PROVE  Chain(own, rank, t)'
<1>1. PICK c \in Cell \ live :
         /\ live' = live \cup {c} /\ entry' = [entry EXCEPT ![c] = NewEntry(t)]
         /\ cur' = [cur EXCEPT ![t] = c]
  BY DEF SetNew
<1>2. /\ pc[t] = "walk" /\ cur[t] = NULL /\ UNCHANGED <<table, prev, call, bucket, now>>
      /\ call[t].op = "set" /\ pc'[t] = "link" /\ cur'[t] = c
  BY <1>1, Types DEF SetNew, GoTo
<1>3. WalkInv(own, rank, t) /\ Lists(table, entry, own, rank) /\ KeyInv(own)
  BY <1>2 DEF Chain, ThreadInv
<1>4. own[c] = NBuckets
  <2>1. c \notin Listed(own) /\ own[c] \in 0 .. NBuckets
    BY <1>3 DEF WalkInv, Lists, Order
  <2> QED
    BY <1>1, <2>1, BucketFacts DEF Listed, Bucket
<1>5. /\ entry'[c].key = call[t].key /\ entry'[c].next = table[bucket[t]]
      /\ entry'[c].value = call[t].value /\ entry'[c].stamp = now
      /\ \A d \in Cell : d # c => entry'[d] = entry[d]
  BY <1>1, Types DEF NewEntry
<1>6. Lists(table', entry', own, rank)
  BY <1>2, <1>3, <1>4, <1>5, ListsDependOnNext, Types
<1>7. KeyInv(own)'
  BY <1>1, <1>3, <1>4, <1>5, Types DEF KeyInv
<1>8. LinkInv(own, t)'
  <2>1. \A d \in Cell : own[d] = bucket[t] => d # c /\ entry[d].key # call[t].key
    BY <1>2, <1>3, <1>4, Types DEF WalkInv, Passed
  <2> QED
    BY <1>1, <1>2, <1>3, <1>4, <1>5, <2>1 DEF LinkInv, WalkInv, Listed
<1> QED
  BY <1>2, <1>6, <1>7, <1>8 DEF Chain, ThreadInv

LEMMA SetLinkChain ==
    ASSUME ChainVarsOK, HandInv, NEW t \in Thread, NEW own, NEW rank, Chain(own, rank, t),
           SetLink(t)
    PROVE  \E o, r : Chain(o, r, t)'
<1>1. /\ pc[t] = "link" /\ UNCHANGED <<entry, live>> /\ Return(t)
      /\ table' = [table EXCEPT ![bucket[t]] = cur[t]]
  BY DEF SetLink
<1>2. PICK c \in Cell, b \in Bucket : c = cur[t] /\ b = bucket[t]
  BY <1>1, Types DEF HandInv, Holding
<1>3. LinkInv(own, t) /\ Lists(table, entry, own, rank) /\ KeyInv(own)
  BY <1>1 DEF Chain, ThreadInv
<1> DEFINE o == [own EXCEPT ![c] = b]
<1>4. PICK r \in Nat : Lists(table', entry', o, [rank EXCEPT ![c] = r])
  BY <1>1, <1>2, <1>3, Types, Linking DEF LinkInv
<1> DEFINE r2 == [rank EXCEPT ![c] = r]
<1>5. /\ o[c] = b /\ \A d \in Cell : d # c => o[d] = own[d]
  BY <1>2, <1>3 DEF Lists, Order
<1> HIDE DEF o, r2
<1>6. live' = Listed(o)
  <2>1. \A d \in Cell : d \in Listed(o) <=> d \in Listed(own) \/ d = c
    BY <1>2, <1>3, <1>5, Types DEF Listed, LinkInv
  <2> QED
    BY <1>1, <1>2, <1>3, <2>1 DEF LinkInv, Listed
<1>7. KeyInv(o)'
  <2>1. \A d \in live : o[d] \in Bucket => HashOf[entry[d].key] = o[d]
    BY <1>2, <1>3, <1>5, Types DEF KeyInv, LinkInv
  <2>2. ASSUME NEW d \in live, d # c, o[d] \in Bucket
        PROVE  entry[d].key # entry[c].key
    BY <1>2, <1>3, <1>5, <2>1, <2>2, Types DEF LinkInv
  <2>3. \A d, e \in live :
           o[d] \in Bucket /\ o[e] \in Bucket /\ entry[d].key = entry[e].key => d = e
    BY <1>2, <1>3, <1>5, <2>2, Types DEF KeyInv
  <2> QED
    BY <1>1, <2>1, <2>3 DEF KeyInv
<1>8. Chain(o, r2, t)'
  BY <1>1, <1>4, <1>6, <1>7, ReturnChain DEF r2
<1> QED
  BY <1>8

LEMMA NoChangeChain ==
    ASSUME ChainVarsOK, NEW t \in Thread, NEW own, NEW rank, Chain(own, rank, t),
           Get(t) \/ RemoveMissing(t)
    PROVE  Chain(own, rank, t)'
<1>1. /\ pc[t] \in {"walk", "found"} /\ UNCHANGED <<table, entry, live>> /\ Return(t)
  BY DEF Get, RemoveMissing, memVars
<1>2. live = Listed(own) /\ Lists(table, entry, own, rank) /\ KeyInv(own)
  BY <1>1 DEF Chain, ThreadInv, WalkInv
<1>3. Lists(table', entry', own, rank) /\ KeyInv(own)' /\ live' = Listed(own)
  BY <1>1, <1>2 DEF KeyInv
<1> QED
  BY <1>1, <1>3, ReturnChain

\* What one entry less in the lists means for the keys.
LEMMA FewerKeys ==
    ASSUME ChainVarsOK, NEW own, NEW o, KeyInv(own), live' \subseteq live,
           \A d \in live' : o[d] \in Bucket => own[d] = o[d] /\ entry'[d].key = entry[d].key
    PROVE  KeyInv(o)'
<1>1. \A d \in live' : d \in live
  OBVIOUS
<1> QED
  BY <1>1 DEF KeyInv

\* The entry c is in no list any more.
LEMMA TakenOut ==
    ASSUME NEW own, NEW rank, Order(own, rank), NEW c \in Cell, own[c] \in Bucket,
           NEW o \in [Cell -> 0 .. NBuckets], o[c] = NBuckets,
           \A d \in Cell : d # c => o[d] = own[d]
    PROVE  /\ \A d \in Cell : o[d] \in Bucket => d # c /\ own[d] = o[d]
           /\ Listed(own) = Listed(o) \cup {c} /\ c \notin Listed(o)
<1>1. NBuckets \notin Bucket
  BY BucketFacts DEF Bucket
<1> QED
  BY <1>1 DEF Listed

LEMMA UnlinkChain ==
    ASSUME ChainVarsOK, HandInv, NEW t \in Thread, NEW own, NEW rank, Chain(own, rank, t),
           Unlink(t)
    PROVE  \E o : Chain(o, rank, t)'
<1>1. /\ pc[t] = "found" /\ table' = TableWithout(t) /\ entry' = EntriesWithout(t)
      /\ pc'[t] = "free" /\ UNCHANGED <<live, cur, prev, bucket, call>>
  BY Types DEF Unlink, GoTo
<1>2. PICK c \in Cell, b \in Bucket : c = cur[t] /\ b = bucket[t]
  BY <1>1, Types DEF HandInv, Holding
<1>3. /\ live = Listed(own) /\ Lists(table, entry, own, rank) /\ KeyInv(own)
      /\ Stands(table, entry, own, b, prev[t], c)
  BY <1>1, <1>2 DEF Chain, ThreadInv, WalkInv
<1>4. Order(own, rank) /\ own[c] = b
  BY <1>2, <1>3, Types DEF Lists, Stands
<1>5. PICK o : o = [own EXCEPT ![c] = NBuckets]
  OBVIOUS
<1>6. Lists(table', entry', o, rank) /\ \A d \in Cell : entry'[d].key = entry[d].key
  <2>1. /\ table' = TableOut(table, entry, b, prev[t], c) /\ entry' = EntriesOut(entry, prev[t], c)
    BY <1>1, <1>2 DEF TableWithout, EntriesWithout, TableOut, EntriesOut
  <2>2. table \in [Bucket -> Pointer] /\ entry \in [Cell -> Entry] /\ prev[t] \in Pointer
    BY Types
  <2>3. /\ Lists(table', entry', OwnOut(own, c), rank)
        /\ \A d \in Cell : entry'[d].key = entry[d].key
    BY <1>2, <1>3, <2>1, <2>2, Unlinking
  <2> QED
    BY <1>5, <2>3 DEF OwnOut
<1>7. /\ o[c] = NBuckets /\ \A d \in Cell : o[d] \in Bucket => d # c /\ own[d] = o[d]
      /\ Listed(own) = Listed(o) \cup {c}
  <2>1. own \in [Cell -> 0 .. NBuckets] /\ NBuckets \in 0 .. NBuckets
    BY <1>4, BucketFacts DEF Order
  <2>2. /\ o \in [Cell -> 0 .. NBuckets] /\ o[c] = NBuckets
        /\ \A d \in Cell : d # c => o[d] = own[d]
    BY <1>2, <1>4, <1>5, <2>1
  <2> QED
    BY <1>2, <1>4, <2>2, TakenOut
<1>8. KeyInv(o)'
  BY <1>1, <1>3, <1>6, <1>7, Types, FewerKeys
<1>9. FreeInv(o, t)'
  BY <1>1, <1>2, <1>3, <1>7 DEF FreeInv, Listed
<1>10. Chain(o, rank, t)'
  BY <1>1, <1>6, <1>8, <1>9 DEF Chain, ThreadInv
<1> QED
  BY <1>10

LEMMA FreeChain ==
    ASSUME ChainVarsOK, HandInv, NEW t \in Thread, NEW own, NEW rank, Chain(own, rank, t),
           Free(t)
    PROVE  Chain(own, rank, t)'
<1>1. pc[t] = "free" /\ table' = table /\ Release(cur[t], entry) /\ Return(t)
  BY DEF Free
<1>2. PICK c \in Cell : c = cur[t]
  BY <1>1 DEF HandInv, Holding
<1>3. FreeInv(own, t) /\ Lists(table, entry, own, rank) /\ KeyInv(own)
  BY <1>1 DEF Chain, ThreadInv
<1>4. /\ \A d \in Cell : d # c => entry'[d] = entry[d]
      /\ \A d \in Cell : entry'[d].next = entry[d].next
  BY <1>1, <1>2, Types, ReleaseType
<1>5. live' = live \ {c}
  BY <1>1, <1>2 DEF Release
<1>6. live' = Listed(own)
  BY <1>2, <1>3, <1>5, Types DEF FreeInv, Listed
<1>7. Lists(table', entry', own, rank)
  BY <1>1, <1>3, <1>4, ListsDependOnNext
<1>8. KeyInv(own)'
  BY <1>3, <1>4, <1>5, Types, FewerKeys
<1> QED
  BY <1>1, <1>6, <1>7, <1>8, ReturnChain

LEMMA CleanEntryChain ==
    ASSUME ChainVarsOK, NEW t \in Thread, NEW own, NEW rank, Chain(own, rank, t),
           CleanEntry(t)
    PROVE  \E o : Chain(o, rank, t)'
<1>1. /\ pc[t] = "sweep" /\ cur[t] # NULL /\ call[t].op = "cleanup"
      /\ UNCHANGED <<now, pc, call, bucket>> /\ cur'[t] = entry[cur[t]].next
  BY Types DEF CleanEntry
<1>2. PICK c \in Cell, b \in Bucket : c = cur[t] /\ b = bucket[t]
  BY <1>1, Types
<1>3. /\ live = Listed(own) /\ Lists(table, entry, own, rank) /\ KeyInv(own)
      /\ Stands(table, entry, own, b, prev[t], c)
  BY <1>1, <1>2 DEF Chain, ThreadInv, SweepInv
<1>4. Order(own, rank) /\ own[c] = b
  BY <1>2, <1>3, Types DEF Lists, Stands
<1> DEFINE n == entry[c].next
           Before(x) == {d \in Cell : own[d] = b /\ (x = NULL \/ rank[d] > rank[x])}
<1>4a. /\ Stands(table, entry, own, b, c, n) /\ Before(n) = Before(c) \cup {c}
  BY <1>2, <1>3, <1>4, Further
<1>4b. \A d \in live : own[d] < b \/ d \in Before(c) => ~Expired(d)
  BY <1>1, <1>2 DEF Chain, ThreadInv, SweptInv, Passed
<1>5. CASE /\ table' = TableWithout(t) /\ Release(c, EntriesWithout(t)) /\ prev' = prev
  <2>1. PICK o, e, p :
           o = [own EXCEPT ![c] = NBuckets] /\ e = EntriesWithout(t) /\ p = prev[t]
    OBVIOUS
  <2>2. e \in [Cell -> Entry]
    BY <1>2, <2>1, WithoutType
  <2>3. /\ Lists(table', e, o, rank) /\ \A d \in Cell : e[d].key = entry[d].key /\ e[d].stamp = entry[d].stamp
        /\ Stands(table', e, o, b, p, entry[c].next)
    <3>1. table' = TableOut(table, entry, b, p, c) /\ e = EntriesOut(entry, p, c)
      BY <1>2, <1>5, <2>1 DEF TableWithout, EntriesWithout, TableOut, EntriesOut
    <3>2. table \in [Bucket -> Pointer] /\ entry \in [Cell -> Entry] /\ p \in Pointer
      BY <2>1, Types
    <3>3. Stands(table, entry, own, b, p, c)
      BY <1>3, <2>1
    <3>4. /\ Lists(table', e, OwnOut(own, c), rank)
          /\ \A d \in Cell : e[d].key = entry[d].key /\ e[d].stamp = entry[d].stamp
          /\ Stands(table', e, OwnOut(own, c), b, p, entry[c].next)
      BY <1>2, <1>3, <3>1, <3>2, <3>3, Unlinking
    <3> QED
      BY <2>1, <3>4 DEF OwnOut
  <2>4. /\ o[c] = NBuckets /\ \A d \in Cell : o[d] \in Bucket => d # c /\ own[d] = o[d]
        /\ Listed(own) = Listed(o) \cup {c} /\ c \notin Listed(o)
    <3>1. own \in [Cell -> 0 .. NBuckets] /\ NBuckets \in 0 .. NBuckets
      BY <1>4, BucketFacts DEF Order
    <3>2. /\ o \in [Cell -> 0 .. NBuckets] /\ o[c] = NBuckets
          /\ \A d \in Cell : d # c => o[d] = own[d]
      BY <1>2, <1>4, <2>1, <3>1
    <3> QED
      BY <1>2, <1>4, <3>2, TakenOut
  <2>5. /\ \A d \in Cell : d # c => entry'[d] = e[d]
        /\ \A d \in Cell : entry'[d].next = e[d].next
    BY <1>5, <2>1, <2>2, Types, ReleaseType
  <2>6. live' = live \ {c}
    BY <1>5 DEF Release
  <2>7. Lists(table', entry', o, rank)
    BY <2>3, <2>5, ListsDependOnNext
  <2>8. KeyInv(o)'
    BY <1>3, <2>3, <2>4, <2>5, <2>6, Types, FewerKeys
  <2>9. Stands(table', entry', o, b, p, entry[c].next)
    BY <2>3, <2>5 DEF Stands
  <2>10. SweepInv(o, rank, t)'
    BY <1>1, <1>2, <1>3, <1>5, <2>1, <2>4, <2>6, <2>9 DEF SweepInv, Listed, Stands
  <2>11. SweptInv(o, rank, t)'
    <3>1. ASSUME NEW d \in live', o[d] < b \/ d \in Passed(o, rank, t)'
          PROVE  ~Expired(d)'
      <4>1. d \in live /\ d # c /\ d \in Cell
        BY <2>6, Types
      <4>2. o[d] = own[d] /\ entry'[d].stamp = entry[d].stamp
        BY <1>4, <2>1, <2>3, <2>5, <4>1 DEF Order
      <4>3. own[d] < b \/ d \in Before(n)
        BY <1>1, <1>2, <3>1, <4>1, <4>2 DEF Passed
      <4>4. ~Expired(d)
        BY <1>4a, <1>4b, <4>1, <4>3
      <4> QED
        BY <1>1, <4>2, <4>4 DEF Expired
    <3> QED
      BY <1>1, <1>2, <3>1 DEF SweptInv
  <2>12. Chain(o, rank, t)'
    BY <1>1, <2>7, <2>8, <2>10, <2>11 DEF Chain, ThreadInv
  <2> QED
    BY <2>12
<1>6. CASE ~Expired(c) /\ prev' = [prev EXCEPT ![t] = c] /\ UNCHANGED memVars
  <2>1. UNCHANGED <<table, entry, live>> /\ prev'[t] = c
    BY <1>6, Types DEF memVars
  <2>2. \A d \in live : own[d] < b \/ d \in Before(n) => ~Expired(d)
    BY <1>6, <1>4a, <1>4b
  <2>3. SweepInv(own, rank, t)' /\ SweptInv(own, rank, t)'
    <3>1. SweepInv(own, rank, t)'
      BY <1>1, <1>2, <1>3, <1>4a, <2>1 DEF SweepInv, Listed, Stands
    <3>2. Passed(own, rank, t)' = Before(n)
      BY <1>1, <1>2 DEF Passed
    <3>3. SweptInv(own, rank, t)'
      BY <1>1, <1>2, <2>1, <2>2, <3>2 DEF SweptInv, Expired
    <3> QED
      BY <3>1, <3>3
  <2>4. Lists(table', entry', own, rank) /\ KeyInv(own)'
    BY <1>3, <2>1 DEF KeyInv
  <2>5. Chain(own, rank, t)'
    BY <1>1, <2>3, <2>4 DEF Chain, ThreadInv
  <2> QED
    BY <2>5
<1> QED
  BY <1>2, <1>5, <1>6 DEF CleanEntry

LEMMA DestroyEntryChain ==
    ASSUME ChainVarsOK, NEW t \in Thread, NEW own, NEW rank, Chain(own, rank, t),
           DestroyEntry(t)
    PROVE  Chain(own, rank, t)'
<1>1. /\ pc[t] = "sweep" /\ cur[t] # NULL /\ call[t].op = "destroy" /\ Release(cur[t], entry)
      /\ UNCHANGED <<table, pc, call, bucket>> /\ cur'[t] = entry[cur[t]].next
  BY Types DEF DestroyEntry
<1>2. PICK c \in Cell, b \in Bucket : c = cur[t] /\ b = bucket[t]
  BY <1>1, Types
<1>3. /\ live = Listed(own) \ Passed(own, rank, t) /\ own[c] = b
      /\ Lists(table, entry, own, rank) /\ KeyInv(own)
  BY <1>1, <1>2, Types DEF Chain, ThreadInv, SweepInv
<1>4. /\ \A d \in Cell : d # c => entry'[d] = entry[d]
      /\ \A d \in Cell : entry'[d].next = entry[d].next
  BY <1>1, <1>2, Types, ReleaseType
<1>5. live' = live \ {c}
  BY <1>1, <1>2 DEF Release
<1>6. Lists(table', entry', own, rank)
  BY <1>1, <1>3, <1>4, ListsDependOnNext
<1>7. KeyInv(own)'
  BY <1>3, <1>4, <1>5, Types, FewerKeys
<1>8. PICK n : n = entry[c].next
  OBVIOUS
<1>9. /\ n = NULL \/ (n \in Cell /\ own[n] = b)
      /\ {d \in Cell : own[d] = b /\ (n = NULL \/ rank[d] > rank[n])} =
         {d \in Cell : own[d] = b /\ (c = NULL \/ rank[d] > rank[c])} \cup {c}
  BY <1>3, <1>8, Further
<1>10. Passed(own, rank, t)' = Passed(own, rank, t) \cup {c}
  BY <1>1, <1>2, <1>8, <1>9 DEF Passed
<1>11. live' = Listed(own) \ Passed(own, rank, t)'
  BY <1>3, <1>5, <1>10
<1>12. SweepInv(own, rank, t)'
  BY <1>1, <1>2, <1>8, <1>9, <1>11 DEF SweepInv, Listed
<1>13. SweptInv(own, rank, t)'
  BY <1>1 DEF Chain, ThreadInv, SweptInv, Listed
<1> QED
  BY <1>1, <1>6, <1>7, <1>12, <1>13 DEF Chain, ThreadInv

\* A list is forgotten as a whole.
LEMMA Dropping ==
    ASSUME NEW tb \in [Bucket -> Pointer], NEW en, NEW own, NEW rank, Lists(tb, en, own, rank),
           NEW b \in Bucket, NEW o,
           o \in [Cell -> 0 .. NBuckets],
           \A d \in Cell : o[d] = IF own[d] = b THEN NBuckets ELSE own[d],
           NEW tb2 \in [Bucket -> Pointer], tb2[b] = NULL,
           \A a \in Bucket : a # b => tb2[a] = tb[a]
    PROVE  /\ Lists(tb2, en, o, rank)
           /\ \A d \in Cell : o[d] \in Bucket <=> own[d] \in Bucket /\ own[d] # b
           /\ \A d \in Cell : o[d] \in Bucket => own[d] = o[d]
<1>1. NBuckets \notin Bucket /\ NBuckets \in 0 .. NBuckets
  BY BucketFacts DEF Bucket
<1>2. Order(own, rank) /\ own \in [Cell -> 0 .. NBuckets]
  BY DEF Lists, Order
<1>3. /\ \A d \in Cell : own[d] = b => o[d] = NBuckets
      /\ \A d \in Cell : own[d] # b => o[d] = own[d]
  OBVIOUS
<1>4. /\ \A d \in Cell : o[d] \in Bucket <=> own[d] \in Bucket /\ own[d] # b
      /\ \A d \in Cell : o[d] \in Bucket => own[d] = o[d]
  BY <1>1, <1>3
<1>5. o \in [Cell -> 0 .. NBuckets]
  BY <1>1, <1>2
<1>6. Order(o, rank)
  BY <1>2, <1>4, <1>5 DEF Order
<1>7. ASSUME NEW a \in Bucket
      PROVE  HeadOf(o, rank, a, tb2[a])
  <2>1. CASE a = b
    BY <1>1, <1>3, <2>1 DEF HeadOf
  <2>2. CASE a # b
    <3>1. HeadOf(own, rank, a, tb[a]) /\ tb2[a] = tb[a]
      BY <2>2 DEF Lists
    <3>2. \A d \in Cell : o[d] = a <=> own[d] = a
      BY <1>1, <1>3, <2>2
    <3> QED
      BY <3>1, <3>2 DEF HeadOf
  <2> QED
    BY <2>1, <2>2
<1>8. ASSUME NEW d \in Cell, o[d] \in Bucket
      PROVE  NextOf(o, rank, d, en[d].next)
  <2>1. NextOf(own, rank, d, en[d].next) /\ own[d] # b /\ own[d] \in Bucket /\ o[d] = own[d]
    BY <1>4, <1>8 DEF Lists
  <2>2. \A e \in Cell : o[e] = o[d] <=> own[e] = own[d]
    BY <1>1, <1>3, <2>1
  <2> QED
    BY <2>1, <2>2 DEF NextOf
<1> QED
  BY <1>4, <1>6, <1>7, <1>8 DEF Lists

LEMMA NextBucketChain ==
    ASSUME ChainVarsOK, NEW t \in Thread, NEW own, NEW rank, Chain(own, rank, t),
           NextBucket(t)
    PROVE  \E o : Chain(o, rank, t)'
<1>1. pc[t] = "sweep" /\ cur[t] = NULL /\ UNCHANGED <<entry, live>>
  BY DEF NextBucket
<1>2. PICK b \in Bucket : b = bucket[t]
  BY Types
<1>3. /\ SweepInv(own, rank, t) /\ Lists(table, entry, own, rank) /\ KeyInv(own)
      /\ SweptInv(own, rank, t) /\ \A d \in Cell : own[d] \in Int
  BY <1>1, BucketFacts DEF Chain, ThreadInv, Lists, Order
<1>4. PICK o :
         /\ Lists(table', entry', o, rank) /\ KeyInv(o)' /\ live' = Listed(o)
         /\ call[t].op = "cleanup" => \A d \in live : o[d] < b + 1 => ~Expired(d)
         /\ call[t].op = "destroy" => \A d \in Listed(o) : o[d] >= b + 1
  <2>1. CASE call[t].op = "cleanup"
    <3>1. table' = table /\ live = Listed(own)
      BY <1>3, <2>1 DEF NextBucket, SweepInv
    <3>2. Lists(table', entry', own, rank) /\ KeyInv(own)' /\ live' = Listed(own)
      BY <1>1, <1>3, <3>1 DEF KeyInv
    <3>3. ASSUME NEW d \in live, own[d] < b + 1
          PROVE  ~Expired(d)
      <4>1. d \in Cell /\ (own[d] < b \/ own[d] = b)
        BY <1>3, <3>3, BucketFacts, Types DEF Bucket
      <4> QED
        BY <1>1, <1>2, <1>3, <2>1, <4>1 DEF SweptInv, Passed
    <3> QED
      BY <2>1, <3>2, <3>3
  <2>2. CASE call[t].op = "destroy"
    <3>1. PICK o : o = [d \in Cell |-> IF own[d] = b THEN NBuckets ELSE own[d]]
      OBVIOUS
    <3>2. table' = [table EXCEPT ![b] = NULL]
      BY <1>2, <2>2 DEF NextBucket
    <3>3. /\ Lists(table', entry, o, rank)
          /\ \A d \in Cell : o[d] \in Bucket <=> own[d] \in Bucket /\ own[d] # b
          /\ \A d \in Cell : o[d] \in Bucket => own[d] = o[d]
      <4>1. own \in [Cell -> 0 .. NBuckets] /\ NBuckets \in 0 .. NBuckets
        BY <1>3, BucketFacts DEF Lists, Order
      <4>2. /\ o \in [Cell -> 0 .. NBuckets]
            /\ \A d \in Cell : o[d] = IF own[d] = b THEN NBuckets ELSE own[d]
        BY <3>1, <4>1
      <4>3. /\ table \in [Bucket -> Pointer] /\ table' \in [Bucket -> Pointer]
            /\ table'[b] = NULL /\ \A a \in Bucket : a # b => table'[a] = table[a]
        BY <1>2, <3>2, Types DEF Pointer
      <4> QED
        BY <1>2, <1>3, <4>2, <4>3, Dropping
    <3>4. live = Listed(own) \ {d \in Cell : own[d] = b}
      BY <1>1, <1>2, <1>3, <2>2 DEF SweepInv, Passed
    <3>5. live' = Listed(o)
      BY <1>1, <3>3, <3>4 DEF Listed
    <3>6. KeyInv(o)'
      BY <1>1, <1>3, <3>3, Types, FewerKeys
    <3>7. Lists(table', entry', o, rank)
      BY <1>1, <3>3
    <3>8. ASSUME NEW d \in Listed(o)
          PROVE  o[d] >= b + 1
      <4>1. d \in Cell /\ own[d] \in Bucket /\ own[d] # b /\ o[d] = own[d]
        BY <3>3 DEF Listed
      <4>2. own[d] >= b
        BY <1>2, <1>3, <2>2, <4>1 DEF SweptInv, Listed
      <4> QED
        BY <4>1, <4>2, BucketFacts DEF Bucket
    <3> QED
      BY <2>2, <3>5, <3>6, <3>7, <3>8
  <2> QED
    BY <1>3, <2>1, <2>2 DEF SweepInv
<1>5. CASE /\ b + 1 < NBuckets
           /\ bucket'[t] = b + 1 /\ cur'[t] = table[b + 1] /\ prev'[t] = NULL
           /\ UNCHANGED <<now, pc, call>>
  <2>1. PICK a \in Bucket : a = b + 1 /\ a # b
    BY <1>5, BucketFacts DEF Bucket
  <2>2. table'[a] = table[a]
    BY <1>2, <2>1, Types DEF NextBucket
  <2>3. /\ Stands(table', entry', o, a, NULL, table'[a])
        /\ table'[a] = NULL \/ (table'[a] \in Cell /\ o[table'[a]] = a)
        /\ {c \in Cell : o[c] = a /\ (table'[a] = NULL \/ rank[c] > rank[table'[a]])} = {}
    BY <1>4, AtHead
  <2>4. Passed(o, rank, t)' = {}
    BY <1>5, <2>1, <2>2, <2>3 DEF Passed
  <2>5. SweepInv(o, rank, t)'
    BY <1>3, <1>4, <1>5, <2>1, <2>2, <2>3, <2>4 DEF SweepInv, Listed
  <2>6. SweptInv(o, rank, t)'
    BY <1>1, <1>4, <1>5, <2>4 DEF SweptInv, Listed, Expired
  <2>7. Chain(o, rank, t)'
    BY <1>1, <1>4, <1>5, <2>5, <2>6 DEF Chain, ThreadInv
  <2> QED
    BY <2>7
<1>6. CASE Return(t)
  <2>1. Chain(o, rank, t)'
    BY <1>4, <1>6, ReturnChain
  <2> QED
    BY <2>1
<1>7. CASE /\ bucket[t] + 1 < NBuckets
           /\ bucket' = [bucket EXCEPT ![t] = @ + 1]
           /\ cur' = [cur EXCEPT ![t] = table[bucket[t] + 1]]
           /\ prev' = [prev EXCEPT ![t] = NULL]
           /\ UNCHANGED <<now, pc, call, did>>
  <2>1. b + 1 < NBuckets /\ bucket'[t] = b + 1 /\ cur'[t] = table[b + 1] /\ prev'[t] = NULL
    BY <1>2, <1>7, Types
  <2> QED
    BY <1>5, <1>7, <2>1
<1> QED
  BY <1>6, <1>7 DEF NextBucket

-----------------------------------------------------------------------------
(* From the order on the entries to the lists that Nth walks along. *)

LEMMA LeastElement ==
    ASSUME NEW S \in SUBSET Nat, S # {}
    PROVE  \E k \in S : \A j \in S : k <= j
<1>1. PICK k \in S : \A j \in S : ~(<<j, k>> \in OpToRel(<, Nat))
  BY WFMin, NatLessThanWellFounded
<1>2. \A j \in S : ~(j < k)
  BY <1>1 DEF OpToRel
<1> QED
  BY <1>2

\* f is list b of the table tb and the entries en, up to the k-th pointer.
Along(tb, en, b, k, f) ==
    f = [n \in 0 .. k |->
            IF n = 0 THEN tb[b] ELSE IF f[n - 1] = NULL THEN NULL ELSE en[f[n - 1]].next]

\* The recursion of Nth defines a function.
LEMMA AlongExists ==
    ASSUME NEW tb, NEW en, NEW b, NEW m \in Nat
    PROVE  \E f : Along(tb, en, b, m, f)
<1> DEFINE S == {k \in Nat : ~\E f : Along(tb, en, b, k, f)}
<1> SUFFICES ASSUME S # {} PROVE FALSE
  OBVIOUS
<1>1. PICK k \in S : \A j \in S : k <= j
  <2>1. S \in SUBSET Nat
    OBVIOUS
  <2> HIDE DEF S
  <2> QED
    BY <2>1, LeastElement
<1>2. CASE k = 0
  <2>1. Along(tb, en, b, k, [n \in 0 .. 0 |-> tb[b]])
    BY <1>2 DEF Along
  <2> QED
    BY <2>1
<1>3. CASE k # 0
  <2>1. k \in Nat /\ k - 1 \in Nat /\ k - 1 \notin S
    BY <1>1, <1>3
  <2>2. PICK f : Along(tb, en, b, k - 1, f)
    BY <2>1
  <2> DEFINE After(n) == IF n = 0 THEN tb[b] ELSE IF f[n - 1] = NULL THEN NULL ELSE en[f[n - 1]].next
             g == [n \in 0 .. k |-> After(n)]
  <2>3. ASSUME NEW n \in 0 .. (k - 1)
        PROVE  f[n] = After(n)
    BY <2>2 DEF Along
  <2>4. \A n \in 0 .. k : g[n] = After(n)
    OBVIOUS
  <2>5. ASSUME NEW n \in 0 .. k
        PROVE  After(n) =
               IF n = 0 THEN tb[b] ELSE IF g[n - 1] = NULL THEN NULL ELSE en[g[n - 1]].next
    <3>1. CASE n = 0
      BY <3>1
    <3>2. CASE n # 0
      <4>1. n - 1 \in 0 .. (k - 1) /\ n - 1 \in 0 .. k
        BY <2>1, <3>2
      <4>2. g[n - 1] = f[n - 1]
        <5> HIDE DEF g, After
        <5> QED BY <2>3, <2>4, <4>1
      <4> HIDE DEF g
      <4> QED
        BY <3>2, <4>2
    <3> QED
      BY <3>1, <3>2
  <2>6. Along(tb, en, b, k, g)
    <3> HIDE DEF After
    <3>1. g = [n \in 0 .. k |->
                 IF n = 0 THEN tb[b] ELSE IF g[n - 1] = NULL THEN NULL ELSE en[g[n - 1]].next]
      BY <2>5
    <3> QED
      BY <3>1 DEF Along
  <2> QED
    BY <2>1, <2>6
<1> QED
  BY <1>2, <1>3

\* How far the first n pointers of list b have come.
Reached(own, rank, b, f, n) ==
    /\ f[n] = NULL \/ (f[n] \in Cell /\ own[f[n]] = b)
    /\ f[n] # NULL => \A i \in 0 .. (n - 1) : f[i] \in Cell /\ rank[f[i]] > rank[f[n]]
    /\ \A c \in Cell : own[c] = b =>
          (\E i \in 0 .. n : f[i] = c) \/ (f[n] # NULL /\ rank[c] < rank[f[n]])

LEMMA AlongReaches ==
    ASSUME NEW tb, NEW en, NEW own, NEW rank, Lists(tb, en, own, rank),
           NEW b \in Bucket, NEW m \in Nat, NEW f, Along(tb, en, b, m, f)
    PROVE  \A n \in 0 .. m : Reached(own, rank, b, f, n)
<1> DEFINE S == {n \in 0 .. m : ~Reached(own, rank, b, f, n)}
<1> SUFFICES ASSUME S # {} PROVE FALSE
  OBVIOUS
<1>1. PICK n \in S : \A j \in S : n <= j
  <2>1. S \in SUBSET Nat
    OBVIOUS
  <2> HIDE DEF S
  <2> QED
    BY <2>1, LeastElement
<1>2. n \in 0 .. m /\ ~Reached(own, rank, b, f, n)
  BY <1>1
<1>3. f[n] = IF n = 0 THEN tb[b] ELSE IF f[n - 1] = NULL THEN NULL ELSE en[f[n - 1]].next
  BY <1>2 DEF Along
<1>4. /\ rank \in [Cell -> Nat] /\ NULL \notin Cell
      /\ \A c, d \in Cell : own[c] = b /\ own[d] = b /\ rank[c] = rank[d] => c = d
  BY ChainAssumption DEF Lists, Order
<1>5. CASE n = 0
  <2>1. HeadOf(own, rank, b, f[0])
    BY <1>3, <1>5 DEF Lists
  <2>2. \A c \in Cell : own[c] = b => f[0] \in Cell /\ (f[0] = c \/ rank[c] < rank[f[0]])
    BY <1>4, <2>1 DEF HeadOf
  <2> QED
    BY <1>2, <1>4, <1>5, <2>1, <2>2 DEF HeadOf, Reached
<1>6. CASE n # 0
  <2>1. n - 1 \in 0 .. m /\ n - 1 \notin S
    BY <1>1, <1>2, <1>6
  <2>2. Reached(own, rank, b, f, n - 1)
    BY <2>1
  <2>3. CASE f[n - 1] = NULL
    <3>1. f[n] = NULL
      BY <1>3, <1>6, <2>3
    <3>2. \A c \in Cell : own[c] = b => \E i \in 0 .. n : f[i] = c
      BY <1>2, <2>1, <2>2, <2>3 DEF Reached
    <3> QED
      BY <1>2, <3>1, <3>2 DEF Reached
  <2>4. CASE f[n - 1] # NULL
    <3>1. PICK p \in Cell : p = f[n - 1] /\ own[p] = b
      BY <2>2, <2>4 DEF Reached
    <3>2. f[n] = en[p].next
      BY <1>3, <1>6, <2>4, <3>1
    <3>3. NextOf(own, rank, p, f[n])
      BY <3>1, <3>2 DEF Lists
    <3>4. f[n] = NULL \/ (f[n] \in Cell /\ own[f[n]] = b /\ rank[f[n]] < rank[p])
      BY <3>1, <3>3 DEF NextOf
    <3>5. ASSUME f[n] # NULL, NEW i \in 0 .. (n - 1)
          PROVE  f[i] \in Cell /\ rank[f[i]] > rank[f[n]]
      <4>1. CASE i = n - 1
        BY <1>4, <3>1, <3>4, <3>5, <4>1
      <4>2. CASE i # n - 1
        <5>1. i \in 0 .. (n - 1 - 1)
          BY <1>2, <4>2
        <5>2. f[i] \in Cell /\ rank[f[i]] > rank[p]
          BY <2>2, <2>4, <3>1, <5>1 DEF Reached
        <5> QED
          BY <1>4, <3>4, <3>5, <5>2
      <4> QED
        BY <4>1, <4>2
    <3>6. ASSUME NEW c \in Cell, own[c] = b
          PROVE  (\E i \in 0 .. n : f[i] = c) \/ (f[n] # NULL /\ rank[c] < rank[f[n]])
      <4>1. (\E i \in 0 .. (n - 1) : f[i] = c) \/ rank[c] < rank[p]
        BY <2>2, <3>1, <3>6 DEF Reached
      <4>2. CASE \E i \in 0 .. (n - 1) : f[i] = c
        BY <1>2, <4>2
      <4>3. CASE rank[c] < rank[p]
        <5>1. f[n] \in Cell /\ rank[c] <= rank[f[n]] /\ own[f[n]] = b
          BY <1>4, <3>1, <3>3, <3>6, <4>3 DEF NextOf
        <5>2. f[n] = c \/ rank[c] < rank[f[n]]
          BY <1>4, <3>6, <5>1
        <5>3. n \in 0 .. n /\ f[n] # NULL
          BY <1>2, <1>4, <5>1
        <5> QED
          BY <5>2, <5>3
      <4> QED
        BY <4>1, <4>2, <4>3
    <3> QED
      BY <1>2, <3>4, <3>5, <3>6 DEF Reached
  <2> QED
    BY <2>3, <2>4
<1> QED
  BY <1>5, <1>6

\* The list that Nth gives ends, and holds the cells that own puts into it.
LEMMA NthLists ==
    ASSUME NEW own, NEW rank, Lists(table, entry, own, rank), NEW b \in Bucket
    PROVE  Nth(b)[Cardinality(Cell)] = NULL /\ InList(b) = {c \in Cell : own[c] = b}
<1> DEFINE m == Cardinality(Cell)
<1>1. m \in Nat /\ IsFiniteSet(Cell) /\ NULL \notin Cell
  BY FS_CardinalityType, ChainAssumption
<1>2. PICK f : f = Nth(b)
  OBVIOUS
<1> HIDE DEF m
<1>3. Along(table, entry, b, m, f)
  <2>1. \E g : Along(table, entry, b, m, g)
    BY <1>1, AlongExists
  <2>2. Nth(b) = CHOOSE g : Along(table, entry, b, m, g)
    BY DEF Nth, Along, m
  <2> QED
    BY <1>2, <2>1, <2>2
<1>4. \A n \in 0 .. m : Reached(own, rank, b, f, n)
  BY <1>1, <1>3, AlongReaches
<1>5. DOMAIN f = 0 .. m
  BY <1>3 DEF Along
<1>6. rank \in [Cell -> Nat]
  BY DEF Lists, Order
<1>7. f[m] = NULL
  <2> SUFFICES ASSUME f[m] # NULL PROVE FALSE
    OBVIOUS
  <2>1. \A i \in 0 .. m : f[i] \in Cell
    BY <1>1, <1>4 DEF Reached
  <2>2. ASSUME NEW i \in 0 .. m, NEW j \in 0 .. m, i < j
        PROVE  f[i] # f[j]
    <3>1. i \in 0 .. (j - 1) /\ f[j] # NULL
      BY <1>1, <2>1, <2>2
    <3>2. rank[f[i]] > rank[f[j]]
      BY <1>4, <3>1 DEF Reached
    <3>3. rank[f[i]] \in Nat
      BY <1>6, <2>1
    <3> QED
      BY <3>2, <3>3
  <2> DEFINE g == [i \in 0 .. m |-> f[i]]
  <2>3. g \in [0 .. m -> Cell]
    BY <2>1
  <2>4. IsFiniteSet(0 .. m) /\ Cardinality(0 .. m) = m + 1
    BY <1>1, FS_Interval
  <2>5. PICK i, j \in 0 .. m : i # j /\ g[i] = g[j]
    <3>1. Cardinality(Cell) < Cardinality(0 .. m)
      BY <1>1, <2>4 DEF m
    <3> HIDE DEF g
    <3> QED
      BY <1>1, <2>3, <2>4, <3>1, FS_PigeonHole
  <2>6. i < j \/ j < i
    BY <1>1, <2>5
  <2> QED
    BY <2>2, <2>5, <2>6
<1>8. InList(b) = {f[n] : n \in 0 .. m} \ {NULL}
  BY <1>2, <1>5 DEF InList
<1>9. \A c \in {f[n] : n \in 0 .. m} \ {NULL} : c \in Cell /\ own[c] = b
  BY <1>4 DEF Reached
<1>10. \A c \in Cell : own[c] = b => \E n \in 0 .. m : f[n] = c
  <2>1. m \in 0 .. m
    BY <1>1
  <2> QED
    BY <1>4, <1>7, <2>1 DEF Reached
<1>11. InList(b) = {c \in Cell : own[c] = b}
  BY <1>1, <1>8, <1>9, <1>10
<1> QED
  BY <1>2, <1>7, <1>11 DEF m

-----------------------------------------------------------------------------
(* Nothing is lost. *)

\* There is an order that makes sense of the lists.
Ordered(t) == \E own, rank : Chain(own, rank, t)

LEMMA OrderedInit ==
    ASSUME ChainInit, NEW t \in Thread
    PROVE  Ordered(t)
<1> DEFINE own == [c \in Cell |-> NBuckets]
           rank == [c \in Cell |-> 0]
<1>1. NBuckets \notin Bucket /\ NBuckets \in 0 .. NBuckets /\ \A b \in Bucket : b # NBuckets
  BY BucketFacts DEF Bucket
<1>2. own \in [Cell -> 0 .. NBuckets] /\ rank \in [Cell -> Nat] /\ \A c \in Cell : own[c] = NBuckets
  BY <1>1
<1> HIDE DEF own, rank
<1>3. \A b \in Bucket : HeadOf(own, rank, b, table[b])
  BY <1>1, <1>2 DEF ChainInit, HeadOf
<1>4. Lists(table, entry, own, rank)
  BY <1>1, <1>2, <1>3 DEF Lists, Order
<1>5. live = {} /\ Listed(own) = {} /\ pc[t] = "idle"
  BY <1>1, <1>2 DEF ChainInit, Listed
<1>6. Chain(own, rank, t)
  BY <1>4, <1>5 DEF Chain, KeyInv, ThreadInv
<1> QED
  BY <1>6 DEF Ordered

LEMMA OrderedStep ==
    ASSUME ChainVarsOK, HandInv, NEW t, Thread = {t}, Ordered(t), [ChainNext]_chainVars
    PROVE  Ordered(t)'
<1>1. PICK own, rank : Chain(own, rank, t)
  BY DEF Ordered
<1>2. t \in Thread /\ \A u \in Thread : u = t
  OBVIOUS
<1> SUFFICES \E o, r : Chain(o, r, t)'
  BY DEF Ordered
<1>3. ASSUME Step(t)
      PROVE  \E o, r : Chain(o, r, t)'
  <2>1. CASE \/ \E op \in {"set", "get", "remove"}, k \in Key, v \in Value : Begin(t, op, k, v)
             \/ \E op \in {"cleanup", "destroy"} : Sweep(t, op)
    BY <1>1, <1>2, <2>1, StartChain
  <2>2. CASE Walk(t)
    BY <1>1, <1>2, <2>2, WalkChain
  <2>3. CASE SetFound(t)
    BY <1>1, <1>2, <2>3, SetFoundChain
  <2>4. CASE SetNew(t)
    BY <1>1, <1>2, <2>4, SetNewChain
  <2>5. CASE SetLink(t)
    BY <1>1, <1>2, <2>5, SetLinkChain
  <2>6. CASE Get(t) \/ RemoveMissing(t)
    BY <1>1, <1>2, <2>6, NoChangeChain
  <2>7. CASE Unlink(t)
    BY <1>1, <1>2, <2>7, UnlinkChain
  <2>8. CASE Free(t)
    BY <1>1, <1>2, <2>8, FreeChain
  <2>9. CASE CleanEntry(t)
    BY <1>1, <1>2, <2>9, CleanEntryChain
  <2>10. CASE DestroyEntry(t)
    BY <1>1, <1>2, <2>10, DestroyEntryChain
  <2>11. CASE NextBucket(t)
    BY <1>1, <1>2, <2>11, NextBucketChain
  <2> QED
    BY <1>3, <2>1, <2>2, <2>3, <2>4, <2>5, <2>6, <2>7, <2>8, <2>9, <2>10, <2>11 DEF Step
<1>4. ASSUME UNCHANGED <<table, entry, live, pc, call, bucket, cur, prev>>,
             pc[t] = "idle" \/ now' = now
      PROVE  \E o, r : Chain(o, r, t)'
  <2>1. Chain(own, rank, t)'
    BY <1>1, <1>4 DEF Chain, KeyInv, ThreadInv, WalkInv, LinkInv, FreeInv, SweepInv, SweptInv,
                      Passed, Listed, Expired
  <2> QED
    BY <2>1
<1>5. CASE Tick \/ UNCHANGED chainVars
  BY <1>2, <1>4, <1>5 DEF Tick, chainVars, memVars, ptrVars
<1> QED
  BY <1>2, <1>3, <1>5, ChainCases

LEMMA OrderedNothingLost ==
    ASSUME ChainVarsOK, HandInv, NEW t, Thread = {t}, Ordered(t)
    PROVE  NothingLost
<1>1. PICK own, rank : Chain(own, rank, t)
  BY DEF Ordered
<1>2. t \in Thread /\ \A u \in Thread : u = t
  OBVIOUS
<1>3. Lists(table, entry, own, rank) /\ KeyInv(own) /\ ThreadInv(own, rank, t)
  BY <1>1 DEF Chain
<1>4. \A b \in Bucket : Nth(b)[Cardinality(Cell)] = NULL /\ InList(b) = {c \in Cell : own[c] = b}
  BY <1>3, NthLists
<1>5. InTable = Listed(own)
  BY <1>4 DEF InTable, Listed
<1>6. ListsAreSound
  <2>1. \A b \in Bucket : \A c \in InList(b) \cap live : HashOf[entry[c].key] = b
    BY <1>3, <1>4 DEF KeyInv
  <2>2. \A c, d \in InTable \cap live : entry[c].key = entry[d].key => c = d
    BY <1>3, <1>5 DEF KeyInv, Listed
  <2> QED
    BY <1>4, <2>1, <2>2 DEF ListsAreSound
<1>7. /\ pc[t] \in PC /\ live \subseteq Cell /\ NBuckets \notin Bucket /\ bucket[t] \in Bucket
      /\ NULL \notin Cell /\ (pc[t] \in {"link", "free"} => cur[t] \in Cell)
  BY <1>2, Types DEF HandInv, Holding
<1>8. rank \in [Cell -> Nat]
  BY <1>3 DEF Lists, Order
<1>9. /\ live \ Listed(own) = IF pc[t] \in {"link", "free"} THEN {cur[t]} ELSE {}
      /\ ~Destroying(t) => Listed(own) \subseteq live
      /\ pc[t] # "idle" => cur[t] \in live \cup {NULL}
  <2>1. CASE pc[t] = "idle"
    BY <1>3, <2>1 DEF ThreadInv
  <2>2. CASE pc[t] \in {"walk", "found"}
    <3>1. live = Listed(own) /\ (cur[t] = NULL \/ (cur[t] \in Cell /\ own[cur[t]] = bucket[t]))
      BY <1>3, <2>2 DEF ThreadInv, WalkInv, Stands
    <3> QED
      BY <1>7, <2>2, <3>1 DEF Listed
  <2>3. CASE pc[t] \in {"link", "free"}
    <3>1. own[cur[t]] = NBuckets /\ live = Listed(own) \cup {cur[t]}
      BY <1>3, <2>3 DEF ThreadInv, LinkInv, FreeInv
    <3> QED
      BY <1>7, <2>3, <3>1 DEF Listed
  <2>4. CASE pc[t] = "sweep" /\ call[t].op = "cleanup"
    <3>1. live = Listed(own) /\ (cur[t] = NULL \/ (cur[t] \in Cell /\ own[cur[t]] = bucket[t]))
      BY <1>3, <2>4 DEF ThreadInv, SweepInv
    <3> QED
      BY <1>7, <2>4, <3>1 DEF Listed
  <2>5. CASE pc[t] = "sweep" /\ call[t].op # "cleanup"
    <3>1. /\ live = Listed(own) \ Passed(own, rank, t) /\ call[t].op = "destroy"
          /\ cur[t] = NULL \/ (cur[t] \in Cell /\ own[cur[t]] = bucket[t])
      BY <1>3, <2>5 DEF ThreadInv, SweepInv
    <3>2. cur[t] # NULL => cur[t] \in Listed(own) /\ cur[t] \notin Passed(own, rank, t)
      BY <1>7, <1>8, <3>1 DEF Listed, Passed
    <3> QED
      BY <2>5, <3>1, <3>2 DEF Destroying
  <2> QED
    BY <1>7, <2>1, <2>2, <2>3, <2>4, <2>5 DEF PC
<1>10. {cur[u] : u \in {v \in Thread : pc[v] \in {"link", "free"}}} =
          IF pc[t] \in {"link", "free"} THEN {cur[t]} ELSE {}
  BY <1>2
<1>11. live \ InTable = {cur[u] : u \in {v \in Thread : pc[v] \in {"link", "free"}}}
  BY <1>5, <1>9, <1>10
<1>12. (\A u \in Thread : ~Destroying(u)) => InTable \subseteq live
  BY <1>2, <1>5, <1>9
<1>13. \A u \in Thread : pc[u] # "idle" => cur[u] \in live \cup {NULL}
  BY <1>2, <1>9
<1> QED
  BY <1>6, <1>11, <1>12, <1>13 DEF NothingLost

\* A table that one thread uses, as the broker's pending table, loses no entry
\* and uses none that was freed, however many keys share a list and whatever
\* calls are made.
THEOREM NothingLostHolds ==
    ASSUME NEW t, Thread = {t}
    PROVE  ChainSpec => []NothingLost
<1>1. ChainInit => Ordered(t)
  BY OrderedInit
<1>2. ChainVarsOK /\ HandInv /\ Ordered(t) /\ [ChainNext]_chainVars => Ordered(t)'
  BY OrderedStep
<1>3. ChainVarsOK /\ HandInv /\ Ordered(t) => NothingLost
  BY OrderedNothingLost
<1> QED
  BY <1>1, <1>2, <1>3, ChainTypes, PTL DEF ChainSpec

-----------------------------------------------------------------------------
(* The lists are the map of KeyedTable. *)

\* The entries that are in a list, for a table of the thread t.
InUse(t) == IF pc[t] \in {"link", "free"} THEN live \ {cur[t]} ELSE live

\* M is the map that the entries E at the addresses U stand for.
MapOf(M, E, U) ==
    /\ U \subseteq Cell /\ E \in [Cell -> Entry]
    /\ M = [k \in Key |-> M[k]]
    /\ \A c, d \in U : E[c].key = E[d].key => c = d
    /\ \A c \in U : M[E[c].key] = <<E[c].value, E[c].stamp>>
    /\ \A k \in Key : (\A c \in U : E[c].key # k) => M[k] = <<>>

ContentInv(t) == MapOf(Content, entry, InUse(t))

LEMMA ContentIsMap ==
    ASSUME ChainVarsOK, NEW t, Thread = {t}, NothingLost
    PROVE  ContentInv(t)
<1>1. InTable \cap live = InUse(t)
  <2>1. live \ InTable = {cur[u] : u \in {v \in Thread : pc[v] \in {"link", "free"}}}
    BY DEF NothingLost
  <2>2. CASE pc[t] \in {"link", "free"}
    <3>1. live \ InTable = {cur[t]}
      BY <2>1, <2>2
    <3> QED
      BY <2>2, <3>1 DEF InUse
  <2>3. CASE pc[t] \notin {"link", "free"}
    <3>1. live \ InTable = {}
      BY <2>1, <2>3
    <3> QED
      BY <2>3, <3>1 DEF InUse
  <2> QED
    BY <2>2, <2>3
<1> DEFINE U == InTable \cap live
           stored(k) == {<<entry[c].value, entry[c].stamp>> : c \in {d \in U : entry[d].key = k}}
<1>2. \A c, d \in U : entry[c].key = entry[d].key => c = d
  BY DEF NothingLost, ListsAreSound
<1>3. U \subseteq Cell /\ entry \in [Cell -> Entry] /\ \A c \in U : entry[c].key \in Key
  BY DEF ChainVarsOK, Entry
<1>4. Content = [k \in Key |-> IF stored(k) = {} THEN <<>> ELSE CHOOSE x \in stored(k) : TRUE]
  BY DEF Content
<1> HIDE DEF U
<1>5. ASSUME NEW c \in U
      PROVE  Content[entry[c].key] = <<entry[c].value, entry[c].stamp>>
  <2>1. {d \in U : entry[d].key = entry[c].key} = {c}
    BY <1>2
  <2>2. stored(entry[c].key) = {<<entry[c].value, entry[c].stamp>>}
    BY <2>1
  <2> HIDE DEF stored
  <2> QED
    BY <1>3, <1>4, <2>2
<1>6. ASSUME NEW k \in Key, \A c \in U : entry[c].key # k
      PROVE  Content[k] = <<>>
  <2>1. stored(k) = {}
    BY <1>6
  <2> HIDE DEF stored
  <2> QED
    BY <1>4, <2>1
<1>7. Content = [k \in Key |-> Content[k]]
  BY <1>4
<1> QED
  BY <1>1, <1>2, <1>3, <1>5, <1>6, <1>7 DEF ContentInv, MapOf, U

\* Nothing has changed in the entries that are in use.
LEMMA SameMap ==
    ASSUME NEW M, NEW E, NEW U, MapOf(M, E, U), NEW M2, NEW E2, MapOf(M2, E2, U),
           \A c \in U : /\ E2[c].key = E[c].key /\ E2[c].value = E[c].value
                        /\ E2[c].stamp = E[c].stamp
    PROVE  M2 = M
<1>1. ASSUME NEW k \in Key
      PROVE  M2[k] = M[k]
  <2>1. CASE \E c \in U : E[c].key = k
    <3>1. PICK c \in U : E[c].key = k
      BY <2>1
    <3>2. M[k] = <<E[c].value, E[c].stamp>>
      BY <3>1 DEF MapOf
    <3>3. M2[k] = <<E2[c].value, E2[c].stamp>>
      BY <3>1 DEF MapOf
    <3> QED
      BY <3>2, <3>3
  <2>2. CASE \A c \in U : E[c].key # k
    BY <2>2 DEF MapOf
  <2> QED
    BY <2>1, <2>2
<1> QED
  BY <1>1 DEF MapOf

\* The entry c is now that of the key k.
LEMMA MapSet ==
    ASSUME NEW M, NEW E, NEW U, MapOf(M, E, U), NEW M2, NEW E2, NEW U2, MapOf(M2, E2, U2),
           NEW c \in U2, NEW k \in Key, E2[c].key = k, c \in U => E[c].key = k, U2 = U \cup {c},
           \A d \in U : d # c => /\ E2[d].key = E[d].key /\ E2[d].value = E[d].value
                                 /\ E2[d].stamp = E[d].stamp
    PROVE  M2 = [M EXCEPT ![k] = <<E2[c].value, E2[c].stamp>>]
<1>1. M2[k] = <<E2[c].value, E2[c].stamp>>
  BY DEF MapOf
<1>2. ASSUME NEW j \in Key, j # k
      PROVE  M2[j] = M[j]
  <2>1. CASE \E d \in U : E[d].key = j
    <3>1. PICK d \in U : E[d].key = j
      BY <2>1
    <3>2. M[j] = <<E[d].value, E[d].stamp>> /\ d # c /\ d \in U2
      BY <1>2, <3>1 DEF MapOf
    <3>3. E2[d].key = j /\ E2[d].value = E[d].value /\ E2[d].stamp = E[d].stamp
      BY <3>1, <3>2
    <3>4. M2[j] = <<E2[d].value, E2[d].stamp>>
      BY <3>2, <3>3 DEF MapOf
    <3> QED
      BY <3>2, <3>3, <3>4
  <2>2. CASE \A d \in U : E[d].key # j
    BY <1>2, <2>2 DEF MapOf
  <2> QED
    BY <2>1, <2>2
<1>3. M = [j \in Key |-> M[j]] /\ M2 = [j \in Key |-> M2[j]]
  BY DEF MapOf
<1> QED
  BY <1>1, <1>2, <1>3

\* The entry c is not in use any more.
LEMMA MapDrop ==
    ASSUME NEW M, NEW E, NEW U, MapOf(M, E, U), NEW M2, NEW E2, NEW U2, MapOf(M2, E2, U2),
           NEW c \in U, NEW k \in Key, E[c].key = k, U2 = U \ {c},
           \A d \in U2 : /\ E2[d].key = E[d].key /\ E2[d].value = E[d].value
                         /\ E2[d].stamp = E[d].stamp
    PROVE  M2 = [M EXCEPT ![k] = <<>>]
<1>1. M2[k] = <<>>
  <2>1. \A d \in U2 : E2[d].key # k
    BY DEF MapOf
  <2> QED
    BY <2>1 DEF MapOf
<1>2. ASSUME NEW j \in Key, j # k
      PROVE  M2[j] = M[j]
  <2>1. CASE \E d \in U : E[d].key = j
    <3>1. PICK d \in U : E[d].key = j
      BY <2>1
    <3>2. M[j] = <<E[d].value, E[d].stamp>> /\ d # c /\ d \in U2
      BY <1>2, <3>1 DEF MapOf
    <3>3. E2[d].key = j /\ E2[d].value = E[d].value /\ E2[d].stamp = E[d].stamp
      BY <3>1, <3>2
    <3>4. M2[j] = <<E2[d].value, E2[d].stamp>>
      BY <3>2, <3>3 DEF MapOf
    <3> QED
      BY <3>2, <3>3, <3>4
  <2>2. CASE \A d \in U : E[d].key # j
    BY <1>2, <2>2 DEF MapOf
  <2> QED
    BY <2>1, <2>2
<1>3. M = [j \in Key |-> M[j]] /\ M2 = [j \in Key |-> M2[j]]
  BY DEF MapOf
<1> QED
  BY <1>1, <1>2, <1>3

\* did names the sweep that runs.
DidInv(t) == DOMAIN did = Thread /\ (pc[t] = "sweep" => did[t] = <<call[t].op>>)

LEMMA DidStep ==
    ASSUME ChainVarsOK, NEW t, Thread = {t}, DidInv(t), [ChainNext]_chainVars
    PROVE  DidInv(t)'
<1>1. t \in Thread /\ \A u \in Thread : u = t
  OBVIOUS
<1>2. pc \in [Thread -> PC] /\ call \in [Thread -> Call] /\ DOMAIN did = Thread
  BY <1>1, Types DEF DidInv
<1>3. ASSUME NEW c, NEW b, NEW l, Start(t, c, b, l)
      PROVE  DidInv(t)'
  BY <1>1, <1>2, <1>3 DEF Start, DidInv
<1>4. ASSUME NEW l, l # "sweep", pc' = [pc EXCEPT ![t] = l], DOMAIN did' = DOMAIN did
      PROVE  DidInv(t)'
  BY <1>1, <1>2, <1>4 DEF DidInv
<1>5. ASSUME UNCHANGED <<pc, call, did>>
      PROVE  DidInv(t)'
  BY <1>5 DEF DidInv
<1>6. CASE \E op \in {"set", "get", "remove"}, k \in Key, v \in Value : Begin(t, op, k, v)
  BY <1>3, <1>6 DEF Begin
<1>7. CASE \E op \in {"cleanup", "destroy"} : Sweep(t, op)
  BY <1>3, <1>7 DEF Sweep
<1>8. CASE Walk(t) \/ Unlink(t) \/ SetNew(t)
  BY <1>4, <1>8 DEF Walk, Unlink, SetNew, GoTo, Effect
<1>9. CASE SetFound(t) \/ SetLink(t) \/ Get(t) \/ RemoveMissing(t) \/ Free(t)
  BY <1>4, <1>9 DEF SetFound, SetLink, Get, RemoveMissing, Free, Return, Effect
<1>10. CASE NextBucket(t)
  BY <1>4, <1>5, <1>10 DEF NextBucket, Return
<1>11. CASE CleanEntry(t) \/ DestroyEntry(t) \/ Tick \/ UNCHANGED chainVars
  BY <1>5, <1>11 DEF CleanEntry, DestroyEntry, Tick, chainVars
<1> QED
  BY <1>1, <1>6, <1>7, <1>8, <1>9, <1>10, <1>11, ChainCases DEF Step

\* A walk that has come to the end of its list: the key is not in the table.
LEMMA NotFound ==
    ASSUME ChainVarsOK, NEW t \in Thread, NEW own, NEW rank, Chain(own, rank, t),
           pc[t] = "walk", cur[t] = NULL
    PROVE  \A c \in live : entry[c].key # call[t].key
<1>1. WalkInv(own, rank, t) /\ KeyInv(own)
  BY DEF Chain, ThreadInv
<1>2. ASSUME NEW c \in live, entry[c].key = call[t].key
      PROVE  FALSE
  <2>1. c \in Cell /\ own[c] \in Bucket
    BY <1>1, Types DEF WalkInv, Listed
  <2>2. own[c] = bucket[t]
    BY <1>1, <1>2, <2>1 DEF KeyInv, WalkInv
  <2> QED
    BY <1>1, <1>2, <2>1, <2>2 DEF WalkInv, Passed
<1> QED
  BY <1>2

\* An entry on which a walk or a sweep stands is in use.
LEMMA StandsOnUsed ==
    ASSUME ChainVarsOK, NEW t \in Thread, NEW own, NEW rank, Chain(own, rank, t),
           cur[t] # NULL, pc[t] \in {"walk", "found", "sweep"}
    PROVE  cur[t] \in live /\ cur[t] \in Cell
<1>1. bucket[t] \in Bucket /\ live \subseteq Cell
  BY Types
<1>2. CASE pc[t] \in {"walk", "found"}
  <2>1. live = Listed(own) /\ cur[t] \in Cell /\ own[cur[t]] = bucket[t]
    BY <1>2 DEF Chain, ThreadInv, WalkInv, Stands
  <2> QED
    BY <1>1, <2>1 DEF Listed
<1>3. CASE pc[t] = "sweep"
  <2>1. SweepInv(own, rank, t) /\ rank \in [Cell -> Nat]
    BY <1>3 DEF Chain, ThreadInv, Lists, Order
  <2>2. cur[t] \in Cell /\ own[cur[t]] = bucket[t]
    BY <2>1 DEF SweepInv
  <2>3. cur[t] \in Listed(own) /\ cur[t] \notin Passed(own, rank, t)
    BY <1>1, <2>1, <2>2 DEF Listed, Passed
  <2> QED
    BY <2>1, <2>2, <2>3 DEF SweepInv
<1> QED
  BY <1>2, <1>3

\* What the steps of the refinement rest on, before and after each of them.
TableInv(t) == ChainVarsOK /\ HandInv /\ DidInv(t) /\ Ordered(t) /\ ContentInv(t)

\* The entries that are in use, seen from where the call is.
LEMMA UseFacts ==
    ASSUME ChainVarsOK, NEW t \in Thread
    PROVE  /\ pc[t] \in {"link", "free"} => InUse(t) = live \ {cur[t]}
           /\ pc[t] \in {"idle", "walk", "found", "sweep"} => InUse(t) = live
  BY DEF InUse

\* Steps that the map does not see.
LEMMA SilentStep ==
    ASSUME NEW t, Thread = {t}, TableInv(t), TableInv(t)', Walk(t) \/ SetNew(t) \/ Free(t)
    PROVE  UNCHANGED <<Content, now, did>>
<1>1. t \in Thread /\ ChainVarsOK /\ ContentInv(t) /\ ContentInv(t)' /\ ChainVarsOK'
  BY DEF TableInv
<1>2. /\ pc \in [Thread -> PC] /\ entry \in [Cell -> Entry] /\ cur \in [Thread -> Pointer]
      /\ live \subseteq Cell
  BY <1>1, Types
<1>3. ASSUME InUse(t)' = InUse(t), \A c \in InUse(t) : entry'[c] = entry[c]
      PROVE  Content' = Content
  <2>1. MapOf(Content, entry, InUse(t)) /\ MapOf(Content', entry', InUse(t))
    BY <1>1, <1>3 DEF ContentInv
  <2> QED
    BY <1>3, <2>1, SameMap
<1>4. CASE Walk(t)
  <2>1. pc[t] = "walk" /\ pc'[t] \in {"walk", "found"} /\ UNCHANGED <<live, entry, now, did>>
    BY <1>1, <1>2, <1>4 DEF Walk, GoTo, memVars
  <2>2. InUse(t) = live /\ InUse(t)' = live
    BY <2>1 DEF InUse
  <2> QED
    BY <1>3, <2>1, <2>2
<1>5. CASE SetNew(t)
  <2>1. PICK c \in Cell \ live :
           /\ live' = live \cup {c} /\ entry' = [entry EXCEPT ![c] = NewEntry(t)]
           /\ cur' = [cur EXCEPT ![t] = c]
    BY <1>5 DEF SetNew
  <2>2. pc[t] = "walk" /\ pc'[t] = "link" /\ cur'[t] = c /\ UNCHANGED <<now, did>>
    BY <1>1, <1>2, <1>5, <2>1 DEF SetNew, GoTo
  <2>3. InUse(t) = live /\ InUse(t)' = live
    BY <2>1, <2>2 DEF InUse
  <2>4. \A d \in live : entry'[d] = entry[d]
    BY <1>2, <2>1
  <2> QED
    BY <1>3, <2>2, <2>3, <2>4
<1>6. CASE Free(t)
  <2>1. /\ pc[t] = "free" /\ pc'[t] = "idle" /\ Release(cur[t], entry) /\ UNCHANGED <<now, did>>
    BY <1>1, <1>2, <1>6 DEF Free, Return
  <2>2. live' = live \ {cur[t]} /\ \A d \in Cell : d # cur[t] => entry'[d] = entry[d]
    <3>1. live' = live \ {cur[t]}
      BY <2>1 DEF Release
    <3> QED
      BY <1>2, <2>1, <3>1, ReleaseType
  <2>3. InUse(t) = live \ {cur[t]} /\ InUse(t)' = live \ {cur[t]}
    BY <2>1, <2>2 DEF InUse
  <2> QED
    BY <1>2, <1>3, <2>1, <2>2, <2>3
<1> QED
  BY <1>4, <1>5, <1>6

\* pending_table_update and qos2_table_set, on an entry that was there...
LEMMA SetFoundStep ==
    ASSUME NEW t, Thread = {t}, TableInv(t), TableInv(t)', SetFound(t)
    PROVE  /\ Content' = [Content EXCEPT ![call[t].key] = <<call[t].value, now>>]
           /\ did'[t] = <<"set", call[t].key, call[t].value>> /\ now' = now
<1>1. t \in Thread /\ ChainVarsOK /\ ContentInv(t) /\ ContentInv(t)' /\ HandInv /\ DOMAIN did = Thread
  BY DEF TableInv, DidInv
<1>2. PICK own, rank : Chain(own, rank, t)
  BY DEF TableInv, Ordered
<1>3. /\ pc \in [Thread -> PC] /\ entry \in [Cell -> Entry] /\ live \subseteq Cell
      /\ call[t].key \in Key /\ NULL \notin Cell
  BY <1>1, Types
<1>4. /\ pc[t] = "found" /\ call[t].op = "set" /\ pc'[t] = "idle" /\ UNCHANGED <<live, now>>
      /\ entry' = [entry EXCEPT ![cur[t]].value = call[t].value, ![cur[t]].stamp = now]
      /\ did'[t] = <<"set", call[t].key, call[t].value>>
  BY <1>1, <1>3 DEF SetFound, Return, Effect
<1>5. PICK c : c = cur[t] /\ c \in Cell /\ c \in live /\ entry[c].key = call[t].key
  <2>1. cur[t] \in Cell /\ entry[cur[t]].key = call[t].key
    BY <1>1, <1>2, <1>4 DEF HandInv, Holding, Chain, ThreadInv
  <2> QED
    BY <1>1, <1>2, <1>3, <1>4, <2>1, StandsOnUsed
<1>6. /\ entry'[c].key = call[t].key /\ entry'[c].value = call[t].value /\ entry'[c].stamp = now
      /\ \A d \in Cell : d # c => entry'[d] = entry[d]
  BY <1>3, <1>4, <1>5 DEF Entry
<1>7. MapOf(Content, entry, live) /\ MapOf(Content', entry', live)
  BY <1>1, <1>4 DEF ContentInv, InUse
<1>8. Content' = [Content EXCEPT ![call[t].key] = <<entry'[c].value, entry'[c].stamp>>]
  <2>1. live = live \cup {c} /\ \A d \in live : d # c => entry'[d] = entry[d]
    BY <1>3, <1>5, <1>6
  <2> QED
    BY <1>3, <1>5, <1>6, <1>7, <2>1, MapSet
<1> QED
  BY <1>4, <1>6, <1>8

\* ... and with a new one.
LEMMA SetLinkStep ==
    ASSUME NEW t, Thread = {t}, TableInv(t), TableInv(t)', SetLink(t)
    PROVE  /\ Content' = [Content EXCEPT ![call[t].key] = <<call[t].value, now>>]
           /\ did'[t] = <<"set", call[t].key, call[t].value>> /\ now' = now
<1>1. t \in Thread /\ ChainVarsOK /\ ContentInv(t) /\ ContentInv(t)' /\ HandInv /\ DOMAIN did = Thread
  BY DEF TableInv, DidInv
<1>2. PICK own, rank : Chain(own, rank, t)
  BY DEF TableInv, Ordered
<1>3. pc \in [Thread -> PC] /\ call[t].key \in Key /\ live \subseteq Cell
  BY <1>1, Types
<1>4. pc[t] = "link" /\ LinkInv(own, t)
  BY <1>2 DEF SetLink, Chain, ThreadInv
<1>5. /\ pc'[t] = "idle" /\ UNCHANGED <<live, now, entry>>
      /\ did'[t] = <<"set", call[t].key, call[t].value>>
  BY <1>1, <1>3, <1>4 DEF SetLink, Return, Effect, LinkInv
<1>6. PICK c : /\ c = cur[t] /\ c \in live /\ entry[c].key = call[t].key
               /\ entry[c].value = call[t].value /\ entry[c].stamp = now
  BY <1>4 DEF LinkInv
<1>7. MapOf(Content, entry, live \ {c}) /\ MapOf(Content', entry, live)
  BY <1>1, <1>4, <1>5, <1>6 DEF ContentInv, InUse
<1>8. Content' = [Content EXCEPT ![call[t].key] = <<entry[c].value, entry[c].stamp>>]
  <2>1. live = (live \ {c}) \cup {c} /\ c \notin live \ {c}
    BY <1>6
  <2> QED
    BY <1>3, <1>6, <1>7, <2>1, MapSet
<1> QED
  BY <1>5, <1>6, <1>8

\* pending_table_get and qos2_table_get_state return what the map says.
LEMMA GetStep ==
    ASSUME NEW t, Thread = {t}, TableInv(t), TableInv(t)', Get(t)
    PROVE  /\ Content' = Content /\ now' = now
           /\ did'[t] = <<"get", call[t].key, IF Content[call[t].key] = <<>> THEN NONE
                                              ELSE Content[call[t].key][1]>>
<1>1. t \in Thread /\ ChainVarsOK /\ ContentInv(t) /\ ContentInv(t)' /\ HandInv /\ DOMAIN did = Thread
  BY DEF TableInv, DidInv
<1>2. PICK own, rank : Chain(own, rank, t)
  BY DEF TableInv, Ordered
<1>3. pc \in [Thread -> PC] /\ call[t].key \in Key /\ live \subseteq Cell /\ NULL \notin Cell
  BY <1>1, Types
<1>4. /\ pc[t] \in {"walk", "found"} /\ call[t].op = "get" /\ pc'[t] = "idle"
      /\ UNCHANGED <<live, now, entry>>
  BY <1>1, <1>3 DEF Get, Return, memVars
<1>5. MapOf(Content, entry, live) /\ MapOf(Content', entry, live)
  BY <1>1, <1>4 DEF ContentInv, InUse
<1>6. Content' = Content
  BY <1>5, SameMap
<1>7. CASE pc[t] = "found" /\ Effect(t, entry[cur[t]].value)
  <2>1. cur[t] \in live /\ entry[cur[t]].key = call[t].key
    <3>1. cur[t] \in Cell /\ entry[cur[t]].key = call[t].key
      BY <1>1, <1>2, <1>7 DEF HandInv, Holding, Chain, ThreadInv
    <3> QED
      BY <1>1, <1>2, <1>3, <1>7, <3>1, StandsOnUsed
  <2>2. Content[call[t].key] = <<entry[cur[t]].value, entry[cur[t]].stamp>>
    BY <1>5, <2>1 DEF MapOf
  <2>3. Content[call[t].key] # <<>> /\ Content[call[t].key][1] = entry[cur[t]].value
    BY <2>2
  <2> QED
    BY <1>1, <1>4, <1>6, <1>7, <2>3 DEF Effect
<1>8. CASE pc[t] = "walk" /\ cur[t] = NULL /\ Effect(t, NONE)
  <2>1. Content[call[t].key] = <<>>
    BY <1>1, <1>2, <1>3, <1>5, <1>8, NotFound DEF MapOf
  <2> QED
    BY <1>1, <1>4, <1>6, <1>8, <2>1 DEF Effect
<1> QED
  BY <1>7, <1>8 DEF Get

\* pending_table_remove and qos2_table_remove.
LEMMA RemoveStep ==
    ASSUME NEW t, Thread = {t}, TableInv(t), TableInv(t)', RemoveMissing(t) \/ Unlink(t)
    PROVE  /\ Content' = [Content EXCEPT ![call[t].key] = <<>>] /\ now' = now
           /\ did'[t] = <<"remove", call[t].key, NONE>>
<1>1. t \in Thread /\ ChainVarsOK /\ ContentInv(t) /\ ContentInv(t)' /\ HandInv /\ DOMAIN did = Thread
  BY DEF TableInv, DidInv
<1>2. PICK own, rank : Chain(own, rank, t)
  BY DEF TableInv, Ordered
<1>3. /\ pc \in [Thread -> PC] /\ call[t].key \in Key /\ live \subseteq Cell /\ NULL \notin Cell
      /\ entry \in [Cell -> Entry] /\ cur[t] \in Pointer /\ prev[t] \in Pointer
  BY <1>1, Types
<1>4. call[t].op = "remove" /\ now' = now /\ live' = live /\ did'[t] = <<"remove", call[t].key, NONE>>
  BY <1>1 DEF RemoveMissing, Unlink, Return, GoTo, memVars, Effect
<1>5. CASE RemoveMissing(t)
  <2>1. pc[t] = "walk" /\ cur[t] = NULL /\ pc'[t] = "idle" /\ entry' = entry
    BY <1>1, <1>3, <1>5 DEF RemoveMissing, Return, memVars
  <2>2. MapOf(Content, entry, live) /\ MapOf(Content', entry, live)
    BY <1>1, <1>4, <2>1 DEF ContentInv, InUse
  <2>3. Content' = Content
    BY <2>2, SameMap
  <2>4. Content[call[t].key] = <<>> /\ Content = [k \in Key |-> Content[k]]
    BY <1>1, <1>2, <1>3, <2>1, <2>2, NotFound DEF MapOf
  <2>5. Content = [Content EXCEPT ![call[t].key] = <<>>]
    BY <1>3, <2>4
  <2> QED
    BY <1>4, <2>3, <2>5
<1>6. CASE Unlink(t)
  <2>1. /\ pc[t] = "found" /\ pc'[t] = "free" /\ cur' = cur
        /\ entry' = EntriesWithout(t)
    BY <1>1, <1>3, <1>6 DEF Unlink, GoTo
  <2>2. PICK c : c = cur[t] /\ c \in Cell /\ c \in live /\ entry[c].key = call[t].key
    <3>1. cur[t] \in Cell /\ entry[cur[t]].key = call[t].key
      BY <1>1, <1>2, <2>1 DEF HandInv, Holding, Chain, ThreadInv
    <3> QED
      BY <1>1, <1>2, <1>3, <2>1, <3>1, StandsOnUsed
  <2>3. \A d \in Cell : /\ entry'[d].key = entry[d].key /\ entry'[d].value = entry[d].value
                        /\ entry'[d].stamp = entry[d].stamp
    BY <1>3, <2>1 DEF EntriesWithout, Entry
  <2>4. MapOf(Content, entry, live) /\ MapOf(Content', entry', live \ {c})
    BY <1>1, <1>4, <2>1, <2>2 DEF ContentInv, InUse
  <2>5. Content' = [Content EXCEPT ![call[t].key] = <<>>]
    <3>1. \A d \in live \ {c} : /\ entry'[d].key = entry[d].key /\ entry'[d].value = entry[d].value
                                /\ entry'[d].stamp = entry[d].stamp
      BY <1>3, <2>3
    <3> QED
      BY <1>3, <2>2, <2>4, <3>1, MapDrop
  <2> QED
    BY <1>4, <2>5
<1> QED
  BY <1>5, <1>6

\* A sweep frees an entry: its key leaves the map.
LEMMA SweepEntryStep ==
    ASSUME NEW t, Thread = {t}, TableInv(t), TableInv(t)', CleanEntry(t) \/ DestroyEntry(t)
    PROVE  /\ now' = now /\ did' = did
           /\ \/ Content' = Content
              \/ \E k \in Key :
                    /\ Content' = [Content EXCEPT ![k] = <<>>]
                    /\ Content[k] # <<>>
                    /\ \/ did[t] = <<"cleanup">> /\ now - Content[k][2] > Expiration
                       \/ did[t] = <<"destroy">>
<1>1. t \in Thread /\ ChainVarsOK /\ ContentInv(t) /\ ContentInv(t)' /\ HandInv
  BY DEF TableInv
<1>2. PICK own, rank : Chain(own, rank, t)
  BY DEF TableInv, Ordered
<1>3. /\ live \subseteq Cell /\ NULL \notin Cell
      /\ entry \in [Cell -> Entry] /\ cur[t] \in Pointer /\ prev[t] \in Pointer
  BY <1>1, Types
<1>4. pc[t] = "sweep" /\ cur[t] # NULL /\ UNCHANGED <<pc, now, did>> /\ did[t] = <<call[t].op>>
  BY DEF CleanEntry, DestroyEntry, TableInv, DidInv
<1>5. PICK c : c = cur[t] /\ c \in Cell /\ c \in live
  BY <1>1, <1>2, <1>4, StandsOnUsed
<1>6. PICK k \in Key : k = entry[c].key
  BY <1>3, <1>5 DEF Entry
<1>7. MapOf(Content, entry, live) /\ MapOf(Content', entry', live')
  BY <1>1, <1>4 DEF ContentInv, InUse
<1>8. Content[k] = <<entry[c].value, entry[c].stamp>>
  BY <1>5, <1>6, <1>7 DEF MapOf
<1>9. Content[k] # <<>> /\ Content[k][2] = entry[c].stamp
  BY <1>8
<1>10. ASSUME NEW e, e \in [Cell -> Entry], Release(c, e),
              \A d \in Cell : /\ e[d].key = entry[d].key /\ e[d].value = entry[d].value
                              /\ e[d].stamp = entry[d].stamp
       PROVE  Content' = [Content EXCEPT ![k] = <<>>]
  <2>1. live' = live \ {c}
    BY <1>10 DEF Release
  <2>2. \A d \in Cell : d # c => entry'[d] = e[d]
    BY <1>3, <1>10, ReleaseType
  <2>3. \A d \in live \ {c} : /\ entry'[d].key = entry[d].key /\ entry'[d].value = entry[d].value
                              /\ entry'[d].stamp = entry[d].stamp
    BY <1>3, <1>10, <2>2
  <2> QED
    BY <1>5, <1>6, <1>7, <2>1, <2>3, MapDrop
<1>11. CASE CleanEntry(t)
  <2>1. CASE Expired(c) /\ Release(c, EntriesWithout(t))
    <3>1. \A d \in Cell : /\ EntriesWithout(t)[d].key = entry[d].key
                          /\ EntriesWithout(t)[d].value = entry[d].value
                          /\ EntriesWithout(t)[d].stamp = entry[d].stamp
      BY <1>3 DEF EntriesWithout, Entry
    <3>2. EntriesWithout(t) \in [Cell -> Entry]
      BY <1>1, <1>5, WithoutType
    <3>3. Content' = [Content EXCEPT ![k] = <<>>]
      BY <1>10, <2>1, <3>1, <3>2
    <3>4. did[t] = <<"cleanup">> /\ now - Content[k][2] > Expiration
      BY <1>4, <1>9, <1>11, <2>1 DEF CleanEntry, Expired
    <3> QED
      BY <1>4, <1>9, <3>3, <3>4
  <2>2. CASE UNCHANGED memVars
    <3>1. Content' = Content
      BY <1>7, <2>2, SameMap DEF memVars
    <3> QED
      BY <1>4, <3>1
  <2> QED
    BY <1>5, <1>11, <2>1, <2>2 DEF CleanEntry
<1>12. CASE DestroyEntry(t)
  <2>1. Release(c, entry) /\ did[t] = <<"destroy">>
    BY <1>4, <1>5, <1>12 DEF DestroyEntry
  <2>2. Content' = [Content EXCEPT ![k] = <<>>]
    BY <1>3, <1>10, <2>1
  <2> QED
    BY <1>4, <1>9, <2>1, <2>2
<1> QED
  BY <1>11, <1>12

\* At the end of the last list no expired entry is left, or no entry at all.
LEMMA NextBucketStep ==
    ASSUME NEW t, Thread = {t}, TableInv(t), TableInv(t)', NextBucket(t)
    PROVE  /\ now' = now /\ Content' = Content
           /\ \/ did' = did
              \/ /\ did'[t] = <<did[t][1], "done">>
                 /\ \/ /\ did[t] = <<"cleanup">>
                       /\ \A k \in Key : ~(Content[k] # <<>> /\ now - Content[k][2] > Expiration)
                    \/ did[t] = <<"destroy">> /\ \A k \in Key : Content[k] = <<>>
<1>1. t \in Thread /\ ChainVarsOK /\ ContentInv(t) /\ ContentInv(t)' /\ HandInv /\ DOMAIN did = Thread
  BY DEF TableInv, DidInv
<1>2. PICK own, rank : Chain(own, rank, t)
  BY DEF TableInv, Ordered
<1>3. /\ live \subseteq Cell /\ pc \in [Thread -> PC] /\ bucket[t] \in Bucket
  BY <1>1, Types
<1>4. /\ pc[t] = "sweep" /\ cur[t] = NULL /\ UNCHANGED <<now, entry, live>>
      /\ did[t] = <<call[t].op>> /\ pc'[t] \in {"sweep", "idle"}
  BY <1>1, <1>3 DEF NextBucket, Return, TableInv, DidInv
<1>5. MapOf(Content, entry, live) /\ MapOf(Content', entry, live)
  BY <1>1, <1>4 DEF ContentInv, InUse
<1>6. Content' = Content
  BY <1>5, SameMap
<1>7. CASE bucket[t] + 1 < NBuckets /\ did' = did
  BY <1>4, <1>6, <1>7
<1>8. CASE bucket[t] + 1 = NBuckets /\ did' = [did EXCEPT ![t] = <<call[t].op, "done">>]
  <2>1. did'[t] = <<call[t].op, "done">> /\ did[t][1] = call[t].op
    BY <1>1, <1>4, <1>8
  <2>2. /\ SweepInv(own, rank, t) /\ SweptInv(own, rank, t)
        /\ \A c \in live : own[c] \in Bucket
    BY <1>2, <1>3, <1>4 DEF Chain, ThreadInv, SweepInv, Listed
  <2>3. ASSUME NEW c \in live
        PROVE  c \in Cell /\ own[c] \in Bucket /\ (own[c] < bucket[t] \/ own[c] = bucket[t])
    BY <1>3, <1>8, <2>2, BucketFacts DEF Bucket
  <2>4. CASE call[t].op = "cleanup"
    <3>1. \A c \in live : ~Expired(c)
      BY <1>4, <2>2, <2>3, <2>4 DEF SweptInv, Passed
    <3>2. ASSUME NEW k \in Key, Content[k] # <<>>
          PROVE  ~(now - Content[k][2] > Expiration)
      <4>1. PICK c \in live : entry[c].key = k
        BY <1>5, <3>2 DEF MapOf
      <4>2. Content[k] = <<entry[c].value, entry[c].stamp>>
        BY <1>5, <4>1 DEF MapOf
      <4>3. Content[k][2] = entry[c].stamp
        BY <4>2
      <4> QED
        BY <3>1, <4>3 DEF Expired
    <3> QED
      BY <1>4, <1>6, <2>1, <2>4, <3>2
  <2>5. CASE call[t].op = "destroy"
    <3>1. ASSUME NEW c \in live PROVE FALSE
      <4>1. own[c] >= bucket[t] /\ c \notin Passed(own, rank, t)
        BY <2>2, <2>5 DEF SweepInv, SweptInv
      <4>2. own[c] = bucket[t]
        BY <1>3, <2>3, <4>1, BucketFacts DEF Bucket
      <4> QED
        BY <1>4, <2>3, <4>1, <4>2 DEF Passed
    <3>2. \A k \in Key : Content[k] = <<>>
      BY <1>5, <3>1 DEF MapOf
    <3> QED
      BY <1>4, <1>6, <2>1, <2>5, <3>2
  <2> QED
    BY <2>2, <2>4, <2>5 DEF SweepInv
<1> QED
  BY <1>7, <1>8 DEF NextBucket

\* A call begins, or time passes.
LEMMA OutsideStep ==
    ASSUME NEW t, Thread = {t}, TableInv(t), TableInv(t)',
           \/ \E op \in {"set", "get", "remove"}, k \in Key, v \in Value : Begin(t, op, k, v)
           \/ \E op \in {"cleanup", "destroy"} : Sweep(t, op)
           \/ Tick
    PROVE  /\ Content' = Content
           /\ \/ /\ now' = now
                 /\ \E op \in {"set", "get", "remove", "cleanup", "destroy"} : did'[t] = <<op>>
              \/ now < MaxTime /\ now' = now + 1 /\ did' = did
<1>1. t \in Thread /\ ChainVarsOK /\ ContentInv(t) /\ ContentInv(t)' /\ DOMAIN did = Thread
  BY DEF TableInv, DidInv
<1>2. pc \in [Thread -> PC]
  BY <1>1, Types
<1>3. ASSUME UNCHANGED <<entry, live>>, pc[t] \in {"idle", "walk", "sweep"},
             pc'[t] \in {"idle", "walk", "sweep"}
      PROVE  Content' = Content
  <2>1. MapOf(Content, entry, live) /\ MapOf(Content', entry, live)
    BY <1>1, <1>3 DEF ContentInv, InUse
  <2> QED
    BY <2>1, SameMap
<1>4. ASSUME NEW c, NEW b, NEW l \in {"walk", "sweep"}, Start(t, c, b, l)
      PROVE  now' = now /\ Content' = Content /\ did'[t] = <<c.op>>
  BY <1>1, <1>2, <1>3, <1>4 DEF Start, memVars
<1>5. ASSUME NEW op \in {"set", "get", "remove"}, NEW k \in Key, NEW v \in Value,
             Begin(t, op, k, v)
      PROVE  now' = now /\ Content' = Content /\ did'[t] = <<op>>
  <2>1. [op |-> op, key |-> k, value |-> v].op = op
    OBVIOUS
  <2> QED
    BY <1>4, <1>5, <2>1 DEF Begin
<1>6. ASSUME NEW op \in {"cleanup", "destroy"}, Sweep(t, op)
      PROVE  now' = now /\ Content' = Content /\ did'[t] = <<op>>
  <2>1. [NoCall EXCEPT !.op = op].op = op
    BY NoCallFacts DEF Call
  <2> QED
    BY <1>4, <1>6, <2>1 DEF Sweep
<1>7. CASE Tick
  <2>1. UNCHANGED <<entry, live, pc, did>> /\ pc[t] = "idle" /\ now < MaxTime /\ now' = now + 1
    BY <1>1, <1>7 DEF Tick, memVars
  <2> QED
    BY <1>3, <2>1
<1> QED
  BY <1>5, <1>6, <1>7

LEMMA TableStep ==
    ASSUME NEW t, Thread = {t}, TableInv(t), TableInv(t)', [ChainNext]_chainVars
    PROVE  [Map!TableNext]_<<Content, now, did[Caller]>>
<1>1. t \in Thread /\ Caller = t /\ \A u \in Thread : u = t
  BY DEF Caller
<1>2. call[t].key \in Key /\ call[t].value \in Value
  BY <1>1, Types DEF TableInv, Call
<1>3. CASE Walk(t) \/ SetNew(t) \/ Free(t)
  BY <1>3, SilentStep
<1>4. CASE SetFound(t) \/ SetLink(t)
  <2>1. Map!Set(call[t].key, call[t].value)
    BY <1>1, <1>4, SetFoundStep, SetLinkStep DEF Map!Set
  <2> QED
    BY <1>2, <2>1 DEF Map!TableNext
<1>5. CASE Get(t)
  <2>1. Map!Get(call[t].key)
    BY <1>1, <1>5, GetStep DEF Map!Get
  <2> QED
    BY <1>2, <2>1 DEF Map!TableNext
<1>6. CASE RemoveMissing(t) \/ Unlink(t)
  <2>1. Map!Remove(call[t].key)
    BY <1>1, <1>6, RemoveStep DEF Map!Remove
  <2> QED
    BY <1>2, <2>1 DEF Map!TableNext
<1>7. CASE CleanEntry(t) \/ DestroyEntry(t)
  <2>1. /\ now' = now /\ did' = did
        /\ \/ Content' = Content
           \/ \E k \in Key :
                 /\ Content' = [Content EXCEPT ![k] = <<>>]
                 /\ Content[k] # <<>>
                 /\ \/ did[t] = <<"cleanup">> /\ now - Content[k][2] > Expiration
                    \/ did[t] = <<"destroy">>
    BY <1>7, SweepEntryStep
  <2>2. CASE Content' = Content
    BY <2>1, <2>2
  <2>3. CASE \E k \in Key : Map!Leave(k)
    BY <2>3 DEF Map!TableNext
  <2> QED
    BY <1>1, <2>1, <2>2, <2>3 DEF Map!Leave, Map!Old
<1>8. CASE NextBucket(t)
  <2>1. CASE did' = did
    BY <1>8, <2>1, NextBucketStep
  <2>2. CASE did' # did
    <3>1. Map!SweepDone
      BY <1>1, <1>8, <2>2, NextBucketStep DEF Map!SweepDone, Map!Old
    <3> QED
      BY <3>1 DEF Map!TableNext
  <2> QED
    BY <2>1, <2>2
<1>9. ASSUME \/ \E op \in {"set", "get", "remove"}, k \in Key, v \in Value : Begin(t, op, k, v)
             \/ \E op \in {"cleanup", "destroy"} : Sweep(t, op)
             \/ Tick
      PROVE  Map!TableNext
  <2>1. /\ Content' = Content
        /\ \/ /\ now' = now
              /\ \E op \in {"set", "get", "remove", "cleanup", "destroy"} : did'[t] = <<op>>
           \/ now < MaxTime /\ now' = now + 1 /\ did' = did
    BY <1>9, OutsideStep
  <2>2. CASE now' = now
    <3>1. PICK op \in {"set", "get", "remove", "cleanup", "destroy"} : Map!Begin(op)
      BY <1>1, <2>1, <2>2 DEF Map!Begin, TableInv, ChainVarsOK
    <3> QED
      BY <3>1 DEF Map!TableNext
  <2>3. CASE now' # now
    <3>1. Map!TimePasses
      BY <1>1, <2>1, <2>3 DEF Map!TimePasses
    <3> QED
      BY <3>1 DEF Map!TableNext
  <2> QED
    BY <2>2, <2>3
<1>10. CASE UNCHANGED chainVars
  BY <1>10 DEF chainVars, memVars, ptrVars, Content, InTable, InList, Nth
<1> QED
  BY <1>1, <1>3, <1>4, <1>5, <1>6, <1>7, <1>8, <1>9, <1>10, ChainCases DEF Step

\* pending_table.c, used by one thread, is the map that pending_table.h offers:
\* every call, in however many steps it walks and relinks the lists, does to the
\* map what KeyedTable says, a cleanup removes the expired keys and no other, and
\* at its end none is left.
THEOREM ChainImplementsTable ==
    ASSUME NEW t, Thread = {t}
    PROVE  ChainSpec => ImplementsTable
<1>1. ChainInit => Ordered(t) /\ DidInv(t)
  BY OrderedInit DEF ChainInit, DidInv
<1>2. ChainVarsOK /\ HandInv /\ Ordered(t) /\ [ChainNext]_chainVars => Ordered(t)'
  BY OrderedStep
<1>3. ChainVarsOK /\ DidInv(t) /\ [ChainNext]_chainVars => DidInv(t)'
  BY DidStep
<1>4. ChainVarsOK /\ HandInv /\ Ordered(t) => ContentInv(t)
  BY OrderedNothingLost, ContentIsMap
<1>5. ChainSpec => []TableInv(t)
  BY <1>1, <1>2, <1>3, <1>4, ChainTypes, PTL DEF ChainSpec, TableInv
<1>6. ChainInit /\ TableInv(t) => Map!TableInit
  <2> SUFFICES ASSUME ChainInit, TableInv(t) PROVE Map!TableInit
    OBVIOUS
  <2>1. MapOf(Content, entry, {}) /\ now = 0 /\ did[t] = <<"init">>
    BY DEF TableInv, ContentInv, InUse, ChainInit
  <2>2. Content = [k \in Key |-> <<>>]
    BY <2>1 DEF MapOf
  <2>3. Caller = t
    BY DEF Caller
  <2> QED
    BY <2>1, <2>2, <2>3 DEF Map!TableInit
<1>7. TableInv(t) /\ TableInv(t)' /\ [ChainNext]_chainVars =>
         [Map!TableNext]_<<Content, now, did[Caller]>>
  BY TableStep
<1> QED
  BY <1>5, <1>6, <1>7, PTL DEF ChainSpec, ImplementsTable, Map!TableSpec
=============================================================================
