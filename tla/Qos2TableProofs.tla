-------------------------- MODULE Qos2TableProofs ---------------------------
(***************************************************************************)
(* qos2_table.c between the application and the listener, without a lock,  *)
(* for any number of messages, lists and entries: no freed entry is used,  *)
(* and a lookup returns a state that was set.                              *)
(***************************************************************************)
EXTENDS Qos2Table, HashChainProofs

-----------------------------------------------------------------------------
(* The invariant.  own and rank are the order of module HashChainProofs.     *)

\* While the listener holds a new entry, its list is what stands behind that
\* entry, even if qos2_table_init has meanwhile forgotten it.
Behind == [b \in Bucket |-> IF pc[listener] = "link" /\ b = bucket[listener]
                            THEN entry[cur[listener]].next ELSE table[b]]

\* An entry that is being added or removed.
Held(c) ==
    \/ pc[app] = "free" /\ c = cur[app]
    \/ pc[listener] = "link" /\ c = cur[listener]

\* An entry that qos2_table_init has left behind.
Leaked(own, c) == c \in live /\ own[c] = NBuckets /\ ~Held(c)

NoKey(own, b, k) == \A c \in Cell : own[c] = b => entry[c].key # k

MemoryInv(own, rank) ==
    /\ Lists(Behind, entry, own, rank)
    /\ KeyInv(own)
    /\ \A c \in live : own[c] \in Bucket => entry[c].key <= current
    /\ \A c \in Cell : Leaked(own, c) =>
          entry[c].next = NULL \/ (entry[c].next \in Cell /\ Leaked(own, entry[c].next))
    /\ phase # "closing" => Listed(own) \subseteq live

\* The application's calls are about its current message.  A lookup may pass
\* the message only if it was not there at the start of the lookup.
AppCall ==
    /\ call[app].key = current /\ bucket[app] = HashOf[current]
    /\ \/ call[app].op = "get" /\ phase = "publish"
       \/ call[app].op = "remove" /\ phase = "ready" /\ current \in removed
AppWalk(own, rank) ==
    /\ AppCall
    /\ cur[app] = NULL \/ (cur[app] \in Cell /\ own[cur[app]] = bucket[app])
    /\ call[app].op = "get" =>
          \/ NONE \in readable
          \/ \A c \in Passed(own, rank, app) : entry[c].key # current
    /\ call[app].op = "remove" =>
          \/ Stands(Behind, entry, own, bucket[app], prev[app], cur[app])
          \/ \A c \in Cell : own[c] = bucket[app] /\ c \notin Passed(own, rank, app) =>
                entry[c].key # current
AppFound(own) ==
    /\ AppCall
    /\ cur[app] \in Cell /\ own[cur[app]] = bucket[app] /\ entry[cur[app]].key = current
    /\ call[app].op = "remove" =>
          Stands(Behind, entry, own, bucket[app], prev[app], cur[app])
AppFree(own) ==
    /\ phase = "ready" /\ current \in removed
    /\ cur[app] \in live /\ own[cur[app]] = NBuckets
AppSweep(own, rank) ==
    /\ phase = "closing" /\ call[app].op = "destroy"
    /\ cur[app] = NULL \/ (cur[app] \in Cell /\ own[cur[app]] = bucket[app])
    /\ \A c \in Listed(own) : c \in live <=> c \notin Passed(own, rank, app)
    /\ \A c \in Listed(own) : own[c] >= bucket[app]
AppInv(own, rank) ==
    /\ pc[app] # "link"
    /\ pc[app] = "walk" => AppWalk(own, rank)
    /\ pc[app] = "found" => AppFound(own)
    /\ pc[app] = "free" => AppFree(own)
    /\ pc[app] = "sweep" => AppSweep(own, rank)
    /\ pc[app] = "idle" /\ phase = "closing" => Listed(own) = {}
    /\ phase \in {"closing", "closed"} => pc[listener] = "idle"

\* The listener has left the list: its message was removed, or its list was
\* forgotten when that message was not being published any more.
Off(own) ==
    \/ call[listener].key \in removed
    \/ Leaked(own, cur[listener]) /\ (call[listener].key < current \/ phase # "publish")
ListenerCall ==
    /\ call[listener].op = "set" /\ bucket[listener] = HashOf[call[listener].key]
    /\ call[listener].key <= current /\ current - call[listener].key < NBuckets
ListenerWalk(own, rank) ==
    \/ /\ cur[listener] \in Cell /\ own[cur[listener]] = bucket[listener]
       /\ \A c \in Passed(own, rank, listener) : entry[c].key # call[listener].key
    \/ /\ NoKey(own, bucket[listener], call[listener].key)
       /\ cur[listener] = NULL \/ (cur[listener] \in Cell /\ Off(own))
ListenerFound(own) ==
    /\ cur[listener] \in Cell
    /\ \/ /\ own[cur[listener]] = bucket[listener]
          /\ entry[cur[listener]].key = call[listener].key
       \/ own[cur[listener]] = NBuckets /\ Off(own)
ListenerLink(own) ==
    /\ cur[listener] \in live /\ own[cur[listener]] = NBuckets
    /\ pc[app] = "free" => cur[app] # cur[listener]
    /\ entry[cur[listener]].key = call[listener].key
    /\ entry[cur[listener]].value = call[listener].value
    /\ NoKey(own, bucket[listener], call[listener].key)
    /\ table[bucket[listener]] \in {NULL, entry[cur[listener]].next}
ListenerInv(own, rank) ==
    /\ pc[listener] \in {"idle", "walk", "found", "link"}
    /\ pc[listener] # "idle" => ListenerCall
    /\ pc[listener] = "walk" => ListenerWalk(own, rank)
    /\ pc[listener] = "found" => ListenerFound(own)
    /\ pc[listener] = "link" => ListenerLink(own)

\* While a message is published, its entry has the state that was set last.
ValueInv(own) ==
    phase = "publish" =>
        /\ \A c \in Cell : own[c] = HashOf[current] /\ entry[c].key = current =>
              entry[c].value = stored[current]
        /\ NoKey(own, HashOf[current], current) => stored[current] = NONE

Coherent(own, rank) ==
    /\ MemoryInv(own, rank)
    /\ AppInv(own, rank)
    /\ ListenerInv(own, rank)
    /\ ValueInv(own)

\* The histories.
HistoryInv ==
    /\ phase \in {"ready", "publish", "closing", "closed"}
    /\ current \in 0 .. MaxId
    /\ stored \in [Key -> Value \cup {NONE}]
    /\ \A k \in Key : k > current => stored[k] = NONE /\ k \notin removed
    /\ phase = "publish" => current \in Key /\ current \notin removed
ReadInv ==
    /\ DOMAIN did = Thread
    /\ pc[app] \in {"walk", "found"} /\ call[app].op = "get" =>
          /\ stored[current] \in readable
          /\ pc[listener] # "idle" /\ call[listener].key = current =>
                call[listener].value \in readable
    /\ \A k \in Nat, v \in Value \cup {NONE} :
          did[app] = <<"get", k, v>> => k <= current /\ (k = current => v \in readable)

QosInv == ChainVarsOK /\ HandInv /\ HistoryInv /\ ReadInv /\ \E own, rank : Coherent(own, rank)

-----------------------------------------------------------------------------
(* Facts about the constants and the types. *)

LEMMA TwoThreads ==
    /\ app # listener /\ app \in Thread /\ listener \in Thread
    /\ \A t \in Thread : t = app \/ t = listener
  BY Qos2Assumption DEF app, listener

\* Two messages less than NBuckets apart do not share a list.
LEMMA SameList ==
    ASSUME NEW k \in Key, NEW c \in Key, k <= c, c - k < NBuckets, HashOf[k] = HashOf[c]
    PROVE  k = c
<1>1. NBuckets \in Nat /\ NBuckets > 0 /\ k \in Nat /\ c \in Nat
  BY BucketFacts, Qos2Assumption
<1>2. k % NBuckets = c % NBuckets
  BY Qos2Assumption
<1>3. PICK d \in Nat : d = c - k /\ d < NBuckets
  BY <1>1
<1>4. PICK r \in Nat : r = k % NBuckets /\ r < NBuckets
  BY <1>1
<1>5. PICK q \in Int : k = NBuckets * q + r
  BY <1>1, <1>4
<1>6. CASE r + d < NBuckets
  <2>1. c = NBuckets * q + (r + d) /\ r + d \in 0 .. (NBuckets - 1)
    BY <1>1, <1>3, <1>5, <1>6
  <2>2. c % NBuckets = r + d
    BY <1>1, <2>1
  <2> QED
    BY <1>1, <1>2, <1>3, <1>4, <2>2
<1>7. CASE r + d >= NBuckets
  <2>1. /\ c = NBuckets * (q + 1) + (r + d - NBuckets)
        /\ r + d - NBuckets \in 0 .. (NBuckets - 1)
    BY <1>1, <1>3, <1>4, <1>5, <1>7
  <2>2. c % NBuckets = r + d - NBuckets
    BY <1>1, <2>1
  <2> QED
    BY <1>1, <1>2, <1>3, <1>4, <2>2
<1> QED
  BY <1>1, <1>3, <1>4, <1>6, <1>7

LEMMA QosTypes ==
    ASSUME ChainVarsOK, HandInv
    PROVE  /\ table \in [Bucket -> Pointer] /\ entry \in [Cell -> Entry] /\ live \subseteq Cell
           /\ \A c \in Cell : entry[c].key \in Key /\ entry[c].next \in Pointer
           /\ pc[app] \in PC /\ pc[listener] \in PC
           /\ bucket[app] \in Bucket /\ bucket[listener] \in Bucket
           /\ cur[app] \in Pointer /\ cur[listener] \in Pointer
           /\ call[app].key \in Key /\ call[listener].key \in Key
           /\ call[app].value \in Value /\ call[listener].value \in Value
           /\ pc[listener] \in Holding => cur[listener] \in Cell
           /\ pc[app] \in Holding => cur[app] \in Cell
           /\ NULL \notin Cell /\ Pointer = Cell \cup {NULL} /\ NBuckets \notin Bucket
           /\ Key \subseteq Nat /\ HashOf \in [Key -> Bucket]
           /\ Behind \in [Bucket -> Pointer]
           /\ pc[listener] # "link" => Behind = table
<1>1. app \in Thread /\ listener \in Thread
  BY TwoThreads
<1>2. /\ table \in [Bucket -> Pointer] /\ entry \in [Cell -> Entry] /\ live \subseteq Cell
      /\ pc[app] \in PC /\ pc[listener] \in PC
      /\ bucket[app] \in Bucket /\ bucket[listener] \in Bucket
      /\ cur[app] \in Pointer /\ cur[listener] \in Pointer
      /\ call[app] \in Call /\ call[listener] \in Call
  BY <1>1 DEF ChainVarsOK, PC
<1>3. /\ call[app].key \in Key /\ call[listener].key \in Key
      /\ call[app].value \in Value /\ call[listener].value \in Value
  BY <1>2 DEF Call
<1>4. \A c \in Cell : entry[c].key \in Key /\ entry[c].next \in Pointer
  BY <1>2 DEF Entry
<1>5. /\ pc[listener] \in Holding => cur[listener] \in Cell
      /\ pc[app] \in Holding => cur[app] \in Cell
  BY <1>1 DEF HandInv
<1>6. /\ NULL \notin Cell /\ Pointer = Cell \cup {NULL} /\ NBuckets \notin Bucket
      /\ Key \subseteq Nat /\ HashOf \in [Key -> Bucket]
  BY BucketFacts, ChainAssumption, Qos2Assumption DEF Bucket, Pointer
<1>7. Behind \in [Bucket -> Pointer]
  BY <1>2, <1>4, <1>5 DEF Behind, Holding
<1>8. pc[listener] # "link" => Behind = table
  BY <1>2 DEF Behind
<1> QED
  BY <1>2, <1>3, <1>4, <1>5, <1>6, <1>7, <1>8

-----------------------------------------------------------------------------
(* What a step leaves as it was. *)

\* A step that touches neither a list nor what a thread holds.
LEMMA MemoryKept ==
    ASSUME ChainVarsOK, HandInv, NEW own, NEW rank, MemoryInv(own, rank),
           current \in Nat, current' \in Nat, current <= current',
           UNCHANGED <<table, entry, live>>,
           pc'[app] = "free" <=> pc[app] = "free",
           pc'[listener] = "link" <=> pc[listener] = "link",
           pc[app] = "free" => cur'[app] = cur[app],
           pc[listener] = "link" =>
              cur'[listener] = cur[listener] /\ bucket'[listener] = bucket[listener],
           phase' = "closing" \/ phase # "closing" \/ Listed(own) = {}
    PROVE  /\ MemoryInv(own, rank)'
           /\ Behind' = Behind
           /\ \A c \in Cell : Leaked(own, c)' <=> Leaked(own, c)
<1>1. Behind' = Behind
  BY DEF Behind
<1>2. \A c \in Cell : Leaked(own, c)' <=> Leaked(own, c)
  BY DEF Leaked, Held
<1>3. Lists(Behind', entry', own, rank) /\ KeyInv(own)'
  BY <1>1 DEF MemoryInv, KeyInv
<1>4. \A c \in live' : own[c] \in Bucket => entry'[c].key <= current'
  <2> SUFFICES ASSUME NEW c \in live, own[c] \in Bucket
               PROVE  entry[c].key <= current'
    OBVIOUS
  <2>1. c \in Cell /\ entry[c].key \in Nat
    BY QosTypes
  <2>2. entry[c].key <= current
    BY DEF MemoryInv
  <2> QED
    BY <2>1, <2>2
<1>5. \A c \in Cell : Leaked(own, c)' =>
         entry'[c].next = NULL \/ (entry'[c].next \in Cell /\ Leaked(own, entry[c].next)')
  BY <1>2 DEF MemoryInv
<1>6. phase' # "closing" => Listed(own) \subseteq live'
  BY DEF MemoryInv
<1>7. MemoryInv(own, rank)'
  BY <1>3, <1>4, <1>5, <1>6 DEF MemoryInv
<1> QED
  BY <1>1, <1>2, <1>7

\* A step of the application that the listener does not notice.
LEMMA ListenerKept ==
    ASSUME ChainVarsOK, HandInv, NEW own, NEW rank, ListenerInv(own, rank),
           pc'[listener] = pc[listener], call'[listener] = call[listener],
           bucket'[listener] = bucket[listener], cur'[listener] = cur[listener],
           table' = table,
           \A c \in Cell : own[c] \in Bucket => entry'[c].key = entry[c].key,
           pc[listener] = "link" => /\ entry'[cur[listener]] = entry[cur[listener]]
                                    /\ cur[listener] \in live'
                                    /\ pc'[app] = "free" => cur'[app] # cur[listener],
           \A c \in Cell : Leaked(own, c) => Leaked(own, c)',
           removed \subseteq removed',
           pc[listener] # "idle" => /\ call[listener].key <= current'
                                    /\ current' - call[listener].key < NBuckets,
           pc[listener] # "idle" /\ (call[listener].key < current \/ phase # "publish") =>
              call[listener].key < current' \/ phase' # "publish"
    PROVE  ListenerInv(own, rank)'
<1>1. Passed(own, rank, listener)' = Passed(own, rank, listener)
  BY DEF Passed
<1>2. /\ bucket[listener] \in Bucket /\ cur[listener] \in Pointer
      /\ Passed(own, rank, listener) \subseteq {c \in Cell : own[c] \in Bucket}
  BY QosTypes DEF Passed
<1>3. pc[listener] # "idle" /\ cur[listener] \in Cell /\ Off(own) => Off(own)'
  BY DEF Off
<1>4. pc[listener] # "idle" => ListenerCall'
  BY DEF ListenerInv, ListenerCall
<1>5. \A k : NoKey(own, bucket[listener], k) => NoKey(own, bucket[listener], k)'
  BY <1>2 DEF NoKey
<1>6. pc[listener] = "walk" => ListenerWalk(own, rank)'
  BY <1>1, <1>2, <1>3, <1>5 DEF ListenerInv, ListenerWalk, NoKey
<1>7. pc[listener] = "found" => ListenerFound(own)'
  BY <1>2, <1>3 DEF ListenerInv, ListenerFound
<1>8. pc[listener] = "link" => ListenerLink(own)'
  BY <1>2, <1>5 DEF ListenerInv, ListenerLink, NoKey
<1> QED
  BY <1>4, <1>6, <1>7, <1>8 DEF ListenerInv

\* A step of the listener that the application does not notice.
LEMMA AppKept ==
    ASSUME ChainVarsOK, HandInv, NEW own, NEW rank, AppInv(own, rank),
           pc'[app] = pc[app], call'[app] = call[app], bucket'[app] = bucket[app],
           cur'[app] = cur[app], prev'[app] = prev[app],
           phase' = phase, current' = current, removed' = removed, readable \subseteq readable',
           \A c \in Cell : own[c] \in Bucket =>
              /\ entry'[c].key = entry[c].key /\ entry'[c].next = entry[c].next
              /\ c \in live' <=> c \in live,
           \A c \in live : c \in live',
           Behind' = Behind,
           phase \in {"closing", "closed"} => pc'[listener] = "idle"
    PROVE  AppInv(own, rank)'
<1>1. Passed(own, rank, app)' = Passed(own, rank, app)
  BY DEF Passed
<1>2. /\ bucket[app] \in Bucket /\ cur[app] \in Pointer
      /\ Passed(own, rank, app) \subseteq {c \in Cell : own[c] \in Bucket}
  BY QosTypes DEF Passed
<1>3. AppCall => AppCall'
  BY DEF AppCall
<1>4. \A b \in Bucket : \A p, c : Stands(Behind, entry, own, b, p, c) =>
                                     Stands(Behind', entry', own, b, p, c)
  BY DEF Stands
<1>5. pc[app] = "walk" => AppWalk(own, rank)'
  BY <1>1, <1>2, <1>3, <1>4 DEF AppInv, AppWalk
<1>6. pc[app] = "found" => AppFound(own)'
  BY <1>2, <1>3, <1>4 DEF AppInv, AppFound
<1>7. pc[app] = "free" => AppFree(own)'
  BY DEF AppInv, AppFree
<1>8. pc[app] = "sweep" => AppSweep(own, rank)'
  BY <1>1 DEF AppInv, AppSweep, Listed
<1> QED
  BY <1>5, <1>6, <1>7, <1>8 DEF AppInv, Listed

\* The message that is being published stays so, and its entry as it was.
LEMMA ValueKept ==
    ASSUME ChainVarsOK, HandInv, HistoryInv, NEW own, ValueInv(own),
           phase' = "publish" => phase = "publish" /\ current' = current,
           phase' = "publish" => stored'[current] = stored[current],
           \A c \in Cell : own[c] \in Bucket =>
              entry'[c].key = entry[c].key /\ entry'[c].value = entry[c].value
    PROVE  ValueInv(own)'
<1>1. phase = "publish" => HashOf[current] \in Bucket
  BY QosTypes DEF HistoryInv
<1> QED
  BY <1>1 DEF ValueInv, NoKey

-----------------------------------------------------------------------------
(* qos2_table_init *)

\* All lists but the ones in B are forgotten.
LEMMA Forgetting ==
    ASSUME NEW tb, NEW en, NEW own, NEW rank, Lists(tb, en, own, rank),
           NEW B \in SUBSET Bucket, NEW o,
           o = [d \in Cell |-> IF own[d] \in B THEN own[d] ELSE NBuckets],
           NEW tb2, \A b \in B : tb2[b] = tb[b],
           \A b \in Bucket : b \notin B => tb2[b] = NULL
    PROVE  /\ Lists(tb2, en, o, rank)
           /\ \A d \in Cell : /\ o[d] \in Bucket => o[d] = own[d] /\ own[d] \in B
                              /\ own[d] \in B => o[d] = own[d]
                              /\ own[d] \notin B => o[d] = NBuckets
<1>1. NBuckets \notin Bucket /\ NBuckets \in 0 .. NBuckets
  BY BucketFacts DEF Bucket
<1>2. Order(own, rank) /\ own \in [Cell -> 0 .. NBuckets]
  BY DEF Lists, Order
<1>3. /\ \A d \in Cell : own[d] \in B => o[d] = own[d]
      /\ \A d \in Cell : own[d] \notin B => o[d] = NBuckets
  OBVIOUS
<1>4. \A d \in Cell : o[d] \in Bucket => o[d] = own[d] /\ own[d] \in B
  BY <1>1, <1>3
<1>5. o \in [Cell -> 0 .. NBuckets]
  BY <1>1, <1>2
<1>6. Order(o, rank)
  BY <1>2, <1>4, <1>5 DEF Order
<1>7. ASSUME NEW a \in Bucket
      PROVE  HeadOf(o, rank, a, tb2[a])
  <2>1. CASE a \notin B
    <3>1. \A d \in Cell : o[d] # a
      BY <1>4, <2>1
    <3> QED
      BY <2>1, <3>1 DEF HeadOf
  <2>2. CASE a \in B
    <3>1. HeadOf(own, rank, a, tb[a]) /\ tb2[a] = tb[a]
      BY <2>2 DEF Lists
    <3>2. \A d \in Cell : o[d] = a <=> own[d] = a
      BY <1>1, <1>3, <2>2
    <3> QED
      BY <3>1, <3>2 DEF HeadOf
  <2> QED
    BY <2>1, <2>2
<1>8. ASSUME NEW d \in Cell, o[d] \in Bucket
      PROVE  NextOf(o, rank, d, en[d].next)
  <2>1. NextOf(own, rank, d, en[d].next) /\ own[d] \in B /\ o[d] = own[d]
    BY <1>4, <1>8 DEF Lists
  <2>2. \A e \in Cell : o[e] = o[d] <=> own[e] = own[d]
    BY <1>1, <1>3, <1>8, <2>1
  <2> QED
    BY <2>1, <2>2 DEF NextOf
<1> QED
  BY <1>3, <1>4, <1>6, <1>7, <1>8 DEF Lists

LEMMA SetQosStep ==
    ASSUME ChainVarsOK, HandInv, HistoryInv, ReadInv, NEW own, NEW rank, Coherent(own, rank),
           SetQos
    PROVE  HistoryInv' /\ ReadInv' /\ \E o : Coherent(o, rank)'
<1>1. /\ phase = "ready" /\ pc[app] = "idle" /\ table' = [b \in Bucket |-> NULL]
      /\ UNCHANGED <<entry, live, now, pc, call, bucket, cur, prev, did>>
      /\ UNCHANGED <<phase, current, stored, readable, removed>>
  BY DEF SetQos, InitTable, historyVars, ptrVars
<1>2. HistoryInv' /\ ReadInv'
  BY <1>1 DEF HistoryInv, ReadInv
<1>3. PICK B \in SUBSET Bucket : B = IF pc[listener] = "link" THEN {bucket[listener]} ELSE {}
  BY QosTypes
<1>4. PICK o : o = [d \in Cell |-> IF own[d] \in B THEN own[d] ELSE NBuckets]
  OBVIOUS
<1>5. /\ Lists(Behind, entry, own, rank) /\ KeyInv(own) /\ Listed(own) \subseteq live
      /\ \A c \in live : own[c] \in Bucket => entry[c].key <= current
      /\ \A c \in Cell : Leaked(own, c) =>
            entry[c].next = NULL \/ (entry[c].next \in Cell /\ Leaked(own, entry[c].next))
      /\ ListenerInv(own, rank)
  BY <1>1 DEF Coherent, MemoryInv
<1>6. /\ \A b \in B : Behind'[b] = Behind[b]
      /\ \A b \in Bucket : b \notin B => Behind'[b] = NULL
  BY <1>1, <1>3 DEF Behind
<1>7. /\ Lists(Behind', entry, o, rank)
      /\ \A d \in Cell : o[d] \in Bucket => o[d] = own[d] /\ own[d] \in B
      /\ \A d \in Cell : own[d] \in B => o[d] = own[d]
      /\ \A d \in Cell : own[d] \notin B => o[d] = NBuckets
  BY <1>4, <1>5, <1>6, Forgetting
<1>8. \A c \in Cell : Held(c)' <=> pc[listener] = "link" /\ c = cur[listener]
  BY <1>1 DEF Held
<1>9. \A c \in Cell : Leaked(own, c) => Leaked(o, c)'
  BY <1>1, <1>3, <1>7, QosTypes DEF Leaked, Held
<1>10. \A c \in Cell : own[c] \in Bucket /\ own[c] \notin B => Leaked(o, c)'
  <2> SUFFICES ASSUME NEW c \in Cell, own[c] \in Bucket, own[c] \notin B
               PROVE  Leaked(o, c)'
    OBVIOUS
  <2>1. c \in live /\ o[c] = NBuckets
    BY <1>5, <1>7 DEF Listed
  <2>2. pc[listener] = "link" => own[cur[listener]] = NBuckets
    BY <1>5 DEF ListenerInv, ListenerLink
  <2>3. ~Held(c)'
    BY <1>8, <2>2, QosTypes
  <2> QED
    BY <1>1, <2>1, <2>3 DEF Leaked
<1>11. ASSUME NEW c \in Cell, Leaked(o, c)'
       PROVE  entry[c].next = NULL \/ (entry[c].next \in Cell /\ Leaked(o, entry[c].next)')
  <2>1. PICK n : n = entry[c].next
    OBVIOUS
  <2>2. CASE own[c] \in Bucket
    <3>1. NextOf(own, rank, c, n)
      BY <1>5, <2>1, <2>2 DEF Lists
    <3>2. own[c] \notin B
      BY <1>7, <1>11, <2>2, QosTypes DEF Leaked
    <3>3. n # NULL => n \in Cell /\ own[n] = own[c]
      BY <3>1 DEF NextOf
    <3>4. n # NULL => n \in Cell /\ Leaked(o, n)'
      BY <1>10, <2>2, <3>2, <3>3
    <3> QED
      BY <1>1, <2>1, <3>4 DEF Leaked, Held
  <2>3. CASE own[c] \notin Bucket
    <3>1. own[c] = NBuckets
      <4>1. own[c] \in 0 .. NBuckets
        BY <1>5 DEF Lists, Order
      <4> QED
        BY <2>3, <4>1, BucketFacts DEF Bucket
    <3>2. Leaked(own, c)
      BY <1>1, <1>11, <3>1 DEF Leaked, Held
    <3>3. n = NULL \/ (n \in Cell /\ Leaked(own, n))
      BY <1>5, <2>1, <3>2
    <3>4. n = NULL \/ (n \in Cell /\ Leaked(o, n)')
      BY <1>9, <3>3
    <3> QED
      BY <1>1, <2>1, <3>4 DEF Leaked, Held
  <2> QED
    BY <2>2, <2>3
<1>12. MemoryInv(o, rank)'
  <2>1. KeyInv(o)'
    BY <1>1, <1>5, <1>7, QosTypes DEF KeyInv
  <2>2. Listed(o) \subseteq Listed(own)
    BY <1>3, <1>7 DEF Listed
  <2>3. \A c \in live : o[c] \in Bucket => entry[c].key <= current
    BY <1>3, <1>5, <1>7, QosTypes
  <2> QED
    BY <1>1, <1>5, <1>7, <1>11, <2>1, <2>2, <2>3 DEF MemoryInv
<1>13. AppInv(o, rank)' /\ ValueInv(o)'
  BY <1>1 DEF AppInv, ValueInv
<1>14. ListenerInv(o, rank)'
  <2>1. ListenerCall => ListenerCall'
    BY <1>1 DEF ListenerCall
  <2>2. \A k : pc[listener] # "link" => NoKey(o, bucket[listener], k)'
    BY <1>1, <1>3, <1>7, QosTypes DEF NoKey
  <2>3. Off(own) /\ cur[listener] \in Cell => Off(o)'
    BY <1>1, <1>9 DEF Off
  <2>4. cur[listener] \in Cell /\ own[cur[listener]] = bucket[listener] /\ pc[listener] # "link" =>
           Off(o)'
    BY <1>1, <1>3, <1>10, QosTypes DEF Off
  <2>5. pc[listener] = "walk" => ListenerWalk(o, rank)'
    BY <1>1, <1>5, <2>2, <2>3, <2>4 DEF ListenerInv, ListenerWalk
  <2>6. pc[listener] = "found" => ListenerFound(o)'
    <3>1. pc[listener] = "found" => o[cur[listener]] = NBuckets \/ cur[listener] \notin Cell
      BY <1>3, <1>7
    <3> QED
      BY <1>1, <1>5, <2>3, <2>4, <3>1 DEF ListenerInv, ListenerFound
  <2>7. pc[listener] = "link" => ListenerLink(o)'
    <3> SUFFICES ASSUME pc[listener] = "link" PROVE ListenerLink(o)'
      OBVIOUS
    <3>1. ListenerLink(own) /\ cur[listener] \in Cell /\ bucket[listener] \in Bucket
      BY <1>5, QosTypes DEF ListenerInv, Holding
    <3>2. o[cur[listener]] = NBuckets
      BY <1>3, <1>7, <3>1, QosTypes DEF ListenerLink
    <3>3. \A c \in Cell : o[c] = bucket[listener] => own[c] = bucket[listener]
      BY <1>7, <3>1
    <3> QED
      BY <1>1, <3>1, <3>2, <3>3 DEF ListenerLink, NoKey
  <2> QED
    BY <1>1, <1>5, <2>1, <2>5, <2>6, <2>7 DEF ListenerInv
<1> QED
  BY <1>2, <1>12, <1>13, <1>14 DEF Coherent

-----------------------------------------------------------------------------
(* slimmq_publish and slimmq_close outside the table. *)

LEMMA CurrentNat == HistoryInv => current \in Nat
  BY Qos2Assumption DEF HistoryInv

LEMMA PublishStep ==
    ASSUME ChainVarsOK, HandInv, HistoryInv, ReadInv, NEW own, NEW rank, Coherent(own, rank),
           Publish
    PROVE  HistoryInv' /\ ReadInv' /\ Coherent(own, rank)'
<1>1. /\ phase = "ready" /\ pc[app] = "idle" /\ current < MaxId /\ InTime(current + 1)
      /\ phase' = "publish" /\ current' = current + 1 /\ readable' = {}
      /\ UNCHANGED <<table, entry, live, now, pc, call, bucket, cur, prev, did, stored, removed>>
  BY DEF Publish, chainVars, memVars, ptrVars
<1>2. current \in Nat /\ current' \in Nat /\ current < current' /\ current' \in Key
  BY <1>1, CurrentNat, Qos2Assumption DEF HistoryInv
<1>3. HistoryInv'
  BY <1>1, <1>2, Qos2Assumption DEF HistoryInv
<1>4. ReadInv'
  BY <1>1, <1>2, QosTypes DEF ReadInv
<1>5. MemoryInv(own, rank) /\ ListenerInv(own, rank) /\ Listed(own) \subseteq live
  BY <1>1 DEF Coherent, MemoryInv
<1>6. MemoryInv(own, rank)' /\ \A c \in Cell : Leaked(own, c)' <=> Leaked(own, c)
  BY <1>1, <1>2, <1>5, MemoryKept
<1>7. pc[listener] # "idle" => /\ call[listener].key < current'
                               /\ current' - call[listener].key < NBuckets
  <2>1. pc[listener] # "idle" => call[listener].key <= current
    BY <1>5 DEF ListenerInv, ListenerCall
  <2>2. call[listener].key \in Nat
    BY QosTypes
  <2>3. pc[listener] # "idle" => (current + 1) - call[listener].key < NBuckets
    BY <1>1 DEF InTime
  <2> QED
    BY <1>1, <1>2, <2>1, <2>2, <2>3
<1>8. ListenerInv(own, rank)'
  <2>1. pc[listener] = "link" => cur[listener] \in live
    BY <1>5 DEF ListenerInv, ListenerLink
  <2>2. pc[listener] # "idle" => call[listener].key <= current'
    <3>1. call[listener].key \in Nat
      BY QosTypes
    <3> QED
      BY <1>2, <1>7, <3>1
  <2> QED
    BY <1>1, <1>5, <1>6, <1>7, <2>1, <2>2, ListenerKept
<1>9. AppInv(own, rank)'
  BY <1>1 DEF AppInv
<1>10. ValueInv(own)'
  <2>1. stored'[current'] = NONE
    BY <1>1, <1>2 DEF HistoryInv
  <2>2. \A c \in Cell : own[c] = HashOf[current'] => entry'[c].key # current'
    <3> SUFFICES ASSUME NEW c \in Cell, own[c] = HashOf[current'], entry[c].key = current'
                 PROVE  FALSE
      BY <1>1
    <3>1. own[c] \in Bucket
      BY <1>2, QosTypes
    <3>2. entry[c].key <= current
      BY <1>5, <3>1 DEF MemoryInv, Listed
    <3> QED
      BY <1>2, <3>2
  <2> QED
    BY <2>1, <2>2 DEF ValueInv
<1> QED
  BY <1>3, <1>4, <1>6, <1>8, <1>9, <1>10 DEF Coherent

\* A return of slimmq_publish or slimmq_close.
LEMMA LeaveStep ==
    ASSUME ChainVarsOK, HandInv, HistoryInv, ReadInv, NEW own, NEW rank, Coherent(own, rank),
           GiveUp \/ CloseOnly \/ Closed
    PROVE  HistoryInv' /\ ReadInv' /\ Coherent(own, rank)'
<1>1. /\ pc[app] = "idle" /\ UNCHANGED <<current, stored, readable, removed>>
      /\ UNCHANGED <<table, entry, live, now, pc, call, bucket, cur, prev, did>>
      /\ \/ phase = "publish" /\ phase' = "ready"
         \/ phase = "ready" /\ phase' = "closed" /\ pc[listener] = "idle"
         \/ phase = "closing" /\ phase' = "closed"
  BY DEF GiveUp, CloseOnly, Closed, chainVars, memVars, ptrVars, historyVars
<1>2. current \in Nat
  BY CurrentNat
<1>3. HistoryInv' /\ ReadInv'
  BY <1>1 DEF HistoryInv, ReadInv
<1>4. MemoryInv(own, rank) /\ ListenerInv(own, rank) /\ AppInv(own, rank)
  BY DEF Coherent
<1>5. phase = "closing" => Listed(own) = {} /\ pc[listener] = "idle"
  BY <1>1, <1>4 DEF AppInv
<1>6. MemoryInv(own, rank)' /\ \A c \in Cell : Leaked(own, c)' <=> Leaked(own, c)
  BY <1>1, <1>2, <1>4, <1>5, MemoryKept
<1>7. ListenerInv(own, rank)'
  <2>1. pc[listener] = "link" => cur[listener] \in live
    BY <1>4 DEF ListenerInv, ListenerLink
  <2>2. pc[listener] # "idle" => ListenerCall
    BY <1>4 DEF ListenerInv
  <2> QED
    BY <1>1, <1>4, <1>6, <2>1, <2>2, ListenerKept DEF ListenerCall
<1>8. AppInv(own, rank)' /\ ValueInv(own)'
  BY <1>1, <1>5 DEF AppInv, ValueInv, Listed
<1> QED
  BY <1>3, <1>6, <1>7, <1>8 DEF Coherent

-----------------------------------------------------------------------------
(* The beginning of a call. *)

\* Where a walk begins, nothing has been passed.
LEMMA StartsAtHead ==
    ASSUME ChainVarsOK, HandInv, NEW own, NEW rank, MemoryInv(own, rank), NEW b \in Bucket,
           ~(pc[listener] = "link" /\ b = bucket[listener])
    PROVE  /\ Stands(Behind, entry, own, b, NULL, table[b])
           /\ table[b] = NULL \/ (table[b] \in Cell /\ own[table[b]] = b)
           /\ \A c \in Cell : ~(own[c] = b /\ (table[b] = NULL \/ rank[c] > rank[table[b]]))
<1>1. Behind[b] = table[b]
  BY DEF Behind
<1>2. /\ Stands(Behind, entry, own, b, NULL, Behind[b])
      /\ Behind[b] = NULL \/ (Behind[b] \in Cell /\ own[Behind[b]] = b)
      /\ {c \in Cell : own[c] = b /\ (Behind[b] = NULL \/ rank[c] > rank[Behind[b]])} = {}
  BY AtHead DEF MemoryInv
<1> QED
  BY <1>1, <1>2

\* What a call of the application that begins leaves as it was.
LEMMA AppStarts ==
    ASSUME ChainVarsOK, HandInv, HistoryInv, ReadInv, NEW own, NEW rank, Coherent(own, rank),
           NEW c, NEW b, NEW l \in {"walk", "sweep"}, Start(app, c, b, l),
           current' = current, removed \subseteq removed',
           phase' = "closing" \/ (phase # "closing" /\ phase' \in {phase, "ready"})
    PROVE  /\ pc[app] = "idle" /\ pc'[app] = l /\ call'[app] = c /\ bucket'[app] = b
           /\ cur'[app] = table[b] /\ prev'[app] = NULL /\ did'[app] = <<c.op>>
           /\ UNCHANGED <<table, entry, live>> /\ DOMAIN did' = Thread
           /\ pc'[listener] = pc[listener] /\ call'[listener] = call[listener]
           /\ MemoryInv(own, rank)' /\ ListenerInv(own, rank)' /\ Behind' = Behind
<1>1. app # listener /\ app \in Thread /\ listener \in Thread
  BY TwoThreads
<1>2. /\ pc \in [Thread -> PC] /\ call \in [Thread -> Call] /\ bucket \in [Thread -> Bucket]
      /\ cur \in [Thread -> Pointer] /\ prev \in [Thread -> Pointer] /\ DOMAIN did = Thread
  BY DEF ChainVarsOK, PC, ReadInv
<1>3. /\ pc[app] = "idle" /\ pc'[app] = l /\ call'[app] = c /\ bucket'[app] = b
      /\ cur'[app] = table[b] /\ prev'[app] = NULL /\ did'[app] = <<c.op>>
      /\ UNCHANGED <<table, entry, live>> /\ DOMAIN did' = Thread
      /\ pc'[listener] = pc[listener] /\ call'[listener] = call[listener]
      /\ bucket'[listener] = bucket[listener] /\ cur'[listener] = cur[listener]
  BY <1>1, <1>2 DEF Start, memVars
<1>4. MemoryInv(own, rank) /\ ListenerInv(own, rank) /\ current \in Nat
  BY CurrentNat DEF Coherent
<1>5. /\ MemoryInv(own, rank)' /\ Behind' = Behind
      /\ \A d \in Cell : Leaked(own, d)' <=> Leaked(own, d)
  BY <1>3, <1>4, MemoryKept
<1>6. ListenerInv(own, rank)'
  <2>1. pc[listener] = "link" => cur[listener] \in live
    BY <1>4 DEF ListenerInv, ListenerLink
  <2>2. pc[listener] # "idle" => ListenerCall
    BY <1>4 DEF ListenerInv
  <2>3. pc'[app] # "free"
    BY <1>3
  <2>4. phase # "publish" => phase' # "publish"
    OBVIOUS
  <2> QED
    BY <1>3, <1>4, <1>5, <2>1, <2>2, <2>3, <2>4, ListenerKept DEF ListenerCall
<1> QED
  BY <1>3, <1>5, <1>6

LEMMA AppBegins ==
    ASSUME ChainVarsOK, HandInv, HistoryInv, ReadInv, NEW own, NEW rank, Coherent(own, rank),
           GetState \/ Remove
    PROVE  HistoryInv' /\ ReadInv' /\ Coherent(own, rank)'
<1>1. PICK op \in {"get", "remove"} :
         /\ Begin(app, op, current, "COMPLETED") /\ phase = "publish"
         /\ current' = current /\ stored' = stored
         /\ op = "get" => /\ phase' = phase /\ removed' = removed
                          /\ stored[current] \in readable'
                          /\ pc[listener] # "idle" /\ call[listener].key = current =>
                                call[listener].value \in readable'
         /\ op = "remove" => /\ phase' = "ready" /\ removed' = removed \cup {current}
                             /\ readable' = readable
  BY DEF GetState, Remove
<1>2. PICK c : c = [op |-> op, key |-> current, value |-> "COMPLETED"]
  OBVIOUS
<1>3. c.op = op /\ c.key = current /\ Start(app, c, HashOf[current], "walk")
  BY <1>1, <1>2 DEF Begin
<1>4. /\ pc[app] = "idle" /\ pc'[app] = "walk" /\ call'[app] = c
      /\ bucket'[app] = HashOf[current]
      /\ cur'[app] = table[HashOf[current]] /\ prev'[app] = NULL /\ did'[app] = <<op>>
      /\ UNCHANGED <<table, entry, live>> /\ DOMAIN did' = Thread
      /\ pc'[listener] = pc[listener] /\ call'[listener] = call[listener]
      /\ MemoryInv(own, rank)' /\ ListenerInv(own, rank)' /\ Behind' = Behind
  <2>1. /\ current' = current /\ removed \subseteq removed'
        /\ phase # "closing" /\ phase' \in {phase, "ready"}
    BY <1>1
  <2>2. "walk" \in {"walk", "sweep"}
    OBVIOUS
  <2> QED
    BY <1>3, <2>1, <2>2, AppStarts
<1>5. current \in Key /\ current \in Nat
  BY <1>1, CurrentNat DEF HistoryInv
<1>6. HistoryInv'
  BY <1>1, <1>5, QosTypes DEF HistoryInv
<1>7. ReadInv'
  <2>1. \A k, v : did'[app] # <<"get", k, v>>
    BY <1>4
  <2> QED
    BY <1>1, <1>3, <1>4, <2>1 DEF ReadInv
<1>8. PICK b \in Bucket : b = HashOf[current]
  BY <1>5, QosTypes
<1>9. MemoryInv(own, rank) /\ ListenerInv(own, rank) /\ ValueInv(own)
  BY DEF Coherent
<1>10. AppCall'
  BY <1>1, <1>3, <1>4 DEF AppCall
<1>11. AppWalk(own, rank)'
  <2>1. CASE pc[listener] = "link" /\ b = bucket[listener]
    <3>1. ListenerLink(own) /\ ListenerCall
      BY <1>9, <2>1 DEF ListenerInv
    <3>2. call[listener].key = current
      BY <1>5, <1>8, <2>1, <3>1, SameList, QosTypes DEF ListenerCall
    <3>3. \A d \in Cell : own[d] = b => entry[d].key # current
      BY <2>1, <3>1, <3>2 DEF ListenerLink, NoKey
    <3>4. table[b] = NULL \/ (table[b] \in Cell /\ own[table[b]] = b)
      <4>1. Behind[b] = entry[cur[listener]].next
        BY <2>1 DEF Behind
      <4>2. HeadOf(own, rank, b, Behind[b])
        BY <1>9 DEF MemoryInv, Lists
      <4>3. table[b] \in {NULL, Behind[b]}
        BY <2>1, <3>1, <4>1 DEF ListenerLink
      <4> QED
        BY <4>2, <4>3 DEF HeadOf
    <3> QED
      BY <1>1, <1>4, <1>8, <1>10, <3>3, <3>4 DEF AppWalk, Passed
  <2>2. CASE ~(pc[listener] = "link" /\ b = bucket[listener])
    <3>1. /\ Stands(Behind, entry, own, b, NULL, table[b])
          /\ table[b] = NULL \/ (table[b] \in Cell /\ own[table[b]] = b)
          /\ \A d \in Cell : ~(own[d] = b /\ (table[b] = NULL \/ rank[d] > rank[table[b]]))
      BY <1>9, <2>2, StartsAtHead
    <3>2. Passed(own, rank, app)' = {}
      BY <1>4, <1>8, <3>1 DEF Passed
    <3> QED
      BY <1>1, <1>4, <1>8, <1>10, <3>1, <3>2 DEF AppWalk
  <2> QED
    BY <2>1, <2>2
<1>12. AppInv(own, rank)'
  BY <1>1, <1>4, <1>11 DEF AppInv
<1>13. ValueInv(own)'
  BY <1>1, <1>4, <1>9 DEF ValueInv, NoKey
<1> QED
  BY <1>4, <1>6, <1>7, <1>12, <1>13 DEF Coherent

LEMMA CloseStep ==
    ASSUME ChainVarsOK, HandInv, HistoryInv, ReadInv, NEW own, NEW rank, Coherent(own, rank),
           Close
    PROVE  HistoryInv' /\ ReadInv' /\ Coherent(own, rank)'
<1>1. /\ phase = "ready" /\ pc[listener] = "idle" /\ phase' = "closing"
      /\ UNCHANGED <<current, stored, readable, removed>> /\ Sweep(app, "destroy")
  BY DEF Close, historyVars
<1>2. PICK c : c = [NoCall EXCEPT !.op = "destroy"] /\ c.op = "destroy"
  <2>1. [NoCall EXCEPT !.op = "destroy"].op = "destroy"
    BY NoCallFacts DEF Call
  <2> QED
    BY <2>1
<1>3. /\ pc[app] = "idle" /\ pc'[app] = "sweep" /\ call'[app] = c /\ bucket'[app] = 0
      /\ cur'[app] = table[0] /\ prev'[app] = NULL /\ did'[app] = <<"destroy">>
      /\ UNCHANGED <<table, entry, live>> /\ DOMAIN did' = Thread
      /\ pc'[listener] = pc[listener]
      /\ MemoryInv(own, rank)' /\ ListenerInv(own, rank)' /\ Behind' = Behind
  <2>1. Start(app, c, 0, "sweep") /\ "sweep" \in {"walk", "sweep"}
    BY <1>1, <1>2 DEF Sweep
  <2> QED
    BY <1>1, <1>2, <2>1, AppStarts
<1>4. HistoryInv'
  BY <1>1 DEF HistoryInv
<1>5. ReadInv'
  <2>1. \A k, v : did'[app] # <<"get", k, v>>
    BY <1>3
  <2> QED
    BY <1>3, <2>1 DEF ReadInv
<1>6. MemoryInv(own, rank) /\ Listed(own) \subseteq live /\ 0 \in Bucket
  BY <1>1, BucketFacts DEF Coherent, MemoryInv
<1>7. /\ table[0] = NULL \/ (table[0] \in Cell /\ own[table[0]] = 0)
      /\ \A d \in Cell : ~(own[d] = 0 /\ (table[0] = NULL \/ rank[d] > rank[table[0]]))
  BY <1>1, <1>6, StartsAtHead
<1>8. Passed(own, rank, app)' = {}
  BY <1>3, <1>7 DEF Passed
<1>9. \A d \in Listed(own) : own[d] >= 0
  BY BucketFacts DEF Listed, Bucket
<1>10. AppSweep(own, rank)'
  BY <1>1, <1>2, <1>3, <1>6, <1>7, <1>8, <1>9 DEF AppSweep, Listed
<1>11. AppInv(own, rank)' /\ ValueInv(own)'
  BY <1>1, <1>3, <1>10 DEF AppInv, ValueInv
<1> QED
  BY <1>3, <1>4, <1>5, <1>11 DEF Coherent

-----------------------------------------------------------------------------
(* The steps of one thread, seen from the other. *)

Apart(u) ==
    /\ pc'[u] = pc[u] /\ call'[u] = call[u] /\ bucket'[u] = bucket[u]
    /\ cur'[u] = cur[u] /\ prev'[u] = prev[u] /\ did'[u] = did[u]
    /\ DOMAIN did' = Thread

LEMMA StepsApart ==
    ASSUME ChainVarsOK, ReadInv, NEW t \in Thread, NEW u \in Thread, t # u,
           \/ CallStep(t) \/ SweepStep(t)
           \/ \E op \in {"set", "get", "remove"}, k \in Key, v \in Value : Begin(t, op, k, v)
    PROVE  Apart(u)
<1>1. /\ pc \in [Thread -> PC] /\ call \in [Thread -> Call] /\ bucket \in [Thread -> Bucket]
      /\ cur \in [Thread -> Pointer] /\ prev \in [Thread -> Pointer] /\ DOMAIN did = Thread
  BY DEF ChainVarsOK, PC, ReadInv
<1>2. ASSUME Return(t), did'[u] = did[u], DOMAIN did' = Thread
      PROVE  Apart(u)
  BY <1>1, <1>2 DEF Return, Apart
<1>3. ASSUME NEW x, Effect(t, x)
      PROVE  did'[u] = did[u] /\ DOMAIN did' = Thread
  BY <1>1, <1>3 DEF Effect
<1>4. CASE Walk(t)
  BY <1>1, <1>4 DEF Walk, GoTo, Apart
<1>5. CASE SetFound(t) \/ SetLink(t) \/ Get(t) \/ RemoveMissing(t)
  BY <1>2, <1>3, <1>5 DEF SetFound, SetLink, Get, RemoveMissing
<1>6. CASE SetNew(t)
  BY <1>1, <1>6 DEF SetNew, GoTo, Apart
<1>7. CASE Unlink(t)
  BY <1>1, <1>3, <1>7 DEF Unlink, GoTo, Apart
<1>8. CASE Free(t)
  BY <1>1, <1>2, <1>8 DEF Free
<1>9. CASE CleanEntry(t) \/ DestroyEntry(t)
  BY <1>1, <1>9 DEF CleanEntry, DestroyEntry, Apart
<1>10. CASE NextBucket(t)
  <2>1. CASE Return(t)
    BY <1>1, <1>2, <1>10, <2>1 DEF NextBucket
  <2>2. CASE ~Return(t)
    BY <1>1, <1>10, <2>2 DEF NextBucket, Apart
  <2> QED
    BY <2>1, <2>2
<1>11. ASSUME NEW c, NEW b, NEW l, Start(t, c, b, l)
       PROVE  Apart(u)
  BY <1>1, <1>11 DEF Start, Apart
<1> QED
  BY <1>4, <1>5, <1>6, <1>7, <1>8, <1>9, <1>10, <1>11 DEF CallStep, SweepStep, Begin

\* A step of the application in its call leaves the history as it was.
LEMMA AppHistory ==
    ASSUME ChainVarsOK, HandInv, HistoryInv, ReadInv, AppStep
    PROVE  /\ HistoryInv' /\ Apart(listener) /\ UNCHANGED <<phase, current, stored, readable, removed>>
           /\ CallStep(app) \/ SweepStep(app)
<1>1. UNCHANGED <<phase, current, stored, readable, removed>> /\ (CallStep(app) \/ SweepStep(app))
  BY DEF AppStep, historyVars
<1>2. HistoryInv'
  BY <1>1 DEF HistoryInv
<1> QED
  BY <1>1, <1>2, StepsApart, TwoThreads

\* The listener when a step of the application changes no list.
LEMMA ListenerUnaware ==
    ASSUME ChainVarsOK, HandInv, HistoryInv, NEW own, NEW rank, ListenerInv(own, rank),
           Apart(listener), UNCHANGED <<phase, current, removed, table>>,
           \A c \in Cell : own[c] \in Bucket => entry'[c].key = entry[c].key,
           pc[listener] = "link" => /\ entry'[cur[listener]] = entry[cur[listener]]
                                    /\ cur[listener] \in live'
                                    /\ pc'[app] = "free" => cur'[app] # cur[listener],
           \A c \in Cell : Leaked(own, c) => Leaked(own, c)'
    PROVE  ListenerInv(own, rank)'
<1>1. pc[listener] # "idle" => ListenerCall
  BY DEF ListenerInv
<1> QED
  BY <1>1, ListenerKept DEF Apart, ListenerCall

\* An entry further on, or the end of the walk.
LEMMA AppWalkStep ==
    ASSUME ChainVarsOK, HandInv, HistoryInv, ReadInv, NEW own, NEW rank, Coherent(own, rank),
           AppStep, Walk(app)
    PROVE  HistoryInv' /\ ReadInv' /\ Coherent(own, rank)'
<1>1. /\ HistoryInv' /\ Apart(listener)
      /\ UNCHANGED <<phase, current, stored, readable, removed>>
  BY AppHistory
<1>2. /\ pc[app] = "walk" /\ cur[app] # NULL /\ UNCHANGED <<table, entry, live, did>>
      /\ call'[app] = call[app] /\ bucket'[app] = bucket[app]
      /\ \/ /\ entry[cur[app]].key = call[app].key /\ pc'[app] = "found"
            /\ cur'[app] = cur[app] /\ prev'[app] = prev[app]
         \/ /\ entry[cur[app]].key # call[app].key /\ pc'[app] = "walk"
            /\ prev'[app] = cur[app] /\ cur'[app] = entry[cur[app]].next
  <2>1. /\ pc \in [Thread -> PC] /\ call \in [Thread -> Call] /\ app \in Thread
        /\ bucket \in [Thread -> Bucket]
        /\ cur \in [Thread -> Pointer] /\ prev \in [Thread -> Pointer]
    BY TwoThreads DEF ChainVarsOK, PC
  <2> QED
    BY <2>1 DEF Walk, GoTo, Match, memVars
<1>3. PICK c \in Cell, b \in Bucket, n \in Pointer : c = cur[app] /\ b = bucket[app] /\ n = entry[c].next
  BY <1>2, QosTypes
<1>4. /\ MemoryInv(own, rank) /\ ListenerInv(own, rank) /\ AppWalk(own, rank) /\ ValueInv(own)
      /\ current \in Nat /\ (phase \in {"closing", "closed"} => pc[listener] = "idle")
  BY <1>2, CurrentNat DEF Coherent, AppInv
<1>5. /\ MemoryInv(own, rank)' /\ Behind' = Behind
      /\ \A d \in Cell : Leaked(own, d)' <=> Leaked(own, d)
  BY <1>1, <1>2, <1>4, MemoryKept DEF Apart
<1>6. pc[listener] = "link" => cur[listener] \in live
  BY <1>4 DEF ListenerInv, ListenerLink
<1>7. ListenerInv(own, rank)'
  BY <1>1, <1>2, <1>4, <1>5, <1>6, ListenerUnaware
<1>8. ReadInv'
  BY <1>1, <1>2 DEF ReadInv, Apart
<1>9. ValueInv(own)'
  BY <1>1, <1>2, <1>4 DEF ValueInv, NoKey
<1>10. AppCall' /\ call[app].key = current /\ own[c] = b
  BY <1>1, <1>2, <1>3, <1>4, QosTypes DEF AppWalk, AppCall
<1>11. CASE pc'[app] = "found"
  <2>1. entry[c].key = current /\ cur'[app] = c /\ prev'[app] = prev[app]
    BY <1>2, <1>3, <1>10, <1>11
  <2>2. call[app].op = "remove" => Stands(Behind, entry, own, b, prev[app], c)
    <3>1. c \notin Passed(own, rank, app)
      <4>1. rank[c] \in Nat /\ c # NULL
        BY <1>4, QosTypes DEF MemoryInv, Lists, Order
      <4> QED
        BY <1>3, <4>1 DEF Passed
    <3> QED
      BY <1>3, <1>4, <1>10, <2>1, <3>1 DEF AppWalk
  <2>3. AppFound(own)'
    BY <1>1, <1>2, <1>3, <1>5, <1>10, <2>1, <2>2 DEF AppFound
  <2>4. AppInv(own, rank)'
    BY <1>1, <1>4, <1>11, <2>3 DEF AppInv, Apart
  <2> QED
    BY <1>1, <1>5, <1>7, <1>8, <1>9, <2>4 DEF Coherent
<1>12. CASE pc'[app] = "walk"
  <2>1. entry[c].key # current /\ cur'[app] = n /\ prev'[app] = c
    BY <1>2, <1>3, <1>10, <1>12
  <2>2. /\ Stands(Behind, entry, own, b, c, n)
        /\ n = NULL \/ (n \in Cell /\ own[n] = b)
        /\ {d \in Cell : own[d] = b /\ (n = NULL \/ rank[d] > rank[n])} =
           {d \in Cell : own[d] = b /\ (c = NULL \/ rank[d] > rank[c])} \cup {c}
    BY <1>3, <1>4, <1>10, Further DEF MemoryInv
  <2>3. Passed(own, rank, app)' = Passed(own, rank, app) \cup {c}
    BY <1>2, <1>3, <2>1, <2>2 DEF Passed
  <2>4. AppWalk(own, rank)'
    BY <1>1, <1>2, <1>3, <1>4, <1>5, <1>10, <2>1, <2>2, <2>3 DEF AppWalk
  <2>5. AppInv(own, rank)'
    BY <1>1, <1>4, <1>12, <2>4 DEF AppInv, Apart
  <2> QED
    BY <1>1, <1>5, <1>7, <1>8, <1>9, <2>5 DEF Coherent
<1> QED
  BY <1>2, <1>11, <1>12

\* The lists stay as they are and the application returns.
LEMMA AppReturns ==
    ASSUME ChainVarsOK, HandInv, HistoryInv, ReadInv, NEW own, NEW rank, Coherent(own, rank),
           AppStep, Get(app) \/ RemoveMissing(app)
    PROVE  HistoryInv' /\ ReadInv' /\ Coherent(own, rank)'
<1>1. /\ HistoryInv' /\ Apart(listener)
      /\ UNCHANGED <<phase, current, stored, readable, removed>>
  BY AppHistory
<1>2. /\ UNCHANGED <<table, entry, live>> /\ pc'[app] = "idle" /\ pc[app] \in {"walk", "found"}
      /\ DOMAIN did' = Thread
      /\ \E v : did'[app] = <<call[app].op, call[app].key, v>> /\
            (call[app].op = "get" => \/ pc[app] = "found" /\ v = entry[cur[app]].value
                                     \/ pc[app] = "walk" /\ cur[app] = NULL /\ v = NONE)
  <2>1. pc \in [Thread -> PC] /\ app \in Thread /\ DOMAIN did = Thread
    BY TwoThreads DEF ChainVarsOK, PC, ReadInv
  <2> QED
    BY <2>1 DEF Get, RemoveMissing, Return, Effect, memVars
<1>3. PICK w : did'[app] = <<call[app].op, call[app].key, w>> /\
            (call[app].op = "get" => \/ pc[app] = "found" /\ w = entry[cur[app]].value
                                     \/ pc[app] = "walk" /\ cur[app] = NULL /\ w = NONE)
  BY <1>2
<1>4. /\ MemoryInv(own, rank) /\ ListenerInv(own, rank) /\ AppInv(own, rank) /\ ValueInv(own)
      /\ current \in Nat
  BY CurrentNat DEF Coherent
<1>5. AppCall /\ phase \notin {"closing", "closed"}
  BY <1>2, <1>4 DEF AppInv, AppWalk, AppFound, AppCall
<1>6. /\ MemoryInv(own, rank)'
      /\ \A d \in Cell : Leaked(own, d)' <=> Leaked(own, d)
  BY <1>1, <1>2, <1>4, <1>5, MemoryKept DEF Apart
<1>7. pc[listener] = "link" => cur[listener] \in live
  BY <1>4 DEF ListenerInv, ListenerLink
<1>8. ListenerInv(own, rank)'
  BY <1>1, <1>2, <1>4, <1>6, <1>7, ListenerUnaware
<1>9. ValueInv(own)'
  BY <1>1, <1>2, <1>4 DEF ValueInv, NoKey
<1>10. AppInv(own, rank)'
  BY <1>1, <1>2, <1>5 DEF AppInv
<1>11. ASSUME call[app].op = "get" PROVE w \in readable
  <2>1. stored[current] \in readable /\ phase = "publish"
    BY <1>2, <1>5, <1>11 DEF ReadInv, AppCall
  <2>2. CASE pc[app] = "found"
    <3>1. AppFound(own) /\ w = entry[cur[app]].value
      BY <1>3, <1>4, <1>11, <2>2 DEF AppInv
    <3>2. w = stored[current]
      BY <1>4, <2>1, <3>1 DEF AppFound, AppCall, ValueInv
    <3> QED
      BY <2>1, <3>2
  <2>3. CASE pc[app] = "walk"
    <3>1. AppWalk(own, rank) /\ w = NONE /\ cur[app] = NULL
      BY <1>3, <1>4, <1>11, <2>3 DEF AppInv
    <3>2. CASE \A c \in Passed(own, rank, app) : entry[c].key # current
      <4>1. NoKey(own, HashOf[current], current)
        BY <1>5, <3>1, <3>2 DEF Passed, NoKey, AppCall
      <4> QED
        BY <1>4, <2>1, <3>1, <4>1 DEF ValueInv
    <3> QED
      BY <1>11, <3>1, <3>2 DEF AppWalk
  <2> QED
    BY <1>2, <2>2, <2>3
<1>12. ReadInv'
  <2>1. ASSUME NEW k \in Nat, NEW v \in Value \cup {NONE}, did'[app] = <<"get", k, v>>
        PROVE  call[app].op = "get" /\ k = current /\ v = w
    BY <1>3, <1>5, <2>1 DEF AppCall
  <2>2. \A k \in Nat, v \in Value \cup {NONE} :
          did'[app] = <<"get", k, v>> => k <= current' /\ (k = current' => v \in readable')
    BY <1>1, <1>4, <1>11, <2>1
  <2> QED
    BY <1>2, <2>2 DEF ReadInv
<1> QED
  BY <1>1, <1>6, <1>8, <1>9, <1>10, <1>12 DEF Coherent

\* The entry of the current message leaves its list.  No entry is being added
\* to that list: it would be for the same message, which has one.
LEMMA AppUnlinkStep ==
    ASSUME ChainVarsOK, HandInv, HistoryInv, ReadInv, NEW own, NEW rank, Coherent(own, rank),
           AppStep, Unlink(app)
    PROVE  HistoryInv' /\ ReadInv' /\ \E o : Coherent(o, rank)'
<1>1. /\ HistoryInv' /\ Apart(listener)
      /\ UNCHANGED <<phase, current, stored, readable, removed>>
  BY AppHistory
<1>2. /\ pc[app] = "found" /\ call[app].op = "remove" /\ pc'[app] = "free"
      /\ UNCHANGED <<live, cur, prev>> /\ did'[app] = <<"remove", call[app].key, NONE>>
      /\ table' = TableWithout(app) /\ entry' = EntriesWithout(app)
  <2>1. pc \in [Thread -> PC] /\ app \in Thread /\ DOMAIN did = Thread
    BY TwoThreads DEF ChainVarsOK, PC, ReadInv
  <2> QED
    BY <2>1 DEF Unlink, GoTo, Effect
<1>3. /\ MemoryInv(own, rank) /\ ListenerInv(own, rank) /\ AppFound(own) /\ AppInv(own, rank)
      /\ current \in Nat
  BY <1>2, CurrentNat DEF Coherent, AppInv
<1>4. PICK c \in Cell, p \in Pointer, b \in Bucket : c = cur[app] /\ p = prev[app] /\ b = bucket[app]
  BY <1>2, <1>3, QosTypes, TwoThreads DEF AppFound, ChainVarsOK
<1>5. /\ own[c] = b /\ entry[c].key = current /\ b = HashOf[current] /\ current \in Key
      /\ phase = "ready" /\ current \in removed /\ call[app].key = current
      /\ Stands(Behind, entry, own, b, p, c)
  BY <1>2, <1>3, <1>4, QosTypes DEF AppFound, AppCall
<1>6. /\ Lists(Behind, entry, own, rank) /\ KeyInv(own) /\ Listed(own) \subseteq live
      /\ Order(own, rank) /\ own \in [Cell -> 0 .. NBuckets]
  BY <1>3, <1>5 DEF MemoryInv, Lists, Order
<1>7. p = NULL \/ (p \in Cell /\ own[p] = b)
  BY <1>5 DEF Stands
<1>8. ASSUME pc[listener] # "idle", bucket[listener] = b
      PROVE  call[listener].key = current
  <2>1. ListenerCall
    BY <1>3, <1>8 DEF ListenerInv
  <2> QED
    BY <1>5, <1>8, <2>1, SameList, QosTypes DEF ListenerCall
<1>9. pc[listener] = "link" => /\ bucket[listener] # b /\ own[cur[listener]] = NBuckets
                               /\ cur[listener] # c /\ cur[listener] # p
                               /\ cur[listener] \in Cell /\ cur[listener] \in live
  <2> SUFFICES ASSUME pc[listener] = "link"
               PROVE  /\ bucket[listener] # b /\ own[cur[listener]] = NBuckets
                      /\ cur[listener] # c /\ cur[listener] # p
                      /\ cur[listener] \in Cell /\ cur[listener] \in live
    OBVIOUS
  <2>1. ListenerLink(own) /\ cur[listener] \in Cell
    BY <1>3, QosTypes DEF ListenerInv, Holding
  <2>2. bucket[listener] # b
    BY <1>4, <1>5, <1>8, <2>1 DEF ListenerLink, NoKey
  <2> QED
    BY <1>5, <1>7, <2>1, <2>2, QosTypes DEF ListenerLink
<1>10. PICK o : o = OwnOut(own, c)
  OBVIOUS
<1>11. /\ o \in [Cell -> 0 .. NBuckets] /\ o[c] = NBuckets /\ \A d \in Cell : d # c => o[d] = own[d]
  BY <1>6, <1>10, BucketFacts DEF OwnOut
<1>12. /\ \A d \in Cell : o[d] \in Bucket => d # c /\ own[d] = o[d]
       /\ Listed(own) = Listed(o) \cup {c}
  BY <1>4, <1>5, <1>6, <1>11, TakenOut
<1>13. entry' = EntriesOut(entry, p, c)
  BY <1>2, <1>4 DEF EntriesWithout, EntriesOut
<1>14. \A d \in Cell : /\ entry'[d].key = entry[d].key /\ entry'[d].value = entry[d].value
                       /\ d # p => entry'[d] = entry[d]
  BY <1>13, QosTypes DEF EntriesOut, Entry
<1>15. \A a \in Bucket : /\ a # b => table'[a] = table[a]
                         /\ p # NULL => table'[a] = table[a]
  BY <1>2, <1>4, QosTypes DEF TableWithout
<1>16. p = NULL => table'[b] = entry[c].next
  BY <1>2, <1>4, QosTypes DEF TableWithout
<1>17. Behind' = TableOut(Behind, entry, b, p, c)
  <2>1. Behind[b] = table[b] /\ Behind'[b] = table'[b]
    BY <1>1, <1>4, <1>9 DEF Behind, Apart
  <2>2. \A a \in Bucket : a # b => Behind'[a] = Behind[a]
    BY <1>1, <1>9, <1>14, <1>15 DEF Behind, Apart
  <2>3. Behind \in [Bucket -> Pointer] /\ Behind' = [a \in Bucket |-> Behind'[a]]
    BY QosTypes DEF Behind
  <2>4. CASE p = NULL
    <3>1. Behind'[b] = entry[c].next
      BY <1>16, <2>1, <2>4
    <3> QED
      BY <2>2, <2>3, <2>4, <3>1 DEF TableOut
  <2>5. CASE p # NULL
    <3>1. Behind'[b] = Behind[b]
      BY <1>15, <2>1, <2>5
    <3> QED
      BY <2>2, <2>3, <2>5, <3>1 DEF TableOut
  <2> QED
    BY <2>4, <2>5
<1>18. Lists(Behind', entry', o, rank)
  <2>1. Behind \in [Bucket -> Pointer] /\ entry \in [Cell -> Entry]
    BY QosTypes
  <2>2. PICK tb2, en2 : tb2 = Behind' /\ en2 = entry'
    OBVIOUS
  <2>3. tb2 = TableOut(Behind, entry, b, p, c) /\ en2 = EntriesOut(entry, p, c)
    BY <1>13, <1>17, <2>2
  <2>4. Lists(tb2, en2, OwnOut(own, c), rank)
    BY <1>5, <1>6, <2>1, <2>3, Unlinking
  <2> QED
    BY <1>10, <2>2, <2>4
<1>19. \A d \in Cell : Leaked(o, d)' <=> Leaked(own, d)
  <2> SUFFICES ASSUME NEW d \in Cell PROVE Leaked(o, d)' <=> Leaked(own, d)
    OBVIOUS
  <2>1. own[c] # NBuckets /\ (d # c => o[d] = own[d])
    BY <1>5, <1>11, QosTypes
  <2>2. Held(d) <=> pc[listener] = "link" /\ d = cur[listener]
    BY <1>2 DEF Held
  <2>3. Held(d)' <=> d = c \/ (pc[listener] = "link" /\ d = cur[listener])
    BY <1>1, <1>2, <1>4 DEF Held, Apart
  <2>4. CASE d = c
    BY <2>1, <2>3, <2>4 DEF Leaked
  <2>5. CASE d # c
    BY <1>2, <2>1, <2>2, <2>3, <2>5 DEF Leaked
  <2> QED
    BY <2>4, <2>5
<1>20. MemoryInv(o, rank)'
  <2>1. KeyInv(o)'
    BY <1>2, <1>6, <1>12, <1>14, FewerKeys, QosTypes
  <2>2. \A d \in live' : o[d] \in Bucket => entry'[d].key <= current'
    BY <1>1, <1>2, <1>3, <1>12, <1>14, QosTypes DEF MemoryInv
  <2>3. ASSUME NEW d \in Cell, Leaked(o, d)'
        PROVE  entry'[d].next = NULL \/ (entry'[d].next \in Cell /\ Leaked(o, entry[d].next)')
    <3>1. Leaked(own, d)
      BY <1>19, <2>3
    <3>2. entry'[d] = entry[d]
      <4>1. d # p
        BY <1>4, <1>7, <3>1, QosTypes DEF Leaked
      <4> QED
        BY <1>14, <4>1
    <3>3. PICK n : n = entry[d].next
      OBVIOUS
    <3>4. n = NULL \/ (n \in Cell /\ Leaked(own, n))
      BY <1>3, <3>1, <3>3 DEF MemoryInv
    <3>5. n = NULL \/ (n \in Cell /\ Leaked(o, n)')
      BY <1>19, <3>4
    <3> QED
      BY <3>2, <3>3, <3>5 DEF Leaked, Held
  <2>4. Listed(o) \subseteq live'
    BY <1>2, <1>6, <1>12
  <2> QED
    BY <1>18, <2>1, <2>2, <2>3, <2>4 DEF MemoryInv
<1>21. AppInv(o, rank)'
  <2>1. c \in live
    BY <1>6, <1>12
  <2>2. AppFree(o)'
    BY <1>1, <1>2, <1>4, <1>5, <1>11, <2>1 DEF AppFree
  <2> QED
    BY <1>1, <1>2, <1>5, <2>2 DEF AppInv
<1>22. ValueInv(o)'
  BY <1>1, <1>5 DEF ValueInv
<1>23. ReadInv'
  <2>1. \A k, v : did'[app] # <<"get", k, v>>
    BY <1>2
  <2> QED
    BY <1>1, <1>2, <2>1 DEF ReadInv, Apart
<1>24. \A d \in Cell : o[d] = b => entry[d].key # current
  BY <1>4, <1>5, <1>6, <1>12 DEF KeyInv, Listed
<1>25. ListenerInv(o, rank)'
  <2>1. pc[listener] # "idle" => ListenerCall'
    BY <1>1, <1>3 DEF ListenerInv, ListenerCall, Apart
  <2>2. Off(own) /\ cur[listener] \in Cell => Off(o)'
    BY <1>1, <1>2, <1>19 DEF Off, Apart
  <2>3. call[listener].key = current => Off(o)'
    BY <1>1, <1>5 DEF Off, Apart
  <2>4. bucket[listener] \in Bucket
    BY QosTypes
  <2>5. \A k : NoKey(own, bucket[listener], k) => NoKey(o, bucket[listener], k)'
    BY <1>1, <1>12, <1>14, <2>4 DEF NoKey, Apart
  <2>6. pc[listener] = "walk" => ListenerWalk(o, rank)'
    <3> SUFFICES ASSUME pc[listener] = "walk" PROVE ListenerWalk(o, rank)'
      OBVIOUS
    <3>1. ListenerWalk(own, rank)
      BY <1>3 DEF ListenerInv
    <3>2. CASE NoKey(own, bucket[listener], call[listener].key) /\
               (cur[listener] = NULL \/ (cur[listener] \in Cell /\ Off(own)))
      BY <1>1, <1>2, <2>2, <2>5, <3>2 DEF ListenerWalk, Apart, NoKey
    <3>3. CASE /\ cur[listener] \in Cell /\ own[cur[listener]] = bucket[listener]
               /\ \A d \in Passed(own, rank, listener) : entry[d].key # call[listener].key
      <4>1. CASE cur[listener] # c
        <5>1. Passed(o, rank, listener)' \subseteq Passed(own, rank, listener)
          BY <1>1, <1>2, <1>12, <2>4 DEF Passed, Apart
        <5>2. \A d \in Passed(o, rank, listener)' : entry'[d].key # call[listener].key
          BY <1>14, <3>3, <5>1 DEF Passed
        <5>3. o[cur[listener]] = bucket[listener]
          BY <1>11, <3>3, <4>1
        <5> QED
          BY <1>1, <1>2, <3>3, <5>2, <5>3 DEF ListenerWalk, Apart
      <4>2. CASE cur[listener] = c
        <5>1. bucket[listener] = b /\ call[listener].key = current
          BY <1>5, <1>8, <3>3, <4>2
        <5>2. NoKey(o, b, current)'
          BY <1>1, <1>14, <1>24 DEF NoKey
        <5>3. Off(o)'
          BY <2>3, <5>1
        <5> QED
          BY <1>1, <1>2, <1>4, <4>2, <5>1, <5>2, <5>3 DEF ListenerWalk, Apart, NoKey
      <4> QED
        BY <4>1, <4>2
    <3> QED
      BY <3>1, <3>2, <3>3 DEF ListenerWalk
  <2>7. pc[listener] = "found" => ListenerFound(o)'
    <3> SUFFICES ASSUME pc[listener] = "found" PROVE ListenerFound(o)'
      OBVIOUS
    <3>1. ListenerFound(own)
      BY <1>3 DEF ListenerInv
    <3>2. CASE cur[listener] = c
      <4>1. bucket[listener] = b /\ call[listener].key = current
        BY <1>5, <3>1, <3>2, QosTypes, <1>8 DEF ListenerFound
      <4> QED
        BY <1>1, <1>2, <1>4, <1>11, <2>3, <3>2, <4>1 DEF ListenerFound, Apart
    <3>3. CASE cur[listener] # c
      <4>1. cur[listener] \in Cell /\ o[cur[listener]] = own[cur[listener]]
        BY <1>11, <3>1, <3>3 DEF ListenerFound
      <4>2. CASE own[cur[listener]] = NBuckets /\ Off(own)
        BY <1>1, <1>2, <2>2, <4>1, <4>2 DEF ListenerFound, Apart
      <4>3. CASE own[cur[listener]] = bucket[listener] /\
                 entry[cur[listener]].key = call[listener].key
        BY <1>1, <1>2, <1>14, <4>1, <4>3 DEF ListenerFound, Apart
      <4> QED
        BY <3>1, <4>2, <4>3 DEF ListenerFound
    <3> QED
      BY <3>2, <3>3
  <2>8. pc[listener] = "link" => ListenerLink(o)'
    <3> SUFFICES ASSUME pc[listener] = "link" PROVE ListenerLink(o)'
      OBVIOUS
    <3>1. ListenerLink(own)
      BY <1>3 DEF ListenerInv
    <3>2. entry'[cur[listener]] = entry[cur[listener]] /\ o[cur[listener]] = NBuckets
      BY <1>9, <1>11, <1>14
    <3>3. table'[bucket[listener]] = table[bucket[listener]]
      BY <1>9, <1>15, <2>4
    <3>4. NoKey(o, bucket[listener], call[listener].key)'
      BY <1>1, <2>5, <3>1 DEF ListenerLink, Apart, NoKey
    <3> QED
      BY <1>1, <1>2, <1>4, <1>9, <3>1, <3>2, <3>3, <3>4 DEF ListenerLink, Apart, NoKey
  <2> QED
    BY <1>1, <1>3, <2>1, <2>6, <2>7, <2>8 DEF ListenerInv, Apart
<1> QED
  BY <1>1, <1>20, <1>21, <1>22, <1>23, <1>25 DEF Coherent

\* free of an entry that is not leaked.
LEMMA Freeing ==
    ASSUME ChainVarsOK, HandInv, NEW own, NEW rank, MemoryInv(own, rank),
           NEW c \in Cell, ~Leaked(own, c), Release(c, entry), Apart(listener),
           UNCHANGED <<table, current>>,
           \A d \in Cell : d # c => (Held(d)' <=> Held(d)),
           phase' # "closing" => Listed(own) \subseteq live',
           pc[listener] = "link" => cur[listener] # c
    PROVE  /\ MemoryInv(own, rank)' /\ live' = live \ {c}
           /\ \A d \in Cell : d # c => entry'[d] = entry[d]
           /\ \A d \in Cell : entry'[d].next = entry[d].next
           /\ \A d \in Cell : Leaked(own, d)' <=> Leaked(own, d)
<1>1. /\ \A d \in Cell : d # c => entry'[d] = entry[d]
      /\ \A d \in Cell : entry'[d].next = entry[d].next
  BY QosTypes, ReleaseType
<1>2. live' = live \ {c} /\ live \subseteq Cell
  BY QosTypes DEF Release
<1>3. \A d \in Cell : Leaked(own, d)' <=> Leaked(own, d)
  BY <1>2 DEF Leaked
<1>4. Behind' = Behind
  <2>1. pc[listener] = "link" => entry'[cur[listener]] = entry[cur[listener]]
    BY <1>1, QosTypes DEF Holding
  <2> QED
    BY <2>1 DEF Behind, Apart
<1>5. Lists(Behind', entry', own, rank)
  BY <1>1, <1>4, ListsDependOnNext DEF MemoryInv
<1>6. KeyInv(own)'
  BY <1>1, <1>2, FewerKeys DEF MemoryInv
<1>7. \A d \in live' : own[d] \in Bucket => entry'[d].key <= current'
  BY <1>1, <1>2 DEF MemoryInv
<1>8. ASSUME NEW d \in Cell, Leaked(own, d)'
      PROVE  entry'[d].next = NULL \/ (entry'[d].next \in Cell /\ Leaked(own, entry[d].next)')
  <2>1. PICK n : n = entry[d].next /\ n = entry'[d].next
    BY <1>1
  <2>2. n = NULL \/ (n \in Cell /\ Leaked(own, n))
    BY <1>3, <1>8, <2>1 DEF MemoryInv
  <2>3. n = NULL \/ (n \in Cell /\ Leaked(own, n)')
    BY <1>3, <2>2
  <2> QED
    BY <2>1, <2>3 DEF Leaked, Held
<1>9. MemoryInv(own, rank)'
  BY <1>5, <1>6, <1>7, <1>8 DEF MemoryInv
<1> QED
  BY <1>1, <1>2, <1>3, <1>9

LEMMA AppFreeStep ==
    ASSUME ChainVarsOK, HandInv, HistoryInv, ReadInv, NEW own, NEW rank, Coherent(own, rank),
           AppStep, Free(app)
    PROVE  HistoryInv' /\ ReadInv' /\ Coherent(own, rank)'
<1>1. /\ HistoryInv' /\ Apart(listener)
      /\ UNCHANGED <<phase, current, stored, readable, removed>>
  BY AppHistory
<1>2. /\ pc[app] = "free" /\ pc'[app] = "idle" /\ UNCHANGED <<table, did>>
      /\ Release(cur[app], entry)
  <2>1. pc \in [Thread -> PC] /\ app \in Thread
    BY TwoThreads DEF ChainVarsOK, PC
  <2> QED
    BY <2>1 DEF Free, Return
<1>3. /\ MemoryInv(own, rank) /\ ListenerInv(own, rank) /\ AppFree(own)
  BY <1>2 DEF Coherent, AppInv
<1>4. PICK c \in Cell : c = cur[app]
  BY <1>2, QosTypes DEF Holding
<1>5. own[c] = NBuckets /\ phase = "ready" /\ own[c] \notin Bucket
  BY <1>3, <1>4, QosTypes DEF AppFree
<1>6. pc[listener] = "link" => cur[listener] # c /\ cur[listener] \in Cell /\ cur[listener] \in live
  BY <1>2, <1>3, <1>4, QosTypes DEF ListenerInv, ListenerLink, Holding
<1>7. /\ MemoryInv(own, rank)' /\ live' = live \ {c}
      /\ \A d \in Cell : d # c => entry'[d] = entry[d]
      /\ \A d \in Cell : Leaked(own, d)' <=> Leaked(own, d)
  <2>1. ~Leaked(own, c)
    BY <1>2, <1>4 DEF Leaked, Held
  <2>2. \A d \in Cell : d # c => (Held(d)' <=> Held(d))
    BY <1>1, <1>2, <1>4 DEF Held, Apart
  <2>3. Listed(own) \subseteq live'
    BY <1>2, <1>3, <1>4, <1>5 DEF MemoryInv, Listed, Release
  <2> QED
    BY <1>1, <1>2, <1>3, <1>4, <1>6, <2>1, <2>2, <2>3, Freeing
<1>8. ListenerInv(own, rank)'
  <2>1. \A d \in Cell : own[d] \in Bucket => entry'[d].key = entry[d].key
    BY <1>5, <1>7
  <2>2. pc[listener] = "link" => /\ entry'[cur[listener]] = entry[cur[listener]]
                                 /\ cur[listener] \in live'
    BY <1>6, <1>7
  <2> QED
    BY <1>1, <1>2, <1>3, <1>7, <2>1, <2>2, ListenerUnaware
<1>9. AppInv(own, rank)' /\ ValueInv(own)'
  BY <1>1, <1>2, <1>5 DEF AppInv, ValueInv
<1>10. ReadInv'
  BY <1>1, <1>2 DEF ReadInv
<1> QED
  BY <1>1, <1>7, <1>8, <1>9, <1>10 DEF Coherent

LEMMA AppDestroyStep ==
    ASSUME ChainVarsOK, HandInv, HistoryInv, ReadInv, NEW own, NEW rank, Coherent(own, rank),
           AppStep, DestroyEntry(app)
    PROVE  HistoryInv' /\ ReadInv' /\ Coherent(own, rank)'
<1>1. /\ HistoryInv' /\ Apart(listener)
      /\ UNCHANGED <<phase, current, stored, readable, removed>>
  BY AppHistory
<1>2. /\ pc[app] = "sweep" /\ cur[app] # NULL /\ UNCHANGED <<table, pc, call, bucket, did>>
      /\ Release(cur[app], entry) /\ cur'[app] = entry[cur[app]].next
  <2>1. cur \in [Thread -> Pointer] /\ app \in Thread
    BY TwoThreads DEF ChainVarsOK
  <2> QED
    BY <2>1 DEF DestroyEntry
<1>3. /\ MemoryInv(own, rank) /\ AppSweep(own, rank) /\ AppInv(own, rank)
  BY <1>2 DEF Coherent, AppInv
<1>4. PICK c \in Cell, b \in Bucket, n \in Pointer : c = cur[app] /\ b = bucket[app] /\ n = entry[c].next
  BY <1>2, QosTypes
<1>5. own[c] = b /\ phase = "closing" /\ pc[listener] = "idle"
  BY <1>3, <1>4, QosTypes DEF AppSweep, AppInv
<1>6. MemoryInv(own, rank)' /\ live' = live \ {c}
  <2>1. ~Leaked(own, c)
    BY <1>5, QosTypes DEF Leaked
  <2>2. \A d \in Cell : Held(d)' <=> Held(d)
    BY <1>2, <1>5 DEF Held
  <2> QED
    BY <1>1, <1>2, <1>3, <1>4, <1>5, <2>1, <2>2, Freeing
<1>7. /\ n = NULL \/ (n \in Cell /\ own[n] = b)
      /\ {d \in Cell : own[d] = b /\ (n = NULL \/ rank[d] > rank[n])} =
         {d \in Cell : own[d] = b /\ (c = NULL \/ rank[d] > rank[c])} \cup {c}
  BY <1>3, <1>4, <1>5, Further DEF MemoryInv
<1>8. Passed(own, rank, app)' = Passed(own, rank, app) \cup {c}
  BY <1>2, <1>4, <1>7 DEF Passed
<1>9. AppSweep(own, rank)'
  BY <1>1, <1>2, <1>3, <1>4, <1>6, <1>7, <1>8 DEF AppSweep, Listed
<1>10. AppInv(own, rank)' /\ ValueInv(own)' /\ ListenerInv(own, rank)'
  BY <1>1, <1>2, <1>5, <1>9 DEF AppInv, ValueInv, ListenerInv
<1>11. ReadInv'
  BY <1>1, <1>2 DEF ReadInv, AppInv
<1> QED
  BY <1>1, <1>6, <1>10, <1>11 DEF Coherent

LEMMA AppNextBucket ==
    ASSUME ChainVarsOK, HandInv, HistoryInv, ReadInv, NEW own, NEW rank, Coherent(own, rank),
           AppStep, NextBucket(app)
    PROVE  HistoryInv' /\ ReadInv' /\ \E o : Coherent(o, rank)'
<1>1. /\ HistoryInv' /\ Apart(listener)
      /\ UNCHANGED <<phase, current, stored, readable, removed>>
  BY AppHistory
<1>2. pc[app] = "sweep" /\ cur[app] = NULL /\ UNCHANGED <<entry, live>>
  BY DEF NextBucket
<1>3. /\ MemoryInv(own, rank) /\ AppSweep(own, rank) /\ AppInv(own, rank)
  BY <1>2 DEF Coherent, AppInv
<1>4. PICK b \in Bucket : b = bucket[app]
  BY QosTypes
<1>5. /\ phase = "closing" /\ pc[listener] = "idle" /\ pc'[listener] = "idle"
      /\ call[app].op = "destroy" /\ Behind = table
  BY <1>1, <1>3, QosTypes DEF AppSweep, AppInv, Apart
<1>6. /\ table' = [table EXCEPT ![b] = NULL] /\ Behind' = table'
      /\ table' \in [Bucket -> Pointer] /\ table'[b] = NULL
      /\ \A a \in Bucket : a # b => table'[a] = table[a]
  <2>1. table' = [table EXCEPT ![b] = NULL]
    BY <1>4, <1>5 DEF NextBucket
  <2>2. /\ table' \in [Bucket -> Pointer] /\ table'[b] = NULL
        /\ \A a \in Bucket : a # b => table'[a] = table[a]
    BY <1>4, <2>1, QosTypes
  <2> QED
    BY <1>5, <2>1, <2>2 DEF Behind
<1>7. PICK o : o = [d \in Cell |-> IF own[d] = b THEN NBuckets ELSE own[d]]
  OBVIOUS
<1>8. /\ Lists(table', entry, o, rank)
      /\ \A d \in Cell : o[d] \in Bucket <=> own[d] \in Bucket /\ own[d] # b
      /\ \A d \in Cell : o[d] \in Bucket => own[d] = o[d]
  <2>1. own \in [Cell -> 0 .. NBuckets] /\ NBuckets \in 0 .. NBuckets
    BY <1>3, BucketFacts DEF MemoryInv, Lists, Order
  <2>2. /\ o \in [Cell -> 0 .. NBuckets]
        /\ \A d \in Cell : o[d] = IF own[d] = b THEN NBuckets ELSE own[d]
    BY <1>7, <2>1
  <2>3. Lists(table, entry, own, rank) /\ table \in [Bucket -> Pointer]
    BY <1>3, <1>5, QosTypes DEF MemoryInv
  <2>4. /\ table' \in [Bucket -> Pointer] /\ table'[b] = NULL
        /\ \A a \in Bucket : a # b => table'[a] = table[a]
    BY <1>6
  <2> QED
    BY <2>2, <2>3, <2>4, Dropping
<1>9. \A d \in Cell : own[d] = b => d \notin live
  BY <1>2, <1>3, <1>4 DEF AppSweep, Passed, Listed
<1>10. /\ \A d \in Cell : Leaked(o, d)' <=> Leaked(own, d)
       /\ pc'[app] \in {"sweep", "idle"}
  <2>1. pc'[app] \in {"sweep", "idle"}
    <3>1. pc \in [Thread -> PC] /\ app \in Thread
      BY TwoThreads DEF ChainVarsOK, PC
    <3> QED
      BY <1>2, <3>1 DEF NextBucket, Return
  <2>2. \A d \in Cell : ~Held(d) /\ ~Held(d)'
    BY <1>2, <1>5, <2>1 DEF Held
  <2>3. \A d \in Cell : own[d] # b => o[d] = own[d]
    BY <1>7
  <2>4. \A d \in Cell : Leaked(o, d)' <=> Leaked(own, d)
    BY <1>2, <1>9, <2>2, <2>3 DEF Leaked
  <2> QED
    BY <2>1, <2>4
<1>11. MemoryInv(o, rank)'
  <2>1. KeyInv(o)'
    BY <1>2, <1>3, <1>8, FewerKeys, QosTypes DEF MemoryInv
  <2>2. \A d \in live' : o[d] \in Bucket => entry'[d].key <= current'
    BY <1>1, <1>2, <1>3, <1>8, QosTypes DEF MemoryInv
  <2>3. ASSUME NEW d \in Cell, Leaked(o, d)'
        PROVE  entry'[d].next = NULL \/ (entry'[d].next \in Cell /\ Leaked(o, entry[d].next)')
    <3>1. PICK n : n = entry[d].next /\ n = entry'[d].next
      BY <1>2
    <3>2. n = NULL \/ (n \in Cell /\ Leaked(own, n))
      BY <1>3, <1>10, <2>3, <3>1 DEF MemoryInv
    <3>3. n = NULL \/ (n \in Cell /\ Leaked(o, n)')
      BY <1>10, <3>2
    <3> QED
      BY <3>1, <3>3 DEF Leaked, Held
  <2>4. Lists(Behind', entry', o, rank)
    BY <1>2, <1>6, <1>8
  <2> QED
    BY <1>1, <1>5, <2>1, <2>2, <2>3, <2>4 DEF MemoryInv
<1>12. \A d \in Listed(o) : o[d] >= b + 1 /\ d \in live /\ d \in Cell
  <2> SUFFICES ASSUME NEW d \in Listed(o) PROVE o[d] >= b + 1 /\ d \in live /\ d \in Cell
    OBVIOUS
  <2>1. d \in Cell /\ own[d] \in Bucket /\ own[d] # b /\ o[d] = own[d]
    BY <1>8 DEF Listed
  <2>2. own[d] >= b /\ d \in live
    BY <1>3, <1>4, <2>1 DEF AppSweep, Listed, Passed
  <2> QED
    BY <2>1, <2>2, BucketFacts DEF Bucket
<1>13. CASE /\ b + 1 < NBuckets /\ UNCHANGED <<pc, call, did>>
            /\ bucket'[app] = b + 1 /\ cur'[app] = table[b + 1]
  <2>1. PICK a \in Bucket : a = b + 1 /\ a # b
    BY <1>13, BucketFacts DEF Bucket
  <2>2. table'[a] = table[a]
    BY <1>6, <2>1
  <2>3. /\ table'[a] = NULL \/ (table'[a] \in Cell /\ o[table'[a]] = a)
        /\ {c \in Cell : o[c] = a /\ (table'[a] = NULL \/ rank[c] > rank[table'[a]])} = {}
    BY <1>8, AtHead
  <2>4. Passed(o, rank, app)' = {}
    BY <1>13, <2>1, <2>2, <2>3 DEF Passed
  <2>5. AppSweep(o, rank)'
    BY <1>1, <1>2, <1>5, <1>12, <1>13, <2>1, <2>2, <2>3, <2>4 DEF AppSweep, Listed
  <2>6. AppInv(o, rank)' /\ ReadInv'
    BY <1>1, <1>2, <1>5, <1>13, <2>5 DEF AppInv, ReadInv
  <2> QED
    BY <1>1, <1>5, <1>11, <2>6 DEF Coherent, ListenerInv, ValueInv
<1>14. CASE b + 1 = NBuckets /\ did'[app] = <<call[app].op, "done">> /\ pc'[app] = "idle"
  <2>1. Listed(o) = {}
    <3> SUFFICES ASSUME NEW d \in Listed(o) PROVE FALSE
      OBVIOUS
    <3>1. o[d] \in Bucket /\ o[d] >= b + 1
      BY <1>12 DEF Listed
    <3> QED
      BY <1>14, <3>1, BucketFacts DEF Bucket
  <2>2. AppInv(o, rank)'
    BY <1>1, <1>5, <1>14, <2>1 DEF AppInv, Listed
  <2>3. \A k, v : did'[app] # <<"get", k, v>>
    BY <1>5, <1>14
  <2>4. ReadInv'
    BY <1>1, <1>14, <2>3 DEF ReadInv, Apart
  <2> QED
    BY <1>1, <1>5, <1>11, <2>2, <2>4 DEF Coherent, ListenerInv, ValueInv
<1>15. /\ pc \in [Thread -> PC] /\ bucket \in [Thread -> Bucket] /\ app \in Thread
       /\ cur \in [Thread -> Pointer] /\ DOMAIN did = Thread
  BY TwoThreads DEF ChainVarsOK, PC, ReadInv
<1>16. CASE /\ bucket[app] + 1 < NBuckets
            /\ bucket' = [bucket EXCEPT ![app] = @ + 1]
            /\ cur' = [cur EXCEPT ![app] = table[bucket[app] + 1]]
            /\ UNCHANGED <<now, pc, call, did>>
  <2>1. b + 1 < NBuckets /\ bucket'[app] = b + 1 /\ cur'[app] = table[b + 1]
    BY <1>4, <1>15, <1>16
  <2> QED
    BY <1>13, <1>16, <2>1
<1>17. CASE /\ bucket[app] + 1 = NBuckets /\ Return(app)
            /\ did' = [did EXCEPT ![app] = <<call[app].op, "done">>]
  <2>1. b + 1 = NBuckets /\ did'[app] = <<call[app].op, "done">> /\ pc'[app] = "idle"
    BY <1>4, <1>15, <1>17 DEF Return
  <2> QED
    BY <1>14, <2>1
<1> QED
  BY <1>16, <1>17 DEF NextBucket

-----------------------------------------------------------------------------
(* The listener's call. *)

LEMMA AnswerStep ==
    ASSUME ChainVarsOK, HandInv, HistoryInv, ReadInv, NEW own, NEW rank, Coherent(own, rank),
           NEW k \in Key, NEW v \in Value, Answer(k, v)
    PROVE  HistoryInv' /\ ReadInv' /\ Coherent(own, rank)'
<1>1. /\ phase \in {"ready", "publish"} /\ k <= current /\ current - k < NBuckets
      /\ UNCHANGED <<phase, current, stored, removed>>
      /\ readable \subseteq readable' /\ (k = current => v \in readable')
      /\ Begin(listener, "set", k, v)
  BY DEF Answer
<1>2. Apart(app)
  BY <1>1, StepsApart, TwoThreads
<1>3. /\ pc[listener] = "idle" /\ pc'[listener] = "walk" /\ bucket'[listener] = HashOf[k]
      /\ call'[listener] = [op |-> "set", key |-> k, value |-> v]
      /\ cur'[listener] = table[HashOf[k]] /\ UNCHANGED <<table, entry, live>>
  <2>1. /\ pc \in [Thread -> PC] /\ call \in [Thread -> Call] /\ bucket \in [Thread -> Bucket]
        /\ cur \in [Thread -> Pointer] /\ listener \in Thread
    BY TwoThreads DEF ChainVarsOK, PC
  <2> QED
    BY <1>1, <2>1 DEF Begin, Start, memVars
<1>4. /\ call'[listener].op = "set" /\ call'[listener].key = k /\ call'[listener].value = v
  BY <1>3
<1>5. /\ MemoryInv(own, rank) /\ AppInv(own, rank) /\ ValueInv(own) /\ current \in Nat
  BY CurrentNat DEF Coherent
<1>6. HistoryInv'
  BY <1>1 DEF HistoryInv
<1>7. ReadInv'
  BY <1>1, <1>2, <1>4 DEF ReadInv, Apart
<1>8. MemoryInv(own, rank)' /\ Behind' = Behind
  BY <1>1, <1>2, <1>3, <1>5, MemoryKept DEF Apart
<1>9. AppInv(own, rank)'
  BY <1>1, <1>2, <1>3, <1>5, <1>8, AppKept DEF Apart
<1>10. ValueInv(own)'
  BY <1>1, <1>3, <1>5 DEF ValueInv, NoKey
<1>11. PICK b \in Bucket : b = HashOf[k]
  BY QosTypes
<1>12. /\ table[b] = NULL \/ (table[b] \in Cell /\ own[table[b]] = b)
       /\ \A c \in Cell : ~(own[c] = b /\ (table[b] = NULL \/ rank[c] > rank[table[b]]))
  BY <1>3, <1>5, StartsAtHead
<1>13. Passed(own, rank, listener)' = {}
  BY <1>3, <1>11, <1>12 DEF Passed
<1>14. ListenerWalk(own, rank)'
  BY <1>3, <1>11, <1>12, <1>13 DEF ListenerWalk, NoKey
<1>15. ListenerCall'
  BY <1>1, <1>3, <1>4 DEF ListenerCall
<1>16. ListenerInv(own, rank)'
  BY <1>3, <1>14, <1>15 DEF ListenerInv
<1> QED
  BY <1>6, <1>7, <1>8, <1>9, <1>10, <1>16 DEF Coherent

\* A step of the listener in its call, and what was set when it returns.
LEMMA ListenerHistory ==
    ASSUME ChainVarsOK, HandInv, HistoryInv, ReadInv, NEW own, NEW rank, Coherent(own, rank),
           ListenerStep
    PROVE  /\ HistoryInv' /\ ReadInv' /\ Apart(app) /\ CallStep(listener)
           /\ UNCHANGED <<phase, current, readable, removed>>
           /\ pc[listener] # "idle" /\ ListenerCall
           /\ phase \notin {"closing", "closed"}
           /\ stored' = IF pc'[listener] = "idle"
                        THEN [stored EXCEPT ![call[listener].key] = call[listener].value]
                        ELSE stored
<1>1. /\ UNCHANGED <<phase, current, readable, removed>> /\ CallStep(listener)
      /\ stored' = IF pc'[listener] = "idle"
                   THEN [stored EXCEPT ![call[listener].key] = call[listener].value]
                   ELSE stored
  BY DEF ListenerStep
<1>2. Apart(app)
  BY <1>1, StepsApart, TwoThreads
<1>3. pc[listener] # "idle"
  BY <1>1 DEF CallStep, Walk, SetFound, SetNew, SetLink, Get, RemoveMissing, Unlink, Free
<1>4. ListenerCall /\ phase \notin {"closing", "closed"}
  BY <1>3 DEF Coherent, ListenerInv, AppInv
<1>5. /\ call[listener].key \in Key /\ call[listener].value \in Value
      /\ call[listener].key \in Nat /\ current \in Nat /\ Key \subseteq Nat
  BY QosTypes, CurrentNat
<1>6. PICK x, w : x = call[listener].key /\ w = call[listener].value
  OBVIOUS
<1>7. stored \in [Key -> Value \cup {NONE}]
  BY DEF HistoryInv
<1>8. /\ stored' \in [Key -> Value \cup {NONE}]
      /\ \A k \in Key : k # x => stored'[k] = stored[k]
      /\ stored'[x] \in {stored[x], w}
  BY <1>1, <1>5, <1>6, <1>7
<1>9. HistoryInv'
  <2>1. ~(x > current)
    BY <1>4, <1>5, <1>6 DEF ListenerCall
  <2> QED
    BY <1>1, <1>8, <2>1 DEF HistoryInv
<1>10. pc'[listener] # "idle" => call'[listener] = call[listener]
  <2>1. ASSUME Return(listener) PROVE pc'[listener] = "idle"
    BY <2>1, TwoThreads DEF Return, ChainVarsOK
  <2>2. CASE UNCHANGED call
    BY <2>2
  <2> QED
    BY <1>1, <2>1, <2>2 DEF CallStep, Walk, SetFound, SetNew, SetLink, Get, RemoveMissing,
                            Unlink, Free, GoTo
<1>11. ReadInv'
  <2>1. ASSUME pc[app] \in {"walk", "found"}, call[app].op = "get"
        PROVE  /\ stored'[current] \in readable
               /\ pc'[listener] # "idle" /\ call[listener].key = current =>
                     call[listener].value \in readable
    <3>1. /\ stored[current] \in readable /\ (x = current => w \in readable)
      BY <1>3, <1>6, <2>1 DEF ReadInv
    <3>2. AppCall /\ current \in Key
      BY <2>1, QosTypes DEF Coherent, AppInv, AppWalk, AppFound, AppCall
    <3> QED
      BY <1>6, <1>8, <3>1, <3>2
  <2> QED
    BY <1>1, <1>2, <1>10, <2>1 DEF ReadInv, Apart
<1> QED
  BY <1>1, <1>2, <1>3, <1>4, <1>9, <1>11

LEMMA ListenerWalkStep ==
    ASSUME ChainVarsOK, HandInv, HistoryInv, ReadInv, NEW own, NEW rank, Coherent(own, rank),
           ListenerStep, Walk(listener)
    PROVE  HistoryInv' /\ ReadInv' /\ Coherent(own, rank)'
<1>1. /\ HistoryInv' /\ ReadInv' /\ Apart(app) /\ ListenerCall
      /\ UNCHANGED <<phase, current, readable, removed>>
      /\ phase \notin {"closing", "closed"}
      /\ pc'[listener] # "idle" => stored' = stored
  BY ListenerHistory
<1>2. /\ pc[listener] = "walk" /\ cur[listener] # NULL /\ UNCHANGED <<table, entry, live>>
      /\ call'[listener] = call[listener] /\ bucket'[listener] = bucket[listener]
      /\ \/ /\ entry[cur[listener]].key = call[listener].key /\ pc'[listener] = "found"
            /\ cur'[listener] = cur[listener]
         \/ /\ entry[cur[listener]].key # call[listener].key /\ pc'[listener] = "walk"
            /\ cur'[listener] = entry[cur[listener]].next
  <2>1. /\ pc \in [Thread -> PC] /\ call \in [Thread -> Call] /\ listener \in Thread
        /\ bucket \in [Thread -> Bucket] /\ cur \in [Thread -> Pointer]
    BY TwoThreads DEF ChainVarsOK, PC
  <2> QED
    BY <2>1 DEF Walk, GoTo, Match, memVars
<1>3. PICK c \in Cell, b \in Bucket, n \in Pointer, k \in Key :
         c = cur[listener] /\ b = bucket[listener] /\ n = entry[c].next /\ k = call[listener].key
  BY <1>2, QosTypes
<1>4. /\ MemoryInv(own, rank) /\ ListenerWalk(own, rank) /\ AppInv(own, rank) /\ ValueInv(own)
      /\ current \in Nat
  BY <1>2, CurrentNat DEF Coherent, ListenerInv
<1>5. /\ MemoryInv(own, rank)' /\ Behind' = Behind
      /\ \A d \in Cell : Leaked(own, d)' <=> Leaked(own, d)
  BY <1>1, <1>2, <1>4, MemoryKept DEF Apart
<1>6. AppInv(own, rank)'
  BY <1>1, <1>2, <1>4, <1>5, AppKept DEF Apart
<1>7. ValueInv(own)'
  BY <1>1, <1>2, <1>4 DEF ValueInv, NoKey
<1>8. ListenerCall'
  BY <1>1, <1>2 DEF ListenerCall
<1>9. CASE pc'[listener] = "found"
  <2>1. entry[c].key = k /\ cur'[listener] = c
    BY <1>2, <1>3, <1>9
  <2>2. ASSUME own[c] = b PROVE ListenerFound(own)'
    BY <1>2, <1>3, <2>1, <2>2 DEF ListenerFound
  <2>3. ASSUME own[c] # b PROVE ListenerFound(own)'
    <3>1. Off(own) /\ NoKey(own, b, k)
      BY <1>2, <1>3, <1>4, <2>3, QosTypes DEF ListenerWalk
    <3>2. Off(own)'
      BY <1>1, <1>2, <1>3, <1>5, <2>1, <3>1 DEF Off
    <3>3. own[c] \notin Bucket
      <4>1. own[c] \in Bucket => c \in live /\ own[c] = HashOf[k]
        BY <1>1, <1>4, <2>1 DEF MemoryInv, KeyInv, Listed
      <4>2. b = HashOf[k]
        BY <1>1, <1>3 DEF ListenerCall
      <4> QED
        BY <2>3, <4>1, <4>2
    <3>4. own[c] = NBuckets
      <4>1. own[c] \in 0 .. NBuckets
        BY <1>4 DEF MemoryInv, Lists, Order
      <4> QED
        BY <3>3, <4>1, BucketFacts DEF Bucket
    <3> QED
      BY <2>1, <3>2, <3>4 DEF ListenerFound
  <2>4. ListenerInv(own, rank)'
    BY <1>8, <1>9, <2>2, <2>3 DEF ListenerInv
  <2> QED
    BY <1>1, <1>5, <1>6, <1>7, <2>4 DEF Coherent
<1>10. CASE pc'[listener] = "walk"
  <2>1. entry[c].key # k /\ cur'[listener] = n
    BY <1>2, <1>3, <1>10
  <2>2. ASSUME own[c] = b, \A d \in Passed(own, rank, listener) : entry[d].key # k
        PROVE  ListenerWalk(own, rank)'
    <3>1. /\ n = NULL \/ (n \in Cell /\ own[n] = b)
          /\ {d \in Cell : own[d] = b /\ (n = NULL \/ rank[d] > rank[n])} =
             {d \in Cell : own[d] = b /\ (c = NULL \/ rank[d] > rank[c])} \cup {c}
      BY <1>3, <1>4, <2>2, Further DEF MemoryInv
    <3>2. Passed(own, rank, listener)' = Passed(own, rank, listener) \cup {c}
      BY <1>2, <1>3, <2>1, <3>1 DEF Passed
    <3>3. \A d \in Passed(own, rank, listener)' : entry'[d].key # k
      BY <1>2, <2>1, <2>2, <3>2
    <3>4. CASE n = NULL
      <4>1. NoKey(own, b, k)'
        BY <1>2, <1>3, <2>1, <3>3, <3>4 DEF NoKey, Passed
      <4> QED
        BY <1>2, <1>3, <2>1, <3>4, <4>1 DEF ListenerWalk, NoKey
    <3>5. CASE n \in Cell /\ own[n] = b
      BY <1>2, <1>3, <2>1, <3>3, <3>5 DEF ListenerWalk
    <3> QED
      BY <3>1, <3>4, <3>5
  <2>3. ASSUME NoKey(own, b, k), Off(own) PROVE ListenerWalk(own, rank)'
    <3>1. NoKey(own, b, k)'
      BY <1>2, <2>3 DEF NoKey
    <3>2. n \in Cell => Off(own)'
      <4>1. CASE k \in removed
        BY <1>1, <1>2, <1>3, <4>1 DEF Off
      <4>2. CASE Leaked(own, c) /\ (k < current \/ phase # "publish")
        <5>1. n \in Cell => Leaked(own, n)
          BY <1>3, <1>4, <4>2, QosTypes DEF MemoryInv
        <5>2. n \in Cell => Leaked(own, n)'
          BY <1>5, <5>1
        <5>3. n \in Cell => Leaked(own, cur[listener])'
          BY <2>1, <5>2 DEF Leaked, Held
        <5> QED
          BY <1>1, <1>2, <1>3, <4>2, <5>3 DEF Off
      <4> QED
        BY <1>3, <2>3, <4>1, <4>2 DEF Off
    <3> QED
      BY <1>2, <1>3, <2>1, <3>1, <3>2, QosTypes DEF ListenerWalk, NoKey
  <2>4. ListenerWalk(own, rank)'
    BY <1>2, <1>3, <1>4, <2>2, <2>3 DEF ListenerWalk
  <2>5. ListenerInv(own, rank)'
    BY <1>8, <1>10, <2>4 DEF ListenerInv
  <2> QED
    BY <1>1, <1>5, <1>6, <1>7, <1>10, <2>5 DEF Coherent
<1> QED
  BY <1>2, <1>9, <1>10

\* The state of an entry is set.  If its message has been removed meanwhile,
\* or its list forgotten, the entry is of no use to the application.
LEMMA ListenerSetFound ==
    ASSUME ChainVarsOK, HandInv, HistoryInv, ReadInv, NEW own, NEW rank, Coherent(own, rank),
           ListenerStep, SetFound(listener)
    PROVE  HistoryInv' /\ ReadInv' /\ Coherent(own, rank)'
<1>1. /\ HistoryInv' /\ ReadInv' /\ Apart(app) /\ ListenerCall
      /\ UNCHANGED <<phase, current, readable, removed>>
      /\ phase \notin {"closing", "closed"}
      /\ pc'[listener] = "idle" =>
            stored' = [stored EXCEPT ![call[listener].key] = call[listener].value]
  BY ListenerHistory
<1>2. /\ pc[listener] = "found" /\ UNCHANGED <<table, live>> /\ pc'[listener] = "idle"
      /\ entry' = [entry EXCEPT ![cur[listener]].value = call[listener].value,
                                ![cur[listener]].stamp = now]
  <2>1. pc \in [Thread -> PC] /\ listener \in Thread
    BY TwoThreads DEF ChainVarsOK, PC
  <2> QED
    BY <2>1 DEF SetFound, Return
<1>3. PICK c \in Cell, k \in Key, v \in Value :
         c = cur[listener] /\ k = call[listener].key /\ v = call[listener].value
  BY <1>2, QosTypes DEF Holding
<1>4. /\ MemoryInv(own, rank) /\ ListenerFound(own) /\ AppInv(own, rank) /\ ValueInv(own)
  BY <1>2 DEF Coherent, ListenerInv
<1>5. /\ \A d \in Cell : entry'[d].key = entry[d].key /\ entry'[d].next = entry[d].next
      /\ \A d \in Cell : d # c => entry'[d] = entry[d]
      /\ entry'[c].value = v
  <2>1. entry \in [Cell -> Entry]
    BY QosTypes
  <2>2. PICK e1 : e1 = [entry EXCEPT ![c].value = v]
    OBVIOUS
  <2>3. /\ DOMAIN e1 = Cell /\ \A d \in Cell : d # c => e1[d] = entry[d]
        /\ e1[c] = [entry[c] EXCEPT !.value = v]
    BY <2>1, <2>2
  <2>4. /\ e1[c].key = entry[c].key /\ e1[c].next = entry[c].next /\ e1[c].value = v
        /\ DOMAIN e1[c] = {"key", "value", "stamp", "next"}
    BY <2>1, <2>3 DEF Entry
  <2>5. entry' = [e1 EXCEPT ![c].stamp = now]
    BY <1>2, <1>3, <2>2
  <2>6. entry'[c] = [e1[c] EXCEPT !.stamp = now] /\ \A d \in Cell : d # c => entry'[d] = e1[d]
    BY <2>3, <2>5
  <2>7. entry'[c].key = e1[c].key /\ entry'[c].next = e1[c].next /\ entry'[c].value = e1[c].value
    BY <2>4, <2>6
  <2> QED
    BY <2>3, <2>4, <2>6, <2>7
<1>6. Behind' = table /\ Behind = table
  BY <1>2, QosTypes DEF Behind
<1>7. \A d \in Cell : Leaked(own, d)' <=> Leaked(own, d)
  BY <1>1, <1>2 DEF Leaked, Held, Apart
<1>8. MemoryInv(own, rank)'
  <2>1. Lists(Behind', entry', own, rank)
    BY <1>4, <1>5, <1>6, ListsDependOnNext DEF MemoryInv
  <2>2. KeyInv(own)'
    BY <1>2, <1>4, <1>5, FewerKeys, QosTypes DEF MemoryInv
  <2>3. \A d \in live' : own[d] \in Bucket => entry'[d].key <= current'
    BY <1>1, <1>2, <1>4, <1>5, QosTypes DEF MemoryInv
  <2>4. ASSUME NEW d \in Cell, Leaked(own, d)'
        PROVE  entry'[d].next = NULL \/ (entry'[d].next \in Cell /\ Leaked(own, entry[d].next)')
    <3>1. PICK n : n = entry[d].next /\ n = entry'[d].next
      BY <1>5
    <3>2. n = NULL \/ (n \in Cell /\ Leaked(own, n))
      BY <1>4, <1>7, <2>4, <3>1 DEF MemoryInv
    <3>3. n = NULL \/ (n \in Cell /\ Leaked(own, n)')
      BY <1>7, <3>2
    <3> QED
      BY <3>1, <3>3 DEF Leaked, Held
  <2>5. Listed(own) \subseteq live'
    BY <1>1, <1>2, <1>4 DEF MemoryInv
  <2> QED
    BY <2>1, <2>2, <2>3, <2>4, <2>5 DEF MemoryInv
<1>9. AppInv(own, rank)'
  BY <1>1, <1>2, <1>4, <1>5, <1>6, AppKept DEF Apart
<1>10. ListenerInv(own, rank)'
  BY <1>2 DEF ListenerInv
<1>11. ASSUME phase = "publish" PROVE ValueInv(own)'
  <2>1. current \in Key /\ current \notin removed /\ HashOf[current] \in Bucket
    BY <1>11, QosTypes DEF HistoryInv
  <2>2. /\ k = current => stored'[current] = v
        /\ k # current => stored'[current] = stored[current]
    BY <1>1, <1>2, <1>3, <2>1 DEF HistoryInv
  <2>3. CASE own[c] = bucket[listener] /\ entry[c].key = k /\ k = current
    <3>1. HashOf[k] = own[c]
      BY <1>1, <1>3, <2>3 DEF ListenerCall
    <3>2. \A d \in Cell : own[d] = own[c] /\ entry[d].key = k => d = c
      BY <1>1, <1>4, <2>1, <2>3, <3>1 DEF MemoryInv, KeyInv, Listed
    <3> QED
      BY <1>1, <1>5, <2>2, <2>3, <3>1, <3>2 DEF ValueInv, NoKey
  <2>4. CASE own[c] = bucket[listener] /\ entry[c].key = k /\ k # current
    BY <1>1, <1>4, <1>5, <1>11, <2>2, <2>4 DEF ValueInv, NoKey
  <2>5. CASE own[c] = NBuckets /\ Off(own)
    <3>1. k # current
      <4>1. k \in Nat /\ current \in Nat
        BY CurrentNat, QosTypes
      <4> QED
        BY <1>3, <1>11, <2>1, <2>5, <4>1 DEF Off
    <3>2. own[c] # HashOf[current]
      BY <2>1, <2>5, QosTypes
    <3> QED
      BY <1>1, <1>4, <1>5, <1>11, <2>2, <3>1, <3>2 DEF ValueInv, NoKey
  <2> QED
    BY <1>3, <1>4, <2>3, <2>4, <2>5 DEF ListenerFound
<1>12. ValueInv(own)'
  BY <1>1, <1>11 DEF ValueInv
<1> QED
  BY <1>1, <1>8, <1>9, <1>10, <1>12 DEF Coherent

\* The entry of a new message is filled in; no list has changed yet.
LEMMA ListenerSetNew ==
    ASSUME ChainVarsOK, HandInv, HistoryInv, ReadInv, NEW own, NEW rank, Coherent(own, rank),
           ListenerStep, SetNew(listener)
    PROVE  HistoryInv' /\ ReadInv' /\ Coherent(own, rank)'
<1>1. /\ HistoryInv' /\ ReadInv' /\ Apart(app) /\ ListenerCall
      /\ UNCHANGED <<phase, current, readable, removed>>
      /\ phase \notin {"closing", "closed"}
      /\ pc'[listener] # "idle" => stored' = stored
  BY ListenerHistory
<1>2. PICK c \in Cell \ live :
         /\ live' = live \cup {c} /\ entry' = [entry EXCEPT ![c] = NewEntry(listener)]
         /\ cur'[listener] = c
         /\ pc[listener] = "walk" /\ cur[listener] = NULL /\ pc'[listener] = "link"
         /\ call'[listener] = call[listener] /\ bucket'[listener] = bucket[listener]
         /\ table' = table
  <2>1. /\ pc \in [Thread -> PC] /\ cur \in [Thread -> Pointer] /\ listener \in Thread
    BY TwoThreads DEF ChainVarsOK, PC
  <2> QED
    BY <2>1 DEF SetNew, GoTo
<1>3. PICK k \in Key, v \in Value, b \in Bucket :
         k = call[listener].key /\ v = call[listener].value /\ b = bucket[listener]
  BY QosTypes
<1>4. /\ \A d \in Cell : d # c => entry'[d] = entry[d]
      /\ entry'[c].key = k /\ entry'[c].value = v /\ entry'[c].next = table[b]
  <2>1. entry'[c] = NewEntry(listener) /\ \A d \in Cell : d # c => entry'[d] = entry[d]
    BY <1>2, QosTypes
  <2> QED
    BY <1>3, <2>1 DEF NewEntry
<1>5. /\ MemoryInv(own, rank) /\ ListenerWalk(own, rank) /\ AppInv(own, rank) /\ ValueInv(own)
  BY <1>2 DEF Coherent, ListenerInv
<1>6. Listed(own) \subseteq live /\ own[c] = NBuckets
  <2>1. Listed(own) \subseteq live /\ own[c] \in 0 .. NBuckets
    BY <1>1, <1>5 DEF MemoryInv, Lists, Order
  <2> QED
    BY <1>2, <2>1, BucketFacts DEF Listed, Bucket
<1>7. \A d \in Cell : own[d] \in Bucket => entry'[d] = entry[d] /\ d # c
  BY <1>4, <1>6, QosTypes
<1>8. Behind' = table /\ Behind = table
  <2>1. \A a \in Bucket : Behind'[a] = table[a]
    BY <1>2, <1>3, <1>4 DEF Behind
  <2>2. Behind' = [a \in Bucket |-> Behind'[a]]
    BY DEF Behind
  <2> QED
    BY <1>2, <2>1, <2>2, QosTypes
<1>9. \A d \in Cell : Leaked(own, d)' <=> Leaked(own, d)
  <2>1. \A d \in Cell : Held(d)' <=> Held(d) \/ d = c
    BY <1>1, <1>2 DEF Held, Apart
  <2> QED
    BY <1>2, <2>1 DEF Leaked
<1>10. MemoryInv(own, rank)'
  <2>1. Lists(Behind', entry', own, rank)
    BY <1>5, <1>7, <1>8, ListsDependOnNext DEF MemoryInv
  <2>2. KeyInv(own)'
    BY <1>2, <1>5, <1>6, <1>7, QosTypes DEF KeyInv, MemoryInv
  <2>3. \A d \in live' : own[d] \in Bucket => entry'[d].key <= current'
    BY <1>1, <1>2, <1>5, <1>6, <1>7, QosTypes DEF MemoryInv
  <2>4. ASSUME NEW d \in Cell, Leaked(own, d)'
        PROVE  entry'[d].next = NULL \/ (entry'[d].next \in Cell /\ Leaked(own, entry[d].next)')
    <3>1. Leaked(own, d) /\ d # c
      BY <1>2, <1>9, <2>4 DEF Leaked
    <3>2. PICK n : n = entry[d].next /\ n = entry'[d].next
      BY <1>4, <3>1
    <3>3. n = NULL \/ (n \in Cell /\ Leaked(own, n))
      BY <1>5, <3>1, <3>2 DEF MemoryInv
    <3>4. n = NULL \/ (n \in Cell /\ Leaked(own, n)')
      BY <1>9, <3>3
    <3> QED
      BY <3>2, <3>4 DEF Leaked, Held
  <2>5. Listed(own) \subseteq live'
    BY <1>2, <1>6
  <2> QED
    BY <2>1, <2>2, <2>3, <2>4, <2>5 DEF MemoryInv
<1>11. AppInv(own, rank)'
  <2>1. \A d \in Cell : own[d] \in Bucket =>
           /\ entry'[d].key = entry[d].key /\ entry'[d].next = entry[d].next
           /\ d \in live' <=> d \in live
    BY <1>2, <1>7
  <2>2. \A d \in live : d \in live'
    BY <1>2
  <2> QED
    BY <1>1, <1>5, <1>8, <2>1, <2>2, AppKept DEF Apart
<1>12. ValueInv(own)'
  BY <1>1, <1>2, <1>5, <1>7, ValueKept
<1>13. ListenerLink(own)'
  <2>1. NoKey(own, b, k)
    BY <1>2, <1>3, <1>5, QosTypes DEF ListenerWalk
  <2>2. NoKey(own, b, k)'
    BY <1>3, <1>7, <2>1 DEF NoKey
  <2>3. pc'[app] = "free" => cur'[app] # c
    BY <1>1, <1>2, <1>5 DEF Apart, AppInv, AppFree
  <2> QED
    BY <1>2, <1>3, <1>4, <1>6, <2>2, <2>3 DEF ListenerLink, NoKey
<1>14. ListenerInv(own, rank)'
  BY <1>1, <1>2, <1>13 DEF ListenerInv, ListenerCall
<1> QED
  BY <1>1, <1>10, <1>11, <1>12, <1>14 DEF Coherent

\* The new entry becomes the first of its list.  The application is in that
\* list only for the same message, which it has then either not found yet or
\* no need to find.
LEMMA ListenerSetLink ==
    ASSUME ChainVarsOK, HandInv, HistoryInv, ReadInv, NEW own, NEW rank, Coherent(own, rank),
           ListenerStep, SetLink(listener)
    PROVE  HistoryInv' /\ ReadInv' /\ \E o, r : Coherent(o, r)'
<1>1. /\ HistoryInv' /\ ReadInv' /\ Apart(app) /\ ListenerCall
      /\ UNCHANGED <<phase, current, readable, removed>>
      /\ phase \notin {"closing", "closed"}
      /\ pc'[listener] = "idle" =>
            stored' = [stored EXCEPT ![call[listener].key] = call[listener].value]
  BY ListenerHistory
<1>2. /\ pc[listener] = "link" /\ pc'[listener] = "idle" /\ UNCHANGED <<entry, live>>
      /\ table' = [table EXCEPT ![bucket[listener]] = cur[listener]]
  <2>1. pc \in [Thread -> PC] /\ listener \in Thread
    BY TwoThreads DEF ChainVarsOK, PC
  <2> QED
    BY <2>1 DEF SetLink, Return
<1>3. PICK c \in Cell, b \in Bucket, k \in Key, v \in Value :
         /\ c = cur[listener] /\ b = bucket[listener]
         /\ k = call[listener].key /\ v = call[listener].value
  BY <1>2, QosTypes DEF Holding
<1>4. /\ MemoryInv(own, rank) /\ ListenerLink(own) /\ AppInv(own, rank) /\ ValueInv(own)
  BY <1>2 DEF Coherent, ListenerInv
<1>5. /\ c \in live /\ own[c] = NBuckets /\ entry[c].key = k /\ entry[c].value = v
      /\ \A d \in Cell : own[d] = b => entry[d].key # k
      /\ pc[app] = "free" => cur[app] # c
      /\ b = HashOf[k] /\ k <= current /\ current - k < NBuckets
  BY <1>1, <1>3, <1>4 DEF ListenerLink, NoKey, ListenerCall
<1>6. PICK tb, r : /\ tb = [Behind EXCEPT ![b] = c] /\ r \in Nat
                   /\ Lists(tb, entry, [own EXCEPT ![c] = b], [rank EXCEPT ![c] = r])
  <2>1. Behind \in [Bucket -> Pointer] /\ entry[c].next = Behind[b]
    BY <1>2, <1>3, QosTypes DEF Behind
  <2> QED
    BY <1>4, <1>5, <2>1, Linking DEF MemoryInv
<1>7. PICK o, ra : o = [own EXCEPT ![c] = b] /\ ra = [rank EXCEPT ![c] = r]
  OBVIOUS
<1>8. /\ Lists(tb, entry, o, ra) /\ own[c] \notin Bucket
      /\ o[c] = b /\ \A d \in Cell : d # c => o[d] = own[d] /\ ra[d] = rank[d]
      /\ \A d \in Cell : ra[d] \in Nat
  <2>1. own \in [Cell -> 0 .. NBuckets] /\ rank \in [Cell -> Nat]
    BY <1>4 DEF MemoryInv, Lists, Order
  <2> QED
    BY <1>5, <1>6, <1>7, <2>1, QosTypes
<1>9. Behind' = tb /\ \A a \in Bucket : a # b => Behind'[a] = Behind[a]
  <2>1. \A a \in Bucket : a # b => Behind[a] = table[a]
    BY <1>3 DEF Behind
  <2>2. /\ table'[b] = c /\ \A a \in Bucket : a # b => table'[a] = table[a]
    BY <1>2, <1>3, QosTypes
  <2>3. Behind' = [a \in Bucket |-> table'[a]]
    BY <1>2 DEF Behind
  <2>4. /\ DOMAIN tb = Bucket /\ tb[b] = c /\ \A a \in Bucket : a # b => tb[a] = Behind[a]
        /\ tb = [a \in Bucket |-> tb[a]]
    BY <1>6, QosTypes
  <2> QED
    BY <2>1, <2>2, <2>3, <2>4
<1>10. \A d \in Cell : Leaked(o, d)' <=> Leaked(own, d)
  <2> SUFFICES ASSUME NEW d \in Cell PROVE Leaked(o, d)' <=> Leaked(own, d)
    OBVIOUS
  <2>1. CASE d = c
    BY <1>2, <1>3, <1>8, <2>1, QosTypes DEF Leaked, Held
  <2>2. CASE d # c
    <3>1. Held(d)' <=> Held(d)
      BY <1>1, <1>2, <1>3, <2>2 DEF Held, Apart
    <3> QED
      BY <1>2, <1>8, <2>2, <3>1 DEF Leaked
  <2> QED
    BY <2>1, <2>2
<1>11. MemoryInv(o, ra)'
  <2>1. \A d, e \in live' : d # e /\ o[d] \in Bucket /\ o[e] \in Bucket =>
           entry'[d].key # entry'[e].key
    <3> SUFFICES ASSUME NEW d \in live, NEW e \in live, d # e, o[d] \in Bucket, o[e] \in Bucket,
                        entry[d].key = entry[e].key
                 PROVE  FALSE
      BY <1>2
    <3>1. d \in Cell /\ e \in Cell
      BY QosTypes
    <3>2. CASE d # c /\ e # c
      BY <1>4, <1>8, <3>1, <3>2 DEF MemoryInv, KeyInv
    <3>3. CASE d = c
      <4>1. own[e] = HashOf[k] /\ entry[e].key = k
        BY <1>4, <1>5, <1>8, <3>1, <3>3 DEF MemoryInv, KeyInv
      <4> QED
        BY <1>5, <3>1, <4>1
    <3>4. CASE e = c
      <4>1. own[d] = HashOf[k] /\ entry[d].key = k
        BY <1>4, <1>5, <1>8, <3>1, <3>4 DEF MemoryInv, KeyInv
      <4> QED
        BY <1>5, <3>1, <4>1
    <3> QED
      BY <3>2, <3>3, <3>4
  <2>2. \A d \in live' : o[d] \in Bucket =>
           HashOf[entry'[d].key] = o[d] /\ entry'[d].key <= current'
    <3> SUFFICES ASSUME NEW d \in live, o[d] \in Bucket
                 PROVE  HashOf[entry[d].key] = o[d] /\ entry[d].key <= current
      BY <1>1, <1>2
    <3>1. d \in Cell
      BY QosTypes
    <3>2. CASE d = c
      BY <1>5, <1>8, <3>2
    <3>3. CASE d # c
      BY <1>4, <1>8, <3>1, <3>3 DEF MemoryInv, KeyInv
    <3> QED
      BY <3>2, <3>3
  <2>3. KeyInv(o)'
    BY <2>1, <2>2 DEF KeyInv
  <2>4. ASSUME NEW d \in Cell, Leaked(o, d)'
        PROVE  entry'[d].next = NULL \/ (entry'[d].next \in Cell /\ Leaked(o, entry[d].next)')
    <3>1. PICK n : n = entry[d].next /\ n = entry'[d].next
      BY <1>2
    <3>2. n = NULL \/ (n \in Cell /\ Leaked(own, n))
      BY <1>4, <1>10, <2>4, <3>1 DEF MemoryInv
    <3>3. n = NULL \/ (n \in Cell /\ Leaked(o, n)')
      BY <1>10, <3>2
    <3> QED
      BY <3>1, <3>3 DEF Leaked, Held
  <2>5. Listed(o) \subseteq live'
    <3>1. Listed(own) \subseteq live
      BY <1>1, <1>4 DEF MemoryInv
    <3> QED
      BY <1>2, <1>5, <1>8, <3>1 DEF Listed
  <2>6. Lists(Behind', entry', o, ra)
    BY <1>2, <1>8, <1>9
  <2> QED
    BY <2>2, <2>3, <2>4, <2>5, <2>6 DEF MemoryInv
<1>12. PICK x, y, p : x = cur[app] /\ y = bucket[app] /\ p = prev[app] /\ y \in Bucket
  BY QosTypes
<1>13. /\ cur'[app] = x /\ bucket'[app] = y /\ prev'[app] = p /\ pc'[app] = pc[app]
       /\ call'[app] = call[app]
  BY <1>1, <1>12 DEF Apart
<1>14. AppCall => AppCall' /\ (y = b => k = current)
  <2> SUFFICES ASSUME AppCall PROVE AppCall' /\ (y = b => k = current)
    OBVIOUS
  <2>1. AppCall'
    BY <1>1, <1>12, <1>13 DEF AppCall
  <2>2. current \in Key /\ y = HashOf[current]
    BY <1>12, QosTypes DEF AppCall
  <2> QED
    BY <1>5, <2>1, <2>2, SameList
<1>15. \A d \in Cell : own[d] = y => d # c /\ o[d] = y /\ ra[d] = rank[d]
  BY <1>8, <1>12
<1>16. y # b => \A d \in Cell : o[d] = y <=> own[d] = y
  BY <1>8, <1>12
<1>17. y # b /\ Stands(Behind, entry, own, y, p, x) => Stands(Behind', entry', o, y, p, x)
  BY <1>2, <1>9, <1>12, <1>15 DEF Stands
<1>18. (x = NULL \/ (x \in Cell /\ own[x] = y)) /\ y # b =>
          Passed(o, ra, app)' = Passed(own, rank, app)
  BY <1>12, <1>13, <1>15, <1>16, QosTypes DEF Passed
<1>19. ASSUME pc[app] = "walk" PROVE AppWalk(o, ra)'
  <2>1. AppWalk(own, rank) /\ AppCall /\ AppCall'
    BY <1>4, <1>14, <1>19 DEF AppInv, AppWalk
  <2>2. x = NULL \/ (x \in Cell /\ own[x] = y)
    BY <1>12, <2>1 DEF AppWalk
  <2>3. x = NULL \/ (x \in Cell /\ o[x] = y)
    BY <1>15, <2>2
  <2>4. CASE y # b
    <3>1. call[app].op = "get" =>
             NONE \in readable \/ \A d \in Passed(o, ra, app)' : entry[d].key # current
      BY <1>18, <2>1, <2>2, <2>4 DEF AppWalk
    <3>2. call[app].op = "remove" =>
             \/ Stands(Behind', entry', o, y, p, x)
             \/ \A d \in Cell : o[d] = y /\ d \notin Passed(o, ra, app)' => entry[d].key # current
      BY <1>12, <1>16, <1>17, <1>18, <2>1, <2>2, <2>4 DEF AppWalk
    <3> QED
      BY <1>1, <1>2, <1>13, <2>1, <2>3, <3>1, <3>2 DEF AppWalk
  <2>5. CASE y = b
    <3>1. k = current
      BY <1>14, <2>1, <2>5
    <3>2. call[app].op = "get" => NONE \in readable
      <4> SUFFICES ASSUME call[app].op = "get" PROVE NONE \in readable
        OBVIOUS
      <4>1. phase = "publish" /\ stored[current] \in readable
        BY <1>19, <2>1 DEF AppCall, ReadInv
      <4>2. NoKey(own, HashOf[current], current)
        BY <1>5, <3>1 DEF NoKey
      <4> QED
        BY <1>4, <4>1, <4>2 DEF ValueInv
    <3>3. c \in Passed(o, ra, app)'
      <4>1. HeadOf(o, ra, b, c) /\ Order(o, ra)
        <5>1. tb[b] = c
          BY <1>6, QosTypes
        <5> QED
          BY <1>8, <5>1 DEF Lists
      <4>2. x \in Cell => x # c /\ o[x] = b /\ ra[x] # ra[c]
        BY <1>8, <1>15, <2>2, <2>5, <4>1, QosTypes DEF Order
      <4>3. x \in Cell => ra[c] > ra[x]
        <5>1. x \in Cell => ra[x] <= ra[c] /\ ra[x] \in Nat /\ ra[c] \in Nat
          BY <1>8, <4>1, <4>2, QosTypes DEF HeadOf
        <5> QED
          BY <4>2, <5>1
      <4> QED
        BY <1>8, <1>13, <2>2, <2>5, <4>3 DEF Passed
    <3>4. \A d \in Cell : o[d] = y /\ d \notin Passed(o, ra, app)' => entry[d].key # current
      BY <1>5, <1>8, <2>5, <3>1, <3>3
    <3> QED
      BY <1>1, <1>2, <1>13, <2>1, <2>3, <3>2, <3>4 DEF AppWalk
  <2> QED
    BY <2>4, <2>5
<1>20. ASSUME pc[app] = "found" PROVE AppFound(o)'
  <2>1. AppFound(own) /\ AppCall /\ AppCall'
    BY <1>4, <1>14, <1>20 DEF AppInv, AppFound
  <2>2. x \in Cell /\ own[x] = y /\ entry[x].key = current
    BY <1>12, <2>1 DEF AppFound
  <2>3. y # b
    BY <1>5, <1>14, <2>1, <2>2
  <2>4. call[app].op = "remove" => Stands(Behind', entry', o, y, p, x)
    BY <1>12, <1>17, <2>1, <2>3 DEF AppFound
  <2> QED
    BY <1>1, <1>2, <1>13, <1>15, <2>1, <2>2, <2>4 DEF AppFound
<1>21. ASSUME pc[app] = "free" PROVE AppFree(o)'
  <2>1. AppFree(own) /\ x \in Cell /\ x # c
    BY <1>4, <1>5, <1>12, <1>21, QosTypes DEF AppInv, Holding
  <2> QED
    BY <1>1, <1>2, <1>8, <1>12, <1>13, <2>1 DEF AppFree
<1>22. AppInv(o, ra)'
  BY <1>1, <1>2, <1>4, <1>13, <1>19, <1>20, <1>21 DEF AppInv, AppSweep
<1>23. ListenerInv(o, ra)'
  BY <1>2 DEF ListenerInv
<1>24. ASSUME phase = "publish" PROVE ValueInv(o)'
  <2>1. current \in Key /\ HashOf[current] \in Bucket
    BY <1>24, QosTypes DEF HistoryInv
  <2>2. /\ k = current => stored'[current] = v
        /\ k # current => stored'[current] = stored[current]
    BY <1>1, <1>2, <1>3, <2>1 DEF HistoryInv
  <2>3. CASE k = current
    BY <1>1, <1>2, <1>5, <1>8, <2>2, <2>3 DEF ValueInv, NoKey
  <2>4. CASE k # current
    <3>1. \A d \in Cell : own[d] = HashOf[current] => o[d] = HashOf[current]
      BY <1>8, <2>1
    <3>2. NoKey(o, HashOf[current], current) => NoKey(own, HashOf[current], current)
      BY <3>1 DEF NoKey
    <3>3. \A d \in Cell : o[d] = HashOf[current] /\ entry[d].key = current =>
             own[d] = HashOf[current]
      BY <1>5, <1>8, <2>4
    <3> QED
      BY <1>1, <1>2, <1>4, <1>24, <2>2, <2>4, <3>2, <3>3 DEF ValueInv, NoKey
  <2> QED
    BY <2>3, <2>4
<1>25. ValueInv(o)'
  BY <1>1, <1>24 DEF ValueInv
<1>26. Coherent(o, ra)'
  BY <1>11, <1>22, <1>23, <1>25 DEF Coherent
<1> QED
  BY <1>1, <1>26

-----------------------------------------------------------------------------
(* The invariant of the client's table. *)

LEMMA QosInitInv == QosInit => QosInv
<1> SUFFICES ASSUME QosInit PROVE QosInv
  OBVIOUS
<1>1. ChainInit /\ phase = "ready" /\ current = 0 /\ stored = [k \in Key |-> NONE] /\ removed = {}
  BY DEF QosInit
<1>2. ChainVarsOK /\ HandInv
  BY <1>1, ChainInitType
<1>3. /\ table = [b \in Bucket |-> NULL] /\ live = {} /\ pc[app] = "idle" /\ pc[listener] = "idle"
      /\ did = [t \in Thread |-> <<"init">>] /\ did[app] = <<"init">>
  BY <1>1, TwoThreads DEF ChainInit
<1>4. HistoryInv
  BY <1>1, Qos2Assumption DEF HistoryInv
<1>5. ReadInv
  BY <1>3 DEF ReadInv
<1> DEFINE own == [c \in Cell |-> NBuckets]
           rank == [c \in Cell |-> 0]
<1>6. NBuckets \notin Bucket /\ NBuckets \in 0 .. NBuckets /\ \A b \in Bucket : b # NBuckets
  BY BucketFacts DEF Bucket
<1>7. own \in [Cell -> 0 .. NBuckets] /\ rank \in [Cell -> Nat] /\ \A c \in Cell : own[c] = NBuckets
  BY <1>6
<1> HIDE DEF own, rank
<1>8. \A b \in Bucket : HeadOf(own, rank, b, table[b])
  BY <1>3, <1>6, <1>7 DEF HeadOf
<1>9. Lists(Behind, entry, own, rank)
  <2>1. Lists(table, entry, own, rank)
    BY <1>6, <1>7, <1>8 DEF Lists, Order
  <2> QED
    BY <1>2, <1>3, <2>1, QosTypes
<1>10. MemoryInv(own, rank)
  BY <1>3, <1>6, <1>7, <1>9 DEF MemoryInv, KeyInv, Leaked, Listed
<1>11. AppInv(own, rank) /\ ListenerInv(own, rank) /\ ValueInv(own)
  BY <1>1, <1>3 DEF AppInv, ListenerInv, ValueInv
<1>12. Coherent(own, rank)
  BY <1>10, <1>11 DEF Coherent
<1> QED
  BY <1>2, <1>4, <1>5, <1>12 DEF QosInv

LEMMA QosTypeStep ==
    ASSUME ChainVarsOK, HandInv, HistoryInv, [QosNext]_qosVars
    PROVE  ChainVarsOK' /\ HandInv'
<1>1. CASE [ChainNext]_chainVars
  BY <1>1, ChainTypeStep
<1>2. CASE SetQos
  <2>1. table' = [b \in Bucket |-> NULL] /\ UNCHANGED <<entry, live, now, pc, call, bucket, cur, prev>>
    BY <1>2 DEF SetQos, InitTable, ptrVars
  <2>2. table' \in [Bucket -> Pointer]
    BY <2>1, QosTypes
  <2> QED
    BY <2>1, <2>2 DEF ChainVarsOK, HandInv
<1>3. CASE Publish \/ GiveUp \/ CloseOnly \/ Closed \/ UNCHANGED qosVars
  BY <1>1, <1>3 DEF Publish, GiveUp, CloseOnly, Closed, qosVars
<1>4. CASE GetState \/ Remove
  <2>1. current \in Key /\ "COMPLETED" \in Value
    BY <1>4, Qos2Assumption DEF GetState, Remove, HistoryInv
  <2>2. \E op \in {"set", "get", "remove"}, k \in Key, v \in Value : Begin(app, op, k, v)
    BY <1>4, <2>1 DEF GetState, Remove
  <2> QED
    BY <1>1, <2>2, TwoThreads DEF ChainNext
<1>5. CASE Close
  BY <1>1, <1>5, TwoThreads DEF Close, ChainNext
<1>6. CASE AppStep \/ ListenerStep
  BY <1>1, <1>6, TwoThreads DEF AppStep, ListenerStep, ChainNext
<1>7. ASSUME NEW k \in Key, NEW v \in Value, Answer(k, v)
      PROVE  ChainVarsOK' /\ HandInv'
  BY <1>1, <1>7, TwoThreads DEF Answer, ChainNext
<1> QED
  BY <1>2, <1>3, <1>4, <1>5, <1>6, <1>7 DEF QosNext, AppNext, ListenerNext

LEMMA AppStepInv ==
    ASSUME ChainVarsOK, HandInv, HistoryInv, ReadInv, NEW own, NEW rank, Coherent(own, rank),
           AppStep
    PROVE  HistoryInv' /\ ReadInv' /\ \E o, r : Coherent(o, r)'
<1>1. CallStep(app) \/ SweepStep(app)
  BY DEF AppStep
<1>2. ~SetFound(app) /\ ~SetNew(app) /\ ~SetLink(app)
  <2>1. pc[app] \in {"walk", "found"} => call[app].op # "set"
    BY DEF Coherent, AppInv, AppWalk, AppFound, AppCall
  <2>2. pc[app] # "link"
    BY DEF Coherent, AppInv
  <2> QED
    BY <2>1, <2>2 DEF SetFound, SetNew, SetLink
<1>3. ~CleanEntry(app)
  BY DEF CleanEntry, Coherent, AppInv, AppSweep
<1>4. CASE Walk(app)
  BY <1>4, AppWalkStep
<1>5. CASE Get(app) \/ RemoveMissing(app)
  BY <1>5, AppReturns
<1>6. CASE Unlink(app)
  BY <1>6, AppUnlinkStep
<1>7. CASE Free(app)
  BY <1>7, AppFreeStep
<1>8. CASE DestroyEntry(app)
  BY <1>8, AppDestroyStep
<1>9. CASE NextBucket(app)
  BY <1>9, AppNextBucket
<1> QED
  BY <1>1, <1>2, <1>3, <1>4, <1>5, <1>6, <1>7, <1>8, <1>9 DEF CallStep, SweepStep

LEMMA ListenerStepInv ==
    ASSUME ChainVarsOK, HandInv, HistoryInv, ReadInv, NEW own, NEW rank, Coherent(own, rank),
           ListenerStep
    PROVE  HistoryInv' /\ ReadInv' /\ \E o, r : Coherent(o, r)'
<1>1. CallStep(listener) /\ call[listener].op = "set" /\ pc[listener] # "free"
  BY ListenerHistory DEF ListenerCall, Coherent, ListenerInv
<1>2. ~Get(listener) /\ ~RemoveMissing(listener) /\ ~Unlink(listener) /\ ~Free(listener)
  BY <1>1 DEF Get, RemoveMissing, Unlink, Free
<1>3. CASE Walk(listener)
  BY <1>3, ListenerWalkStep
<1>4. CASE SetFound(listener)
  BY <1>4, ListenerSetFound
<1>5. CASE SetNew(listener)
  BY <1>5, ListenerSetNew
<1>6. CASE SetLink(listener)
  BY <1>6, ListenerSetLink
<1> QED
  BY <1>1, <1>2, <1>3, <1>4, <1>5, <1>6 DEF CallStep

LEMMA QosStepInv == QosInv /\ [QosNext]_qosVars => QosInv'
<1> SUFFICES ASSUME QosInv, [QosNext]_qosVars PROVE QosInv'
  OBVIOUS
<1>1. ChainVarsOK /\ HandInv /\ HistoryInv /\ ReadInv
  BY DEF QosInv
<1>2. PICK own, rank : Coherent(own, rank)
  BY DEF QosInv
<1>3. ChainVarsOK' /\ HandInv'
  BY <1>1, QosTypeStep
<1>4. HistoryInv' /\ ReadInv' /\ \E o, r : Coherent(o, r)'
  <2>1. CASE SetQos
    BY <1>1, <1>2, <2>1, SetQosStep
  <2>2. CASE Publish
    BY <1>1, <1>2, <2>2, PublishStep
  <2>3. CASE GetState \/ Remove
    BY <1>1, <1>2, <2>3, AppBegins
  <2>4. CASE GiveUp \/ CloseOnly \/ Closed
    BY <1>1, <1>2, <2>4, LeaveStep
  <2>5. CASE Close
    BY <1>1, <1>2, <2>5, CloseStep
  <2>6. CASE AppStep
    BY <1>1, <1>2, <2>6, AppStepInv
  <2>7. CASE ListenerStep
    BY <1>1, <1>2, <2>7, ListenerStepInv
  <2>8. ASSUME NEW k \in Key, NEW v \in Value, Answer(k, v)
        PROVE  HistoryInv' /\ ReadInv' /\ \E o, r : Coherent(o, r)'
    BY <1>1, <1>2, <2>8, AnswerStep
  <2>9. CASE UNCHANGED qosVars
    <3>1. /\ UNCHANGED <<table, entry, live, now, pc, call, bucket, cur, prev, did>>
          /\ UNCHANGED <<phase, current, stored, readable, removed>>
      BY <2>9 DEF qosVars, chainVars, memVars, ptrVars, historyVars
    <3>2. HistoryInv' /\ ReadInv'
      BY <1>1, <3>1 DEF HistoryInv, ReadInv
    <3>3. MemoryInv(own, rank)'
      BY <1>2, <3>1 DEF Coherent, MemoryInv, Behind, KeyInv, Leaked, Held
    <3>4. AppInv(own, rank)'
      BY <1>2, <3>1 DEF Coherent, AppInv, AppWalk, AppCall, AppFound, AppFree, AppSweep, Passed,
                        Behind, Stands
    <3>5. ListenerInv(own, rank)'
      BY <1>2, <3>1 DEF Coherent, ListenerInv, ListenerCall, ListenerWalk, ListenerFound,
                        ListenerLink, Passed, Off, NoKey, Leaked, Held
    <3>6. ValueInv(own)'
      BY <1>2, <3>1 DEF Coherent, ValueInv, NoKey
    <3>7. Coherent(own, rank)'
      BY <3>3, <3>4, <3>5, <3>6 DEF Coherent
    <3> QED
      BY <3>2, <3>7
  <2> QED
    BY <2>1, <2>2, <2>3, <2>4, <2>5, <2>6, <2>7, <2>8, <2>9 DEF QosNext, AppNext, ListenerNext
<1> QED
  BY <1>1, <1>3, <1>4 DEF QosInv

LEMMA QosInvariant == QosSpec => []QosInv
  BY QosInitInv, QosStepInv, PTL DEF QosSpec

\* What the application and the listener can reach through table is in use.
LEMMA TableInUse ==
    ASSUME ChainVarsOK, HandInv, NEW own, NEW rank, MemoryInv(own, rank), ListenerInv(own, rank)
    PROVE  InTable \subseteq Listed(own)
<1>1. CASE pc[listener] = "link" /\ table[bucket[listener]] = NULL
  <2>1. PICK b \in Bucket : b = bucket[listener]
    BY QosTypes
  <2>2. PICK B, o :
           /\ B \in SUBSET Bucket /\ B = Bucket \ {b}
           /\ o = [d \in Cell |-> IF own[d] \in B THEN own[d] ELSE NBuckets]
    OBVIOUS
  <2>3. /\ \A a \in B : table[a] = Behind[a]
        /\ \A a \in Bucket : a \notin B => table[a] = NULL
    BY <1>1, <2>1, <2>2 DEF Behind
  <2>4. /\ Lists(table, entry, o, rank)
        /\ \A d \in Cell : o[d] \in Bucket => o[d] = own[d] /\ own[d] \in B
    BY <2>2, <2>3, Forgetting DEF MemoryInv
  <2>5. \A a \in Bucket : InList(a) = {c \in Cell : o[c] = a}
    BY <2>4, NthLists
  <2> QED
    BY <2>4, <2>5 DEF InTable, Listed
<1>2. CASE ~(pc[listener] = "link" /\ table[bucket[listener]] = NULL)
  <2>1. \A b \in Bucket : Behind[b] = table[b]
    BY <1>2 DEF Behind, ListenerInv, ListenerLink
  <2>2. Behind = table
    BY <2>1, QosTypes
  <2>3. \A a \in Bucket : InList(a) = {c \in Cell : own[c] = a}
    BY <2>2, NthLists DEF MemoryInv
  <2> QED
    BY <2>3 DEF InTable, Listed
<1> QED
  BY <1>1, <1>2

LEMMA NoneFreedInUse == QosInv => NoFreedEntryInUse
<1> SUFFICES ASSUME QosInv PROVE NoFreedEntryInUse
  OBVIOUS
<1>1. ChainVarsOK /\ HandInv
  BY DEF QosInv
<1>2. PICK own, rank : Coherent(own, rank)
  BY DEF QosInv
<1>3. MemoryInv(own, rank) /\ AppInv(own, rank) /\ ListenerInv(own, rank)
  BY <1>2 DEF Coherent
<1>4. phase # "closing" => Listed(own) \subseteq live
  BY <1>3 DEF MemoryInv
<1>5. phase # "closing" => InTable \subseteq live
  BY <1>1, <1>3, <1>4, TableInUse
<1>6. ASSUME pc[app] # "idle" PROVE cur[app] \in live \cup {NULL}
  <2>1. CASE pc[app] \in {"walk", "found"}
    <3>1. /\ phase # "closing"
          /\ cur[app] = NULL \/ (cur[app] \in Cell /\ own[cur[app]] = bucket[app])
      BY <1>3, <2>1 DEF AppInv, AppWalk, AppFound, AppCall
    <3> QED
      BY <1>1, <1>4, <3>1, QosTypes DEF Listed
  <2>2. CASE pc[app] = "free"
    BY <1>3, <2>2 DEF AppInv, AppFree
  <2>3. CASE pc[app] = "sweep"
    <3>1. /\ cur[app] = NULL \/ (cur[app] \in Cell /\ own[cur[app]] = bucket[app])
          /\ \A c \in Listed(own) : c \in live <=> c \notin Passed(own, rank, app)
      BY <1>3, <2>3 DEF AppInv, AppSweep
    <3>2. rank \in [Cell -> Nat]
      BY <1>3 DEF MemoryInv, Lists, Order
    <3>3. cur[app] # NULL => cur[app] \in Listed(own) /\ cur[app] \notin Passed(own, rank, app)
      BY <1>1, <3>1, <3>2, QosTypes DEF Listed, Passed
    <3> QED
      BY <3>1, <3>3
  <2> QED
    BY <1>1, <1>3, <1>6, <2>1, <2>2, <2>3, QosTypes DEF PC, AppInv
<1>7. ASSUME pc[listener] # "idle", cur[listener] \notin live \cup {NULL}
      PROVE  call[listener].key \in removed
  <2>1. phase # "closing"
    BY <1>3, <1>7 DEF AppInv
  <2>2. ~(cur[listener] \in Cell /\ own[cur[listener]] = bucket[listener])
    BY <1>1, <1>4, <1>7, <2>1, QosTypes DEF Listed
  <2>3. Off(own)
    BY <1>3, <1>7, <2>2 DEF ListenerInv, ListenerWalk, ListenerFound, ListenerLink
  <2> QED
    BY <1>7, <2>3 DEF Off, Leaked
<1> QED
  BY <1>5, <1>6, <1>7 DEF NoFreedEntryInUse

\* The application and the listener change the lists of qos2_table.c without a
\* lock, and qos2_table_init and qos2_table_destroy drop them: still no list
\* holds a freed entry and the application stands on none, for any number of
\* messages, lists and entries.  The listener stands on one only if the
\* application has removed the message that the listener has an answer for.
THEOREM NoFreedEntryInUseHolds == QosSpec => []NoFreedEntryInUse
  BY QosInvariant, NoneFreedInUse, PTL

LEMMA ReadsAreCurrent == QosInv => LookupIsCurrent
<1> SUFFICES ASSUME QosInv, NEW v \in Value \cup {NONE}, did[app] = <<"get", current, v>>
             PROVE  v \in readable
  BY DEF LookupIsCurrent
<1>1. ReadInv /\ current \in Nat
  BY CurrentNat DEF QosInv
<1> QED
  BY <1>1 DEF ReadInv

\* Every lookup of qos2_table_get_state by slimmq_publish returns the state that
\* qos2_table_set was last called with for that message, or one that the listener
\* was setting meanwhile, although neither takes a lock.
THEOREM LookupIsCurrentHolds == QosSpec => []LookupIsCurrent
  BY QosInvariant, ReadsAreCurrent, PTL
=============================================================================
