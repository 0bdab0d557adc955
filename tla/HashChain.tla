----------------------------- MODULE HashChain ------------------------------
(***************************************************************************)
(* The two hash tables of SlimMQ, the broker's pending_table.c and the     *)
(* client's qos2_table.c.  They are one program over different keys: an    *)
(* array of singly linked lists of calloc'ed entries, without a lock.      *)
(* A step is one turn of a loop, which reads the key and next of an entry, *)
(* or one change of the lists.                                             *)
(*                                                                         *)
(* What a thread finds in an entry that has been freed is undefined: free  *)
(* leaves any key and value behind.  Its next pointer survives, because    *)
(* the allocator keeps its own data in the first 16 of the 24 bytes.  A    *)
(* write of a thread into a freed entry damages that data; what becomes of *)
(* later allocations then is not modelled.  Assumed: calloc, whose result  *)
(* the code does not check, does not fail.                                 *)
(***************************************************************************)
EXTENDS Integers, FiniteSets

CONSTANTS
    Thread,        \* threads that use the table
    Key,           \* (address, msg_id) for the broker, msg_id for a client
    NBuckets,      \* PENDING_TABLE_SIZE or QOS2_TABLE_SIZE
    HashOf,        \* hash_key or hash_msg_id, modulo NBuckets
    Value,         \* the states kept for a key
    NONE,          \* what a lookup of an unknown key says
    Cell,          \* addresses of entries
    NULL,
    Garbage,       \* keys and values that a freed entry may show
    MaxTime,       \* bound on the clock
    Expiration     \* expiration_sec of the cleanup

Bucket == 0 .. (NBuckets - 1)

ASSUME ChainAssumption ==
    /\ NBuckets \in Nat \ {0}
    /\ HashOf \in [Key -> Bucket]
    /\ NONE \notin Value
    /\ IsFiniteSet(Cell) /\ NULL \notin Cell
    /\ Garbage \subseteq [key : Key, value : Value] /\ Garbage # {}
    /\ MaxTime \in Nat /\ Expiration \in Nat

VARIABLES
    table,         \* table[idx]: the first entry of each list
    entry,         \* the entries, by address
    live,          \* addresses that are allocated
    now,           \* time(NULL)
    pc,            \* where each thread is in its call
    call,          \* the call it is in
    bucket,        \* its local idx, or the loop index i
    cur, prev,     \* its pointers of these names; cur is also new_entry
    did            \* its last call that took effect, and the result

memVars == <<table, entry, live>>
ptrVars == <<bucket, cur, prev>>
chainVars == <<memVars, now, pc, call, ptrVars, did>>

Pointer == Cell \cup {NULL}
Entry == [key : Key, value : Value, stamp : 0 .. MaxTime, next : Pointer]
Call == [op : {"set", "get", "remove", "cleanup", "destroy"}, key : Key, value : Value]
NoCall == CHOOSE c \in Call : c.op = "get"

ChainVarsOK ==
    /\ table \in [Bucket -> Pointer]
    /\ entry \in [Cell -> Entry]
    /\ live \subseteq Cell
    /\ now \in 0 .. MaxTime
    /\ pc \in [Thread -> {"idle", "walk", "found", "link", "free", "sweep"}]
    /\ call \in [Thread -> Call]
    /\ bucket \in [Thread -> Bucket]
    /\ cur \in [Thread -> Pointer] /\ prev \in [Thread -> Pointer]

\* An entry that a call is about to read, write, link or free without another
\* look at its pointer is one.
Holding == {"found", "link", "free"}
HandInv == \A t \in Thread : pc[t] \in Holding => cur[t] \in Cell

\* The types of the memory and of the local variables.  No call of any thread
\* goes through a null pointer: where the code does not test cur first, it is
\* an entry.
ChainTypeOK == ChainVarsOK /\ HandInv

\* pending_table_init: the lists are empty.  What an address holds before it
\* is allocated does not matter.
ChainInit ==
    /\ table = [b \in Bucket |-> NULL]
    /\ \E g \in Garbage : entry = [c \in Cell |->
          [key |-> g.key, value |-> g.value, stamp |-> 0, next |-> NULL]]
    /\ live = {}
    /\ now = 0
    /\ pc = [t \in Thread |-> "idle"]
    /\ call = [t \in Thread |-> NoCall]
    /\ bucket = [t \in Thread |-> 0]
    /\ cur = [t \in Thread |-> NULL]
    /\ prev = [t \in Thread |-> NULL]
    /\ did = [t \in Thread |-> <<"init">>]

-----------------------------------------------------------------------------
(* A call, and the walk along the list of its key. *)

\* The call begins at the head of list b.
Start(t, c, b, l) ==
    /\ pc[t] = "idle"
    /\ pc' = [pc EXCEPT ![t] = l]
    /\ call' = [call EXCEPT ![t] = c]
    /\ bucket' = [bucket EXCEPT ![t] = b]
    /\ cur' = [cur EXCEPT ![t] = table[b]]
    /\ prev' = [prev EXCEPT ![t] = NULL]
    /\ did' = [did EXCEPT ![t] = <<c.op>>]
    /\ UNCHANGED <<memVars, now>>

Begin(t, op, k, v) ==
    Start(t, [op |-> op, key |-> k, value |-> v], HashOf[k], "walk")

\* The call goes on at l.
GoTo(t, l) ==
    /\ pc' = [pc EXCEPT ![t] = l]
    /\ UNCHANGED <<now, call, bucket>>

\* The call returns; its local variables are gone.
Return(t) ==
    /\ pc' = [pc EXCEPT ![t] = "idle"]
    /\ call' = [call EXCEPT ![t] = NoCall]
    /\ bucket' = [bucket EXCEPT ![t] = 0]
    /\ cur' = [cur EXCEPT ![t] = NULL]
    /\ prev' = [prev EXCEPT ![t] = NULL]
    /\ UNCHANGED now

\* The call has taken effect, with this result.
Effect(t, result) ==
    did' = [did EXCEPT ![t] = <<call[t].op, call[t].key, result>>]

\* Mutant: the first entry of the list is taken.
MatchAny(t) == entry[cur[t]].key \in Key

\* Is the entry that the walk has reached the one of the call's key?
Match(t) == entry[cur[t]].key = call[t].key

Walk(t) ==
    /\ pc[t] = "walk" /\ cur[t] # NULL
    /\ \/ Match(t) /\ GoTo(t, "found") /\ UNCHANGED <<cur, prev>>
       \/ /\ ~Match(t) /\ GoTo(t, "walk")
          /\ prev' = [prev EXCEPT ![t] = cur[t]]
          /\ cur' = [cur EXCEPT ![t] = entry[cur[t]].next]
    /\ UNCHANGED <<memVars, did>>

-----------------------------------------------------------------------------
(* pending_table_update, qos2_table_set *)

\* cur may have been freed since the walk reached it.
SetFound(t) ==
    /\ pc[t] = "found" /\ call[t].op = "set"
    /\ entry' = [entry EXCEPT ![cur[t]].value = call[t].value, ![cur[t]].stamp = now]
    /\ Effect(t, call[t].value)
    /\ Return(t)
    /\ UNCHANGED <<table, live>>

\* Mutant: the state of a new entry stays as calloc has left it.
BlankEntry(t) ==
    [key |-> call[t].key, value |-> NONE, stamp |-> now, next |-> table[bucket[t]]]

NewEntry(t) ==
    [key |-> call[t].key, value |-> call[t].value, stamp |-> now, next |-> table[bucket[t]]]

\* The new entry is filled in, with the present head behind it...
SetNew(t) ==
    /\ pc[t] = "walk" /\ cur[t] = NULL /\ call[t].op = "set"
    /\ \E c \in Cell \ live :
          /\ live' = live \cup {c}
          /\ entry' = [entry EXCEPT ![c] = NewEntry(t)]
          /\ cur' = [cur EXCEPT ![t] = c]
    /\ GoTo(t, "link")
    /\ UNCHANGED <<table, prev, did>>

\* Mutant: the entry becomes the head first, and the head is put behind it then.
SetLinkFirst(t) ==
    /\ pc[t] = "link"
    /\ table' = [table EXCEPT ![bucket[t]] = cur[t]]
    /\ entry' = [entry EXCEPT ![cur[t]].next = cur[t]]
    /\ Effect(t, call[t].value)
    /\ Return(t)
    /\ UNCHANGED live

\* ... and becomes the head.
SetLink(t) ==
    /\ pc[t] = "link"
    /\ table' = [table EXCEPT ![bucket[t]] = cur[t]]
    /\ Effect(t, call[t].value)
    /\ Return(t)
    /\ UNCHANGED <<entry, live>>

-----------------------------------------------------------------------------
(* pending_table_get, qos2_table_get_state *)

Get(t) ==
    /\ call[t].op = "get"
    /\ \/ pc[t] = "found" /\ Effect(t, entry[cur[t]].value)
       \/ pc[t] = "walk" /\ cur[t] = NULL /\ Effect(t, NONE)
    /\ Return(t)
    /\ UNCHANGED memVars

-----------------------------------------------------------------------------
(* pending_table_remove, qos2_table_remove *)

\* Mutant: the head is moved even when the entry is not the first.
TableBehind(t) == [table EXCEPT ![bucket[t]] = entry[cur[t]].next]

\* Mutant: without the else branch.
TableKept(t) == table

\* if (prev) prev->next = cur->next; else table[idx] = cur->next;
TableWithout(t) ==
    IF prev[t] = NULL THEN [table EXCEPT ![bucket[t]] = entry[cur[t]].next] ELSE table
EntriesWithout(t) ==
    IF prev[t] # NULL THEN [entry EXCEPT ![prev[t]].next = entry[cur[t]].next] ELSE entry

RemoveMissing(t) ==
    /\ pc[t] = "walk" /\ cur[t] = NULL /\ call[t].op = "remove"
    /\ Effect(t, NONE)
    /\ Return(t)
    /\ UNCHANGED memVars

Unlink(t) ==
    /\ pc[t] = "found" /\ call[t].op = "remove"
    /\ table' = TableWithout(t)
    /\ entry' = EntriesWithout(t)
    /\ Effect(t, NONE)
    /\ GoTo(t, "free")
    /\ UNCHANGED <<live, cur, prev>>

\* free(c), when the entries are e: from now on c may hold anything, apart
\* from next.
Release(c, e) ==
    /\ live' = live \ {c}
    /\ \E g \in Garbage :
          entry' = [e EXCEPT ![c].key = g.key, ![c].value = g.value, ![c].stamp = 0]

Free(t) ==
    /\ pc[t] = "free"
    /\ Release(cur[t], entry)
    /\ Return(t)
    /\ UNCHANGED <<table, did>>

-----------------------------------------------------------------------------
(* pending_table_cleanup_expired and pending_table_destroy, and the same of
   qos2_table.c: sweeps through all lists. *)

Sweep(t, op) == Start(t, [NoCall EXCEPT !.op = op], 0, "sweep")

\* Mutant: an entry goes as soon as it reaches its age.
ExpiredAtOnce(c) == now - entry[c].stamp >= Expiration

Expired(c) == now - entry[c].stamp > Expiration

\* The cleanup looks at one entry: prev stays where it is when the entry goes.
CleanEntry(t) ==
    /\ pc[t] = "sweep" /\ cur[t] # NULL /\ call[t].op = "cleanup"
    /\ \/ /\ Expired(cur[t])
          /\ table' = TableWithout(t)
          /\ Release(cur[t], EntriesWithout(t))
          /\ UNCHANGED prev
       \/ /\ ~Expired(cur[t])
          /\ prev' = [prev EXCEPT ![t] = cur[t]]
          /\ UNCHANGED memVars
    /\ cur' = [cur EXCEPT ![t] = entry[cur[t]].next]
    /\ UNCHANGED <<now, pc, call, bucket, did>>

DestroyEntry(t) ==
    /\ pc[t] = "sweep" /\ cur[t] # NULL /\ call[t].op = "destroy"
    /\ Release(cur[t], entry)
    /\ cur' = [cur EXCEPT ![t] = entry[cur[t]].next]
    /\ UNCHANGED <<table, now, pc, call, bucket, prev, did>>

\* The end of a list.
NextBucket(t) ==
    /\ pc[t] = "sweep" /\ cur[t] = NULL
    /\ table' = IF call[t].op = "destroy" THEN [table EXCEPT ![bucket[t]] = NULL] ELSE table
    /\ \/ /\ bucket[t] + 1 < NBuckets
          /\ bucket' = [bucket EXCEPT ![t] = @ + 1]
          /\ cur' = [cur EXCEPT ![t] = table[bucket[t] + 1]]
          /\ prev' = [prev EXCEPT ![t] = NULL]
          /\ UNCHANGED <<now, pc, call, did>>
       \/ /\ bucket[t] + 1 = NBuckets
          /\ did' = [did EXCEPT ![t] = <<call[t].op, "done">>]
          /\ Return(t)
    /\ UNCHANGED <<entry, live>>

-----------------------------------------------------------------------------
\* A call that runs takes its next step.
CallStep(t) ==
    \/ Walk(t)
    \/ SetFound(t) \/ SetNew(t) \/ SetLink(t)
    \/ Get(t)
    \/ RemoveMissing(t) \/ Unlink(t) \/ Free(t)

SweepStep(t) == CleanEntry(t) \/ DestroyEntry(t) \/ NextBucket(t)

\* The clock is read once in a call, so that it may as well stand still there.
Tick ==
    /\ now < MaxTime
    /\ \A t \in Thread : pc[t] = "idle"
    /\ now' = now + 1
    /\ UNCHANGED <<memVars, pc, call, ptrVars, did>>

\* Any calls of each thread, in any order.
ChainNext ==
    \/ \E t \in Thread :
          \/ \E op \in {"set", "get", "remove"}, k \in Key, v \in Value : Begin(t, op, k, v)
          \/ \E op \in {"cleanup", "destroy"} : Sweep(t, op)
          \/ CallStep(t)
          \/ SweepStep(t)
    \/ Tick

ChainSpec == ChainInit /\ [][ChainNext]_chainVars

-----------------------------------------------------------------------------
(* The lists. *)

\* The n-th entry of list b, counted from 0; NULL behind its end.
Nth(b) ==
    LET nth[n \in 0 .. Cardinality(Cell)] ==
            IF n = 0 THEN table[b]
            ELSE IF nth[n - 1] = NULL THEN NULL ELSE entry[nth[n - 1]].next
    IN  nth
InList(b) == LET nth == Nth(b) IN {nth[n] : n \in DOMAIN nth} \ {NULL}
InTable == UNION {InList(b) : b \in Bucket}

\* The lists end, an entry is in the list of its key and no key has two
\* entries in the table.
ListsAreSound ==
    /\ \A b \in Bucket : Nth(b)[Cardinality(Cell)] = NULL
    /\ \A b \in Bucket : \A c \in InList(b) \cap live : HashOf[entry[c].key] = b
    /\ \A c, d \in InTable \cap live : entry[c].key = entry[d].key => c = d

Destroying(t) == pc[t] = "sweep" /\ call[t].op = "destroy"

\* For a table that one thread uses, as the broker's pending table: no entry is
\* lost and none is used after it was freed.  What is allocated is in a list,
\* or in the hands of the call that is adding or removing it; what is in a
\* list is allocated, unless the table is being destroyed.
NothingLost ==
    /\ ListsAreSound
    /\ live \ InTable = {cur[t] : t \in {u \in Thread : pc[u] \in {"link", "free"}}}
    /\ (\A t \in Thread : ~Destroying(t)) => InTable \subseteq live
    /\ \A t \in Thread : pc[t] # "idle" => cur[t] \in live \cup {NULL}

\* For one thread: the lists are a map from keys to values, and every call
\* does to it what module KeyedTable says.
Content ==
    LET inUse == InTable \cap live
        stored(k) == {<<entry[c].value, entry[c].stamp>> : c \in {d \in inUse : entry[d].key = k}}
    IN  [k \in Key |-> IF stored(k) = {} THEN <<>> ELSE CHOOSE x \in stored(k) : TRUE]

Caller == CHOOSE t \in Thread : TRUE

Map == INSTANCE KeyedTable WITH map <- Content, last <- did[Caller]
ImplementsTable == Map!TableSpec
=============================================================================
