# SlimMQ: TLA+ specification, model checking and proofs

SlimMQ is a small publish/subscribe middleware in C over UDP: a broker, and a
client library with QoS 0 (fire and forget), QoS 1 (acknowledged, retried) and
QoS 2 (a four-step handshake with state on both sides). This directory holds
TLA+ models of its parts, TLC configurations that check them on small instances,
and TLAPS proofs for every value of the constants. Source paths are relative to
the repository root.

## 1. Inventory of the system

| Component | State | Operations | Interacts with |
|---|---|---|---|
| Broker (`src/broker.c`) | socket, the two tables below | one loop: receive a datagram, run `handle_subscribe`, `handle_publish` or `handle_control` to the end | clients, by datagrams; calls both tables |
| Subscription table (`src/topic_table.c`) | a trie of topic segments with subscriber lists | `subscribe_topic`, `get_matching_subscribers` | called by the broker |
| Pending table (`src/pending_table.c`) | state of each QoS 2 message, by (address, msg_id) | `update`, `get` (`remove`, `cleanup_expired` have no caller) | called by the broker |
| Client library (`src/slimmq_client.c`) | `next_msg_id`, QoS level, retry policy, event queue, listener thread | connect, close, subscribe, publish, next_event, set_qos, set_retry_policy, receive; `listener_loop` | broker, by datagrams; application thread and listener share queue and table |
| Event queue (`src/event_queue.c`) | ring buffer, mutex, condition variable | `push`, `pop`, `wait_ack` | listener pushes, application pops and waits |
| QoS 2 client table (`src/qos2_table.c`) | state of each msg_id; one static array per process, no lock | `init`, `destroy`, `set`, `get_state`, `remove` | listener sets, `slimmq_publish` reads and removes |
| Packet format (`src/packet_handler.c`, `include/slim_msg.h`) | none | serialize, deserialize | used on both sides |
| Transport (`src/transport_udp.c`) | socket | `send_bytes`, `recv_bytes` | the network |
| Lossy test broker (`test/lossy_broker.c`) | as the broker | the broker, which drops a PUBLISH of any level but QoS 2 when `rand` says so | the loss tests |
| TCP transport, example programs | – | – | not modelled (section 8) |

What is hard here: three kinds of thread (broker, application, listener) over a
network that loses, delays, reorders and duplicates datagrams; timeouts that race
with late answers; retries of what the broker has already done; an acknowledgement
that shares a queue with messages; tables that never forget; and a QoS 2 table
without a lock. The full list is `hazards` in `PROJECT.json`.

What makes each part correct:

- broker: a QoS 2 message is forwarded at most once per key, `RECEIVED` is only
  sent for a forwarded message, a handshake never moves back;
- client: `slimmq_publish` returns, and at QoS 1 and 2 returns 0 only for a message
  that the broker has sent to everyone who was subscribed; with as many retries as
  losses it does return 0;
- whole system: what an ACK, a CONTROL datagram or a table entry says is true;
- subscription table: a lookup finds exactly the clients with a matching filter;
- event queue: a bounded FIFO queue, from which an ACK can be taken out of turn;
  no consumer sleeps beside an event meant for it;
- both hash tables: a map; no entry is lost, kept twice or used after it was freed,
  as long as one thread uses the table. The client's is used by two without a lock: a
  lookup should return a state that was set, the lists should hold no freed entry and
  every walk should end (that nothing is written into a freed entry is not true there,
  section 4);
- packets: what is handed out was published, byte for byte, whatever the buffers
  held before, and what a sender accepts no receiver refuses.

## 2. Modules

| Module | Models |
|---|---|
| `Network` | datagrams in transit as a set, with loss and, if `Duplicates`, repetition; the message kinds of `slim_msg.h` |
| `TopicMatch` | `FilterMatches`: which topics a filter matches, as `match_recursive` decides it |
| `Broker` | the broker loop and its handlers; `BrokerSpec` puts it in an environment that sends any well-formed datagram |
| `EventFifo` | the operations of the event queue on a sequence |
| `Client` | the client library: application thread, listener thread, event queue, QoS 2 table |
| `SlimMQ` | clients, network and broker together; the system's properties |
| `Timely` | `SlimMQ` on a network that answers in time and loses at most `MaxRetries` datagrams of a call |
| `TopicTable` | the trie: `split_topic`, `subscribe_topic`, `match_recursive`, `remove_duplicates` |
| `FifoSpec`, `EventQueue` | the event queue's promise, and the ring buffer with mutex and condition variable that implements it |
| `KeyedTable`, `HashChain` | what the two tables promise, and the lists of entries that implement it, one access per step |
| `Qos2Table` | the lists of the client's table between application and listener |
| `Packet` | serialize and deserialize, C arrays and strings |
| `PacketPath` | the way of topics and data from publish to `slimmq_next_event`, through all buffers |
| `LossyBroker` | `SlimMQ` with the broker of the loss tests |
| `MC...` | constants and bounds for TLC |
| `SlimMQProofs` | theorems about `Broker`, `SlimMQ` and `LossyBroker`, and their proofs |
| `EventFifoProofs`, `EventQueueProofs`, `TimelyProofs`, `TopicTableProofs`, `HashChainProofs`, `Qos2TableProofs`, `PacketPathProofs` | theorems about the module of that name, and their proofs |

`Broker` and `Client` extend `Network`; `SlimMQ` composes them; `Timely` restricts
`SlimMQ`. `Broker` uses `FilterMatches` where the code walks the trie, which
`TopicTable` justifies; `Client` uses `EventFifo` where the code uses the ring,
which `EventQueue` justifies; both use a map where the code has lists, which
`HashChain` justifies for one thread and `Qos2Table` for two. Messages are records
there, which `PacketPath` justifies. `LossyBroker` extends `SlimMQ`, `Qos2Table`
extends `HashChain`, `PacketPath` extends `Packet`.

### How state and actions correspond to the code

*Broker.* `subs` is the content of the trie, `pending` the pending table (`NONE`
for no entry), both starting empty as in `main`. One handler is one action, because
the broker has one thread. `handle_publish` is split along its early returns:
`HandlePublishQos0`, `HandlePublishQos1`, and for QoS 2 `HandlePublishNew` (unknown
key), `HandlePublishRepeated` and `HandlePublishCompleted`. `HandleControlRelease`
does not look at the table, as the code does not; its transient state `RELEASED`
is never seen by another handler. `forwards` and `given` are history variables.

*QoS levels.* `qos_level` is a byte that nobody checks: `Qos` has `QosSpace` values,
`NamedQos` are the three that `slim_msg.h` names. `handle_publish` takes every level but
QoS 1 and 2 for QoS 0. The loop of `slimmq_publish` has no branch for a level above 2:
`AfterSend` leads back to its head, and no retry is counted.

*Client.* `pc` is where the application thread is: `closed`, `idle`, or inside
`slimmq_publish` at `send` (head of the loop), `ack`, `received`, `check` (the second
read of the entry, after the wait), `complete` and `remove`. `retries` and `polls`
are the code's counters; `Polls` is `retry_timeout_ms / 100`. Every read and write
of the QoS 2 table is a step of its own because nothing locks it. `table` belongs to
a process, `ProcessOf` says which clients share one. `Listener` is one turn of
`listener_loop`. `slimmq_receive` is `ReceiveMessage`: it takes a datagram from the
listener's socket, an ACK or a CONTROL as well as a message; the clients that call it
are the constant `Receiver`. A payload is named by its caller and the number of the call;
`calls`, `result` and `got` are history. `audience` (in `SlimMQ`) records the
clients that match when a publish begins.

*Event queue.* A critical section is one step; `pthread_cond_wait` ends a step and
leaves the thread asleep until a signal or a spurious wakeup. `did` is the last
call and its result, in the ring as in the FIFO queue, so that the refinement
compares results and not only contents.

*Trie.* A node is its path; children and subscribers are lists in the order the code
keeps them. A string is what stands between its slashes; `SplitTopic` does what
`strtok` does with empty segments, null slots at the end included, and using a null
segment ends the process (`alive`).

*Hash tables.* `pending_table.c` and `qos2_table.c` are the same program over different
keys, so that one module models both. `entry` is the memory, `live` the allocated
addresses, `cur`, `prev` and `bucket` the local variables of each thread. A step is one
turn of a loop (it reads the key and `next` of one entry) or one change: a new entry is filled in and then made the head, an entry
is unlinked and then freed. A freed entry shows any key and state (`Garbage`) but keeps
its `next`, which lies behind the 16 bytes that the allocator uses. This is a property of
the allocator, not of the language, and so is what a write into a freed entry damages: the
models let nothing follow from it. The build has no optimisation flag, so that accesses
are taken in the order of the program. `calloc` is assumed to succeed.

*Client's table* (`Qos2Table`). The application begins a lookup or a removal where
`slimmq_publish` does; a `Publish` followed by `GiveUp` also stands for a call that takes
an identifier and never looks (a subscription, a publish of QoS 0 or 1). `CloseOnly` is
`slimmq_close` after the level was changed again, which keeps the table. `Answer` is the
listener with RECEIVED or COMPLETE of any message so far.

`InTime` and the guard of `Answer` are an assumption that the code does not make: an
answer is handled before `NBuckets` (256) further calls have begun. Subscriptions and QoS 0
publishes use up identifiers too, and do not wait, so that a program which makes many of
them at once can break it. Without it, an answer can put a new head before an entry that is
being unlinked, and the list keeps a freed entry. Even with it the listener may stand on an
entry that the application has just freed, and write its state there, but only for the
message that was removed: `NoFreedEntryInUse` says this much, and the run `freed_write`
shows that it happens.

*Packets.* `Memory` is what a receiver keeps between two datagrams: the packet buffer,
the topic array and the data array, overwritten in part by each datagram. A topic or a
payload is a sequence of bytes, the header the three fields that decide about lengths.

Definitions marked *Mutant* are slips a programmer could make in the definition
after them; replacing that definition by one makes TLC find the property named in
`PROJECT.json` violated. No specification uses them.

## 3. Runs that pass

| Run | Shows |
|---|---|
| `core` | `TypeOK`; `SuccessForwarded`: publish returns 0 at QoS 1 or 2 only after the message went to all of its audience; `CompletedWasForwarded`: the broker's completed keys were forwarded exactly once although `RELEASE` is not checked; `AnswersAreGenuine`: every ACK, CONTROL and table entry is evidence of its own message |
| `broker_open` | whatever two addresses send: `ForwardAtMostOnce`, `ReceivedMeansForwarded`, `PendingAdvances` |
| `timely` | with no more losses than retries and answers in time: `NoPublishFails`, and `PublishedIsReceived` (every QoS 1 or 2 publish ends in success and its payload reaches the application of each subscriber); `HandedOnce`: a message of QoS 2 is handed to an application once, although its PUBLISH is sent again and again |
| `returns` | with the broker of the loss tests and any level: `PublishReturns`: `slimmq_publish` ends at the named levels, whatever the network does and whatever that broker drops; `SuccessForwarded`: it drops nothing that it acknowledges |
| `topic_table` | `TreeMirrorsSubscriptions`, and `MatchAgrees`: the walk through the trie finds what `FilterMatches` says, each client once |
| `pending_chain` | `ChainTypeOK`: types, and no null pointer where the code goes through one without a test; `NothingLost`: no entry leaks, is used after free or gets a second entry for its key; `ImplementsTable` (the lists refine `KeyedTable`) |
| `qos2_table` | `LookupIsCurrent`: a lookup returns the state set last, or one being set at the time; `NoFreedEntryInUse`; `CallsReturn`: every walk ends, although the other thread changes the list |
| `packet_path` | `ArrivesAsSent`: no byte of an event or of a subscription comes from an earlier datagram; `AcceptedEverywhere`: no receiver refuses what a sender has accepted |
| `event_queue` | `RingInv`, `NoLostWakeup`, and `ImplementsFifo` (the ring refines `FifoSpec`) |

### Bounds

- `core`: a publisher, which also calls `slimmq_receive`, and a subscriber, two publish
  calls (the second can meet the
  leftovers of the first), one retry, one poll per wait, a queue of one event (so
  that it is full), the three named levels, identifiers that do not wrap, at most two
  datagrams in transit.
  Two in transit are enough for an answer to overtake another; with duplication on,
  each can arrive any number of times.
- `broker_open`: two addresses and one identifier each, levels 0 to 3. Keys are independent in the
  handlers, so that one identifier shows all there is; two datagrams in transit give
  every order, as any datagram can be sent at any time.
- `timely`: two calls at QoS 1 or 2, two retries, a queue of four events (as many as can
  pile up before the first copy of a payload arrives, so that no first copy is dropped;
  section 4 has the other case). Messages that do not fit their buffer, which fail at
  once, are left out.
- `returns`: one client that publishes and subscribes, levels 0 to 3 (3 stands for every
  level above 2), two calls, one retry, no bound on the datagrams in transit.
- `topic_table`: two clients, seven filters (each wildcard first and last, `#` in the
  middle, two depths of a path, an empty segment), five topics, every order of
  subscriptions.
- `pending_chain`: three keys in one list and a second list, so that an entry is first,
  in the middle and last; three cells; a clock of two values, expiration 0.
- `qos2_table`: three messages on two lists, so that two share one; two cells, the
  entries that can be in one list at a time.
- `packet_path`: a header of 2 bytes, packets of 8, topics of up to 3 characters
  (instead of 15, 2048, 255), with the relations of the code between these numbers
  (`PathAssumption`); topics and data just within each limit and just beyond it; two
  datagrams in transit, three different calls.
- `event_queue`: three slots, two identifiers, two consumers; every wrap of the
  indices occurs.

### Fairness

`TimelySpec` assumes weak fairness of a running `slimmq_publish` (its thread wakes from
`usleep`), of a listener and of the broker with a datagram in the socket, and of the
subscriber's application (the example programs call `slimmq_next_event` in a loop);
`LossyFairSpec` of a running `slimmq_publish` only; `QosSpec` of a thread inside a call
of the table. None is assumed of the network, of starting a call or of subscribing.
`Timely` restricts the network, not the scheduler: nothing is
delivered twice, a poll finds its answer if it was not lost, `send_bytes` does not
fail, and no more than `MaxRetries` datagrams between a publisher and the broker are
lost during one call. The path from the broker to a subscriber loses nothing there,
as the code has nothing to recover such a loss (section 4).

## 4. Runs that find a violation

Each states what the repository says and shows that the code does something else.

| Run | What happens |
|---|---|
| `late_complete` | COMPLETE arrives after the wait for it has run out. The retry waits for `WAIT_COMPLETE` only, and the broker does not answer a completed key: publish reports failure for a message that was delivered and completed. |
| `reconnect` | A connection from the same address starts again at msg_id 1: answers to an old message complete the handshake of a new one, which was never forwarded. |
| `freed_write` | The listener has found the entry of a message, the application unlinks and frees it, and the listener writes state and time into freed memory. Nothing locks the table. |

Five more defects are as easily seen, by a change to a configuration that passes. They have
no run of their own; the properties, bounds and hypotheses of sections 3 and 5 say where they
step around them.

- *Levels above 2.* `slimmq_set_qos` stores any byte. For a level above 2 the loop of
  `slimmq_publish` sends again without a pause, counts no retry and returns only if
  `send_bytes` fails, while the broker takes every copy for QoS 0 and forwards it. Level 3 is
  in the run `returns`, and `PublishReturns` without its condition `msg[c].qos \in NamedQos`
  is violated there.
- *Two clients in one process.* They share the QoS 2 table, whose key is msg_id alone, and
  both count from 1: the answers to one client's message make the other's publish return 0
  for a message that was never forwarded. `SuccessForwarded` is violated in `core.cfg` with a
  second publisher, `ProcessOf` the same for both, `QosUsed = {2}` and no retry.
- *A stolen ACK.* While a publish waits, another thread of the same client can take its ACK
  with `slimmq_next_event`, which hands it out as an event without topic and data. The
  publish reports failure. `NoPublishFails` is violated in `timely.cfg` with
  `Publisher = Subscriber = {p}`.
- *A full queue.* A message that meets a full event queue is dropped, after the broker has
  acknowledged it: the publish succeeds and the application never gets it.
  `PublishedIsReceived` is violated in `timely.cfg` with `QueueCap = 1`; the code has 128.
- *Empty segments.* The README's own filter `/sensor/#` has three slots and two tokens, and
  `find_or_create_child` gets a null pointer: the broker process ends. In `topic_table` the
  filter `/room/#` does this, and `alive` becomes FALSE.

Other limits of the code that the properties are worded around:

- the copy of a message for a subscriber is one datagram that nobody acknowledges or
  repeats: an acknowledged message can be lost there, and if the network repeats the
  copy the application gets it twice, at every QoS level;
- `calloc` is not checked in either table: when it fails, the write through the null
  pointer ends the process;
- `slimmq_receive` reads the listener's socket: either may take what the other waits for;
- a retry timeout below 100 ms, or none, means no poll at all: `slimmq_publish` at QoS 1
  or 2 then fails although the answer arrives (`Polls` is 0);
- a topic of 128 to 255 characters is accepted by publish and broker, and cut to 127 in
  the event queue, as `ArrivesAsSent` says;
- `deserialize_message` does not compare `payload_length` with the number of bytes
  received, so that `AcceptedEverywhere` is a statement about datagrams of this library;
- a final `#` needs at least one segment (`sensor/#` does not match `sensor`), and a `#`
  before the end stands for exactly one;
- the header that the README gives 14 bytes has 15.

## 5. Proofs

Checked by TLAPS for every value of the constants, from the named assumptions of the
modules, which the code justifies: `NetworkAssumption`, `QueueAssumption`,
`ClientAssumption` (naturals where the code has counters, more than two QoS levels, a process
for every client, subsets where sets of clients are given), `TimelyAssumption` (no datagram is repeated),
`ConsumerAssumption` (finitely many threads), `ChainAssumption` (at least one list,
finitely many addresses, a hash in range), `Qos2Assumption` (two threads, identifiers from
1 on, their remainder as the hash), `TableAssumption` (topics are sequences of strings,
none of which is the null pointer), `PacketAssumption` and `PathAssumption` (the
relations between the sizes of the buffers). Where a theorem needs more, it says so as a
hypothesis of its own, and the run that checks its property satisfies it.

*The broker alone* (`SlimMQProofs`). `BrokerTypeCorrect`, `ForwardAtMostOnceHolds`,
`ReceivedMeansForwardedHolds`, `PendingAdvancesHolds`, for `BrokerSpec`.
`ForwardAtMostOnce` is not inductive: the count of a key can only be kept at one if
an unknown key has count zero. `BrokerInv` adds this, and that a key which is answered
with `RECEIVED` has been forwarded.

*Event queue operations* (`EventFifoProofs`). `Push`, `Tail`, `TakeAck` keep the type
and the bound of a queue and invent no event; `wait_ack` finds a first position.

*The loss tests* (`SlimMQProofs`). `LossySuccessForwarded`, from `UniqueIds`:
`LossySpec => []SuccessForwarded`. A PUBLISH that the lossy broker drops might have been
lost on its way (`DropIsLoss`), so that a behaviour with it is one of `Spec`
(`LossyIsSpec`) and `SuccessForwardedHolds` applies.

*The whole system* (`SlimMQProofs`).

- `TypeCorrect`: needs `CallInv` (a running call holds a message of its client, and
  beyond the head of the loop `retries` is at most `MaxRetries`).
- `ImplementsBroker`: `Spec => BrokerSpec`. Every step of a client is a step of the
  open environment, so the broker's theorems hold in the system.
- `AnswersAreGenuineHolds`, `SuccessForwardedHolds`, `CompletedWasForwardedHolds`
  assume `UniqueIds`: one connection per address, fewer calls than identifiers, one
  client per process. The run `reconnect` shows that `SuccessForwarded` fails without
  the first, section 4 without the last.

The inductive invariant is `SafetyInv`: `NumberingInv` (the identifier of a running
call is its number, a PUBLISH in transit carries the payload of its identifier, no
result is recorded for a call not made), `AudienceInv` (whoever was subscribed when the
call began still matches while its PUBLISH is under way, because nobody unsubscribes),
`AnswersAreGenuine` (its six parts depend on each other: the RELEASE a client sends is
evidence because its table entry is, the entry because the RECEIVED was, the RECEIVED
because the pending entry is) and `SuccessForwarded`. History variables only grow
(`HistoryGrows`, `EvidenceLasts`), so evidence once true stays true, and each step has
to be looked at only where it creates new evidence: a QoS 1 or a new QoS 2 PUBLISH at
the broker (`HandledNow`, `ForwardedNow`).

*The timely network* (`TimelyProofs`). `TimelyIsSpec` makes a behaviour on this network
one of `Spec`, so that the invariants above can be used.

- `HandedOnceHolds`, from `UniqueIds`: a message of QoS 2 is handed to an application
  once. `HandInv` says where a payload is. All messages of one call have one level
  (`LevelInv`), and only those of QoS 2 are counted in `forwards` (`ForwardInv`). A
  payload of QoS 2 is nowhere before it is counted (`PlacedInv`), and after that at one
  place for each subscriber at most: in transit, in the queue or with the application
  (`OnceInv`). `HandedOnce` is not inductive because it says nothing of copies in transit.
- `NoPublishFailsHolds`, from `UniqueIds`, `Polls > 0` and
  `Publisher \cap Subscriber = {}`. Both hypotheses are limits of the code (section 4): a
  retry timeout below 100 ms means no poll, and a client that subscribes as well can take
  its own ACK out of the queue with `slimmq_next_event`. All levels are
  covered, a publish above level 2 in the sense that it never reports anything. `TimelyInv` says, for each place
  of `slimmq_publish`, where its exchange has got to: the PUBLISH, the answer or the
  table entry is there, or the call is *excused*, which means that fewer retries have
  been used than datagrams were lost (`PhaseInv`). `RetryInv` adds that every retry makes
  up for a loss; as the network loses at most `MaxRetries`, the counter never passes it.

*The event queue* (`EventQueueProofs`), for any capacity and any number of consumers.

- `RingInvHolds`: head, tail and count agree, also when an ACK is taken out of the middle
  and the slots behind it are moved. `RingInv` is inductive.
- `NoLostWakeupHolds`: while a consumer sleeps, there are as many woken ones as events.
  Inductive together with `RingInv`; the woken are counted, hence `ConsumerAssumption`.
- `RingImplementsFifo`: `QueueSpec => ImplementsFifo`. `Live` reads the slots from the
  head on as a sequence. `push` appends to it, `pop` takes its first, and the shift of
  `wait_ack` removes one position; each is a lemma on sequences, and the arithmetic modulo
  the capacity is in `Wrap` and `Places`.

*The hash tables* (`HashChainProofs`), for any number of keys, lists and entries.

- `ChainTypeCorrect`, for any number of threads: the types (`ChainVarsOK`), and at each
  place where the code goes through a pointer without testing it, the pointer is an entry
  (`HandInv`). That the entry is still allocated is not said here, and a `calloc` that
  fails is not modelled.
- `NothingLostHolds` and `ChainImplementsTable`, for a table that one thread uses, as the
  broker's (the client's, with two, is the matter of `Qos2Table`). Following a list would
  be an induction over data. `Ordered` avoids it: there are a list and a rank for each
  entry such that `next` leads to the entry of the next lower rank in the same list, and
  the head has the highest. A new entry gets a rank above all, unlinking one leaves the
  others as they are, and what a walk has passed is what has a higher rank, so that at
  its end the key is in no entry (`ThreadInv`, one part for each place of a call). For the
  refinement, `ContentInv` says that `Content` holds what the allocated entries in the
  lists hold, and `DidInv` that a sweep has not taken effect before its last step.

*The client's table between two threads* (`Qos2TableProofs`), for any number of messages,
lists and entries. `NoFreedEntryInUseHolds`, `LookupIsCurrentHolds`. The guards of `QosSpec`
hold what is assumed of the network: an answer is less than `NBuckets` calls late. From this
the two theorems follow in spite of the missing lock. They are about the lists, the lookups
and where the threads stand; they do not make the missing lock harmless, because the listener
can still write into an entry that was freed (`freed_write`), and what that does to the
allocator, and then to the lists, is outside the model. Identifiers
closer than this share no list, so that two threads in one list are there for the same
message (`SameList`), and then at most one of them changes its links. `QosInv` is the types,
`HistoryInv` (what the histories can hold), `ReadInv` (what a running lookup may return) and
`Coherent` for some order `own`, `rank` as above. Three things make it stronger than the
order of `HashChainProofs`:

- while the listener holds a new entry that is not yet the head, the order is that of the
  list *behind* this entry (`Behind`), because `qos2_table_init` may empty the list and the
  entry then brings its old tail back;
- entries that `qos2_table_init` has forgotten are in no list but stay allocated, and lead
  only to such entries (`Leaked`); a listener that stands on one, or on an entry of a
  message that was removed, has left the lists (`Off`) and finds nothing to damage;
- each place of a call has its part: a lookup has not passed the message unless it was not
  there at the start (`AppWalk`), a removal stands behind the entry's predecessor or the
  message is gone (`Stands`), a listener about to add an entry knows that no other has its
  message (`ListenerLink`).

TLC checked `QosInv` on small instances before it was proved. The proof attempt corrected
the model: `SetQos` and `Publish` were possible while the application was still inside
`qos2_table_remove`, which one thread cannot do.

*The trie* (`TopicTableProofs`), for every set of clients, filters and topics, of any depth.

- `TreeMirrorsSubscriptionsHolds`. `TableInv` says of each node that its parent is in the
  tree and lists it once (`Trie`), that the paths are the prefixes of the filters
  (`Called`), and who is in which list. One turn of the loop of `subscribe_topic` keeps
  `Trie` and adds at most an empty node (`TrieGrows`), hence so does the loop
  (`DescendGrows`).
- `MatchAgreesHolds`, from the same invariant. The recursion of `match_recursive` is shown
  to define a function, level by level from the last one up (`Solved`); its result at a node
  is the result before it together with the clients that can be reached below (`Reach`),
  which are those of the node and those below the children that it goes down to
  (`ReachSplits`, `VisitFinds`, `MatchFinds`); and from the root, what can be reached is
  what `FilterMatches` says (`ReachMatches`). So `Broker` may use `FilterMatches`.

The loops of the code are recursive functions over `0 .. n` in the model. Each is reasoned
about with two lemmas that need no operator as a parameter, because what holds after a turn
is given as a *set* of turns: `EveryTurn` (induction, from a least counterexample) and
`LoopExists` (the recursion has a solution). This is how induction over data is done here.

*Packets* (`PacketPathProofs`), for topics and data of every length and all sizes of the
buffers that `PathAssumption` allows. `ArrivesAsSentHolds`, `AcceptedEverywhereHolds`.
`PathInv` says that the datagrams in transit and the messages in the queue are encodings
of what was published or subscribed, and that the buffers have their size; nothing is said
about what the buffers hold. The lemma `ReadBack` is the heart: deserialize after serialize
gives back topic and data whatever was in the arrays, because the terminating 0 is written
too and the lengths in the datagram bound what is read.

## 6. Only model-checked

- Liveness (`PublishReturns`, `PublishedIsReceived`, `CallsReturn`), which TLAPS does not
  do. Every invariant, every action property and every refinement that a passing run checks
  is also proved.
- The three violations of section 4, which are single behaviours.

## 7. Plan

Done: all components except the TCP transport and the example programs are modelled and
checked; the proofs above. What could follow is the wrap of identifiers under a weaker
`UniqueIds` (keys of completed calls only), and the connection of `TopicTable` to `Broker`
as a refinement, which is now an argument from `MatchAgrees`.

## 8. Not modelled

- `transport_tcp.c`: not part of any build target; it opens a datagram socket and then
  calls `listen` on it, which cannot succeed.
- The example programs, straight-line callers of the library whose calls are among those
  of the clients in `Timely`; the tests, except for what their broker does; printing and
  dumping.
- The header fields that no code reads (version, topic_id, frag_id, frag_total,
  batch_size, client_node_count); allocation failure outside `event_queue_push`
  (the unchecked `calloc` of both tables ends the process); the damage that a write into a
  freed entry does to the allocator; the
  reuse of a freed entry's address by another allocation of the process;
  `slimmq_start_listener` and `unsubscribe_topic`, which are declared only; freeing the
  trie, which happens only after the broker's endless loop.
- Broker restart: it keeps nothing on disk, and no code reacts to a restart.
