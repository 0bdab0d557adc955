-------------------------- MODULE EventFifoProofs ---------------------------
(* Facts about the operations of the event queue, for any kind of event. *)
EXTENDS EventFifo, SequenceTheorems, WellFoundedInduction, TLAPS

\* The events in a queue of events are events.
LEMMA EventsType ==
    ASSUME NEW E, NEW q \in Seq(E)
    PROVE  Events(q) \subseteq E
  BY DEF Events

\* event_queue_push keeps the bound and invents no event.
LEMMA PushFacts ==
    ASSUME NEW E, NEW q \in Seq(E), Len(q) <= QueueCap, NEW e \in E
    PROVE  /\ Push(q, e) \in Seq(E)
           /\ Len(Push(q, e)) <= QueueCap
           /\ Events(Push(q, e)) \subseteq Events(q) \cup {e}
<1>1. CASE Len(q) >= QueueCap
  BY <1>1 DEF Push
<1>2. CASE ~(Len(q) >= QueueCap)
  <2>1. Push(q, e) = Append(q, e)
    BY <1>2 DEF Push
  <2>2. Append(q, e) \in Seq(E) /\ Len(Append(q, e)) = Len(q) + 1
    BY AppendProperties
  <2>3. \A i \in 1 .. Len(q) : Append(q, e)[i] = q[i]
    BY AppendProperties
  <2>4. Append(q, e)[Len(q) + 1] = e
    BY AppendProperties
  <2>5. Events(Append(q, e)) \subseteq Events(q) \cup {e}
    BY <2>2, <2>3, <2>4 DEF Events
  <2> QED
    BY <1>2, <2>1, <2>2, <2>5, QueueAssumption
<1> QED
  BY <1>1, <1>2

\* event_queue_pop hands out an event of the queue and keeps the others.
LEMMA TailFacts ==
    ASSUME NEW E, NEW q \in Seq(E), q # <<>>
    PROVE  /\ Head(q) \in E
           /\ Tail(q) \in Seq(E)
           /\ Len(Tail(q)) = Len(q) - 1
           /\ Events(Tail(q)) \subseteq Events(q)
<1>1. /\ Head(q) \in E
      /\ Tail(q) \in Seq(E)
      /\ Len(Tail(q)) = Len(q) - 1
      /\ \A i \in 1 .. Len(Tail(q)) : Tail(q)[i] = q[i + 1]
  BY HeadTailProperties
<1> QED
  BY <1>1 DEF Events

\* Closing the gap at a position loses that event only.
LEMMA WithoutFacts ==
    ASSUME NEW E, NEW q \in Seq(E), NEW k \in 1 .. Len(q)
    PROVE  /\ Without(q, k) \in Seq(E)
           /\ Len(Without(q, k)) = Len(q) - 1
           /\ Events(Without(q, k)) \subseteq Events(q)
<1> DEFINE n == Len(q) - 1
           w == Without(q, k)
<1>1. n \in Nat /\ \A j \in 1 .. n : j \in 1 .. Len(q) /\ j + 1 \in 1 .. Len(q)
  OBVIOUS
<1>2. \A j \in 1 .. Len(q) : q[j] \in E
  BY ElementOfSeq
<1>3. w \in [1 .. n -> E] /\ \A j \in 1 .. n : w[j] = IF j < k THEN q[j] ELSE q[j + 1]
  BY <1>1, <1>2 DEF Without
<1>4. w \in Seq(E) /\ Len(w) = n
  <2> HIDE DEF w, n
  <2> QED BY <1>1, <1>3
<1> QED
  BY <1>1, <1>3, <1>4 DEF Events

\* A set of numbers has a least element.
LEMMA LeastElement ==
    ASSUME NEW S \in SUBSET Nat, S # {}
    PROVE  \E k \in S : \A j \in S : k <= j
<1>1. PICK k \in S : \A j \in S : ~(<<j, k>> \in OpToRel(<, Nat))
  BY WFMin, NatLessThanWellFounded
<1>2. \A j \in S : ~(j < k)
  BY <1>1 DEF OpToRel
<1> QED
  BY <1>2

\* event_queue_wait_ack finds the first matching event and removes only it.
LEMMA TakeAckFacts ==
    ASSUME NEW E, NEW q \in Seq(E), NEW i, AckPositions(q, i) # {}
    PROVE  /\ TakeAck(q, i) \in Seq(E)
           /\ Len(TakeAck(q, i)) = Len(q) - 1
           /\ Events(TakeAck(q, i)) \subseteq Events(q)
<1>1. AckPositions(q, i) \in SUBSET Nat
  BY DEF AckPositions
<1>2. \E k \in AckPositions(q, i) : \A j \in AckPositions(q, i) : k <= j
  BY <1>1, LeastElement
<1>3. PICK k \in 1 .. Len(q) : TakeAck(q, i) = Without(q, k)
  BY <1>2 DEF TakeAck, AckPositions
<1> QED
  BY <1>3, WithoutFacts
=============================================================================
