-------------------------- MODULE EventQueueProofs --------------------------
(* The ring buffer of event_queue.c for any capacity and any number of       *)
(* consumers: its indices agree, no wakeup is lost and it is a FIFO queue.   *)
EXTENDS EventQueue, EventFifoProofs, FiniteSetTheorems

-----------------------------------------------------------------------------
(* Positions in the ring. *)

\* An index that has gone round at most once.
LEMMA Wrap ==
    ASSUME NEW a \in Nat, a < 2 * QueueCap
    PROVE  /\ a % QueueCap \in Slot
           /\ a % QueueCap = IF a < QueueCap THEN a ELSE a - QueueCap
<1> DEFINE n == QueueCap
<1>1. n \in Nat /\ n > 0
  BY QueueAssumption
<1>2. CASE a < n
  BY <1>1, <1>2 DEF Slot
<1>3. CASE ~(a < n)
  <2>1. PICK b \in 0 .. (n - 1) : b = a - n
    BY <1>1, <1>3
  <2>2. b % n = b
    BY <1>1, <2>1
  <2>3. (b + n) % n = b % n
    BY <1>1, <2>1
  <2> QED
    BY <1>1, <1>3, <2>1, <2>2, <2>3 DEF Slot
<1> QED
  BY <1>2, <1>3

\* The places behind the head are different slots, and one place further is
\* the next slot.
LEMMA Places ==
    ASSUME NEW h \in Slot
    PROVE  /\ QueueCap \in Nat /\ QueueCap > 0
           /\ \A i \in 0 .. QueueCap : (h + i) % QueueCap \in Slot
           /\ \A i, j \in 0 .. (QueueCap - 1) :
                 (h + i) % QueueCap = (h + j) % QueueCap => i = j
           /\ \A i \in 0 .. (QueueCap - 1) :
                 /\ (((h + i) % QueueCap) + 1) % QueueCap = (h + (i + 1)) % QueueCap
                 /\ (((h + 1) % QueueCap) + i) % QueueCap = (h + (i + 1)) % QueueCap
                 /\ (((h + (i + 1)) % QueueCap) + QueueCap - 1) % QueueCap = (h + i) % QueueCap
           /\ h % QueueCap = h
<1> DEFINE N == QueueCap
           W(a) == IF a < N THEN a ELSE a - N
<1>1. N \in Nat /\ N > 0 /\ h \in 0 .. (N - 1)
  BY QueueAssumption DEF Slot
<1>2. \A a \in Nat : a < 2 * N => a % N \in Slot /\ a % N = W(a)
  BY Wrap
<1>3. \A i \in 0 .. N : (h + i) % N \in Slot /\ (h + i) % N = W(h + i)
  BY <1>1, <1>2
<1>4. \A i, j \in 0 .. (N - 1) : W(h + i) = W(h + j) => i = j
  BY <1>1
<1>5. \A i, j \in 0 .. (N - 1) : (h + i) % N = (h + j) % N => i = j
  <2> SUFFICES ASSUME NEW i \in 0 .. (N - 1), NEW j \in 0 .. (N - 1), (h + i) % N = (h + j) % N
               PROVE  i = j
    OBVIOUS
  <2>1. i \in 0 .. N /\ j \in 0 .. N
    BY <1>1
  <2>2. W(h + i) = W(h + j)
    BY <1>3, <2>1
  <2> HIDE DEF W
  <2> QED
    BY <1>4, <2>2
<1>6. ASSUME NEW i \in 0 .. (N - 1)
      PROVE  /\ (((h + i) % N) + 1) % N = (h + (i + 1)) % N
             /\ (((h + 1) % N) + i) % N = (h + (i + 1)) % N
             /\ (((h + (i + 1)) % N) + N - 1) % N = (h + i) % N
  <2>1. i \in 0 .. N /\ i + 1 \in 0 .. N /\ 1 \in 0 .. N
    BY <1>1
  <2>2. /\ (h + i) % N = W(h + i)
        /\ (h + (i + 1)) % N = W(h + (i + 1))
        /\ (h + 1) % N = W(h + 1)
    BY <1>3, <2>1
  <2>3. /\ W(h + i) + 1 \in Nat /\ W(h + i) + 1 < 2 * N
        /\ W(h + 1) + i \in Nat /\ W(h + 1) + i < 2 * N
        /\ W(h + (i + 1)) + N - 1 \in Nat /\ W(h + (i + 1)) + N - 1 < 2 * N
    BY <1>1
  <2>4. /\ (W(h + i) + 1) % N = W(W(h + i) + 1)
        /\ (W(h + 1) + i) % N = W(W(h + 1) + i)
        /\ (W(h + (i + 1)) + N - 1) % N = W(W(h + (i + 1)) + N - 1)
    <3> HIDE DEF W
    <3> QED BY <1>2, <2>3
  <2>5. /\ W(W(h + i) + 1) = W(h + (i + 1))
        /\ W(W(h + 1) + i) = W(h + (i + 1))
        /\ W(W(h + (i + 1)) + N - 1) = W(h + i)
    BY <1>1
  <2> HIDE DEF W
  <2> QED
    BY <2>2, <2>4, <2>5
<1>7. h % N = h
  BY <1>1
<1>8. \A i \in 0 .. N : (h + i) % N \in Slot
  BY <1>3
<1> HIDE DEF W
<1> QED
  BY <1>1, <1>5, <1>6, <1>7, <1>8

-----------------------------------------------------------------------------
(* The indices, and the wakeups. *)

\* The steps of the queue, one by one.
LEMMA QueueCases ==
    ASSUME [QueueNext]_queueVars
    PROVE  \/ \E e \in QueueEvent : PushEvent(e)
           \/ \E e \in QueueEvent : PushFull(e)
           \/ \E e \in QueueEvent : PushNoMemory(e)
           \/ \E c \in Consumer : Pop(c)
           \/ \E c \in Consumer : PopWaits(c)
           \/ \E c \in Consumer : SpuriousWakeup(c)
           \/ \E id \in EventId : WaitAck(id)
           \/ UNCHANGED queueVars
  BY DEF QueueNext

\* What event_queue_wait_ack does to the ring, if it finds its event.
LEMMA WaitAckCases ==
    ASSUME NEW id, WaitAck(id)
    PROVE  \/ \E i \in 0 .. (count - 1) :
                 /\ IsAck(i, id) /\ \A j \in 0 .. (i - 1) : ~IsAck(j, id)
                 /\ TakeAckAt(i)
                 /\ did' = <<"wait_ack", id, 0>>
                 /\ UNCHANGED thread
           \/ /\ \A i \in 0 .. (count - 1) : ~IsAck(i, id)
              /\ did' = <<"wait_ack", id, -1>>
              /\ UNCHANGED <<ringVars, thread>>
  BY DEF WaitAck, ringVars

LEMMA RingInit == QueueInit => RingInv
<1> SUFFICES ASSUME QueueInit PROVE RingInv
  OBVIOUS
<1>1. QueueCap \in Nat /\ QueueCap > 0 /\ 0 \in Slot
  BY QueueAssumption DEF Slot
<1>2. (head + count) % QueueCap = 0
  BY <1>1 DEF QueueInit
<1> QED
  BY <1>1, <1>2 DEF QueueInit, RingInv

LEMMA RingStep ==
    ASSUME RingInv, [QueueNext]_queueVars
    PROVE  RingInv'
<1>1. /\ head \in Slot /\ tail \in Slot /\ count \in 0 .. QueueCap
      /\ tail = (head + count) % QueueCap
      /\ buffer \in [Slot -> QueueEvent \cup {Zero}]
      /\ thread \in [Consumer -> {"outside", "asleep", "woken"}]
  BY DEF RingInv
<1>2. /\ QueueCap \in Nat /\ QueueCap > 0
      /\ \A i \in 0 .. (QueueCap - 1) :
            /\ (((head + i) % QueueCap) + 1) % QueueCap = (head + (i + 1)) % QueueCap
            /\ (((head + 1) % QueueCap) + i) % QueueCap = (head + (i + 1)) % QueueCap
            /\ (((head + (i + 1)) % QueueCap) + QueueCap - 1) % QueueCap = (head + i) % QueueCap
      /\ \A i \in 0 .. QueueCap : (head + i) % QueueCap \in Slot
  BY <1>1, Places
<1>3. ASSUME NEW e \in QueueEvent, PushEvent(e)
      PROVE  RingInv'
  <2>1. count \in 0 .. (QueueCap - 1)
    BY <1>1, <1>2, <1>3 DEF PushEvent
  <2>2. /\ tail' = (head + (count + 1)) % QueueCap /\ count' = count + 1 /\ head' = head
        /\ tail' \in Slot
    <3>1. /\ tail' = (((head + count) % QueueCap) + 1) % QueueCap
          /\ count' = count + 1 /\ head' = head
      BY <1>1, <1>3 DEF PushEvent
    <3>2. count + 1 \in 0 .. QueueCap
      BY <1>2, <2>1
    <3> QED
      BY <1>2, <2>1, <3>1, <3>2
  <2>3. buffer' \in [Slot -> QueueEvent \cup {Zero}]
    BY <1>1, <1>3 DEF PushEvent
  <2>4. thread' \in [Consumer -> {"outside", "asleep", "woken"}]
    BY <1>1, <1>3 DEF PushEvent, Signal, Asleep
  <2> QED
    BY <1>1, <1>2, <2>1, <2>2, <2>3, <2>4 DEF RingInv
<1>4. ASSUME NEW e \in QueueEvent, PushFull(e) \/ PushNoMemory(e)
      PROVE  RingInv'
  BY <1>1, <1>4 DEF PushFull, PushNoMemory, RingInv, ringVars
<1>5. ASSUME NEW c \in Consumer, Pop(c)
      PROVE  RingInv'
  <2>1. PICK i \in 0 .. (QueueCap - 1) : count = i + 1
    BY <1>1, <1>2, <1>5 DEF Pop
  <2>2. /\ head' = (head + 1) % QueueCap /\ count' = i
        /\ tail' = (head + (i + 1)) % QueueCap
    BY <1>1, <1>5, <2>1 DEF Pop
  <2>3. head' \in Slot /\ tail' = (head' + count') % QueueCap
    BY <1>2, <2>1, <2>2
  <2>4. /\ buffer' = buffer /\ tail' = tail
        /\ thread' \in [Consumer -> {"outside", "asleep", "woken"}]
    BY <1>1, <1>5 DEF Pop
  <2> QED
    BY <1>1, <1>2, <2>1, <2>2, <2>3, <2>4 DEF RingInv
<1>6. ASSUME NEW c \in Consumer, PopWaits(c) \/ SpuriousWakeup(c)
      PROVE  RingInv'
  BY <1>1, <1>6 DEF PopWaits, SpuriousWakeup, RingInv, ringVars
<1>7. ASSUME NEW id \in EventId, NEW k \in 0 .. (count - 1), TakeAckAt(k), UNCHANGED thread
      PROVE  RingInv'
  <2>1. PICK i \in 0 .. (QueueCap - 1) : count = i + 1
    BY <1>1, <1>2
  <2>2. /\ tail' = (((head + (i + 1)) % QueueCap) + QueueCap - 1) % QueueCap
        /\ count' = i /\ head' = head
    BY <1>1, <1>7, <2>1 DEF TakeAckAt
  <2>3. tail' = (head' + count') % QueueCap /\ tail' \in Slot
    BY <1>2, <2>1, <2>2
  <2>4. \A s \in Slot : (s + 1) % QueueCap \in Slot
    BY Places
  <2>5. buffer' \in [Slot -> QueueEvent \cup {Zero}]
    BY <1>1, <1>7, <2>4 DEF TakeAckAt
  <2> QED
    BY <1>1, <1>2, <1>7, <2>1, <2>2, <2>3, <2>5 DEF RingInv
<1>8. CASE UNCHANGED <<ringVars, thread>>
  BY <1>8 DEF RingInv, ringVars
<1>9. ASSUME NEW id \in EventId, WaitAck(id)
      PROVE  RingInv'
  BY <1>7, <1>8, <1>9, WaitAckCases
<1> QED
  BY <1>3, <1>4, <1>5, <1>6, <1>8, <1>9, QueueCases DEF queueVars

\* event_queue.c keeps head, tail and count in step, for every capacity.
THEOREM RingInvHolds == QueueSpec => []RingInv
  BY RingInit, RingStep, PTL DEF QueueSpec

\* Sleeping and woken consumers can be counted.
LEMMA WokenFinite ==
    /\ IsFiniteSet(Woken) /\ Cardinality(Woken) \in Nat
    /\ IsFiniteSet(Woken') /\ Cardinality(Woken') \in Nat
<1>1. Woken \in SUBSET Consumer /\ Woken' \in SUBSET Consumer
  BY DEF Woken
<1> QED
  BY <1>1, ConsumerAssumption, FS_Subset, FS_CardinalityType

LEMMA WakeupStep ==
    ASSUME RingInv, NoLostWakeup, [QueueNext]_queueVars
    PROVE  NoLostWakeup'
<1>1. /\ count \in 0 .. QueueCap /\ QueueCap \in Nat
      /\ thread \in [Consumer -> {"outside", "asleep", "woken"}]
  BY QueueAssumption DEF RingInv
<1>2. /\ IsFiniteSet(Woken) /\ Cardinality(Woken) \in Nat
      /\ IsFiniteSet(Woken') /\ Cardinality(Woken') \in Nat
  BY WokenFinite
<1>3. ASSUME NEW e \in QueueEvent, PushEvent(e)
      PROVE  NoLostWakeup'
  <2>1. CASE Asleep = {} /\ UNCHANGED thread
    BY <2>1 DEF NoLostWakeup, Asleep
  <2>2. ASSUME NEW c \in Asleep, thread' = [thread EXCEPT ![c] = "woken"]
        PROVE  NoLostWakeup'
    <3>1. Woken' = Woken \cup {c} /\ c \notin Woken
      BY <1>1, <2>2 DEF Asleep, Woken
    <3>2. Cardinality(Woken') = Cardinality(Woken) + 1
      BY <1>2, <3>1, FS_AddElement
    <3>3. count <= Cardinality(Woken) /\ count' = count + 1
      BY <1>3, <2>2 DEF NoLostWakeup, PushEvent
    <3> QED
      BY <1>1, <1>2, <3>2, <3>3 DEF NoLostWakeup
  <2> QED
    BY <1>3, <2>1, <2>2 DEF PushEvent, Signal
<1>4. ASSUME NEW c \in Consumer, Pop(c)
      PROVE  NoLostWakeup'
  <2>1. Asleep' = Asleep /\ Woken' = Woken \ {c}
    BY <1>1, <1>4 DEF Pop, Asleep, Woken
  <2>2. Cardinality(Woken') >= Cardinality(Woken) - 1
    BY <1>2, <2>1, FS_RemoveElement
  <2>3. count' = count - 1
    BY <1>4 DEF Pop
  <2> QED
    BY <1>1, <1>2, <2>1, <2>2, <2>3 DEF NoLostWakeup
<1>5. ASSUME NEW c \in Consumer, PopWaits(c)
      PROVE  NoLostWakeup'
  BY <1>2, <1>5 DEF PopWaits, NoLostWakeup, ringVars
<1>6. ASSUME NEW c \in Consumer, SpuriousWakeup(c)
      PROVE  NoLostWakeup'
  <2>1. Woken' = Woken \cup {c} /\ Asleep # {}
    BY <1>1, <1>6 DEF SpuriousWakeup, Asleep, Woken
  <2>2. Cardinality(Woken') >= Cardinality(Woken)
    BY <1>2, <2>1, FS_AddElement
  <2> QED
    BY <1>1, <1>2, <1>6, <2>1, <2>2 DEF NoLostWakeup, SpuriousWakeup, ringVars
<1>7. CASE count' <= count /\ count' \in Nat /\ UNCHANGED thread
  BY <1>1, <1>2, <1>7 DEF NoLostWakeup, Asleep, Woken
<1>8. ASSUME NEW id \in EventId, WaitAck(id)
      PROVE  NoLostWakeup'
  <2>1. count' <= count /\ count' \in Nat /\ UNCHANGED thread
    BY <1>1, <1>8, WaitAckCases DEF TakeAckAt, ringVars
  <2> QED
    BY <1>7, <2>1
<1>9. ASSUME NEW e \in QueueEvent, PushFull(e) \/ PushNoMemory(e)
      PROVE  NoLostWakeup'
  <2>1. count' = count /\ UNCHANGED thread
    BY <1>9 DEF PushFull, PushNoMemory, ringVars
  <2> QED
    BY <1>1, <1>7, <2>1
<1>10. CASE UNCHANGED queueVars
  <2>1. count' = count /\ UNCHANGED thread
    BY <1>10 DEF queueVars, ringVars
  <2> QED
    BY <1>1, <1>7, <2>1
<1> QED
  BY <1>3, <1>4, <1>5, <1>6, <1>8, <1>9, <1>10, QueueCases

\* pthread_cond_signal in event_queue_push is enough: while a consumer sleeps,
\* there is a woken consumer for every event, however many consumers there are.
THEOREM NoLostWakeupHolds == QueueSpec => []NoLostWakeup
<1>1. QueueInit => NoLostWakeup
  <2>1. QueueInit => Asleep = {}
    BY DEF QueueInit, Asleep
  <2> QED
    BY <2>1 DEF NoLostWakeup
<1> QED
  BY <1>1, RingInvHolds, WakeupStep, PTL DEF QueueSpec

-----------------------------------------------------------------------------
(* The ring is a queue. *)

\* The events between head and tail are a sequence.
LiveInv ==
    /\ Live \in Seq(QueueEvent \cup {Zero})
    /\ Len(Live) = count
    /\ \A k \in 1 .. count : Live[k] = buffer[SlotOf(k - 1)]

LEMMA LiveFacts == RingInv => LiveInv
<1> SUFFICES ASSUME RingInv PROVE LiveInv
  OBVIOUS
<1>1. /\ head \in Slot /\ count \in 0 .. QueueCap
      /\ buffer \in [Slot -> QueueEvent \cup {Zero}]
  BY DEF RingInv
<1>2. /\ QueueCap \in Nat
      /\ \A i \in 0 .. QueueCap : (head + i) % QueueCap \in Slot
  BY <1>1, Places
<1>3. \A k \in 1 .. count : k - 1 \in 0 .. QueueCap /\ head + k - 1 = head + (k - 1)
  BY <1>1, <1>2 DEF Slot
<1>4. \A k \in 1 .. count : buffer[(head + k - 1) % QueueCap] \in QueueEvent \cup {Zero}
  BY <1>1, <1>2, <1>3
<1>5. Live \in [1 .. count -> QueueEvent \cup {Zero}]
  BY <1>4 DEF Live
<1>6. \A k \in 1 .. count : Live[k] = buffer[SlotOf(k - 1)]
  BY <1>3 DEF Live, SlotOf
<1> QED
  BY <1>1, <1>2, <1>5, <1>6 DEF LiveInv

\* The same after a step.
LEMMA LiveFactsNext == RingInv' => LiveInv'
  BY LiveFacts, PTL

\* A slot that is written at tail is not between head and tail.
LEMMA TailIsFree ==
    ASSUME RingInv, count < QueueCap, NEW i \in 0 .. (count - 1)
    PROVE  SlotOf(i) \in Slot /\ SlotOf(i) # tail
<1>1. /\ head \in Slot /\ count \in 0 .. QueueCap
      /\ tail = (head + count) % QueueCap
  BY DEF RingInv
<1>2. QueueCap \in Nat /\ i \in 0 .. QueueCap /\ i \in 0 .. (QueueCap - 1)
      /\ count \in 0 .. (QueueCap - 1) /\ i # count
  BY <1>1, QueueAssumption
<1> QED
  BY <1>1, <1>2, Places DEF SlotOf

LEMMA PushIsAppend ==
    ASSUME RingInv, RingInv', NEW e \in QueueEvent, PushEvent(e)
    PROVE  Live' = Append(Live, e)
<1> DEFINE E == QueueEvent \cup {Zero}
<1>1. /\ Live \in Seq(E) /\ Len(Live) = count
      /\ \A k \in 1 .. count : Live[k] = buffer[SlotOf(k - 1)]
  BY LiveFacts DEF LiveInv
<1>2. /\ Live' \in Seq(E) /\ Len(Live') = count'
      /\ \A k \in 1 .. count' : Live'[k] = buffer'[SlotOf(k - 1)']
  BY LiveFactsNext DEF LiveInv
<1>3. /\ count' = count + 1 /\ count < QueueCap /\ head' = head
      /\ buffer' = [buffer EXCEPT ![tail] = e]
  BY DEF PushEvent
<1>4. /\ count \in Nat /\ tail \in Slot /\ tail = SlotOf(count)
      /\ buffer \in [Slot -> E]
  BY QueueAssumption DEF RingInv, SlotOf
<1>5. \A i : SlotOf(i)' = SlotOf(i)
  BY <1>3 DEF SlotOf
<1>6. /\ Append(Live, e) \in Seq(E) /\ Len(Append(Live, e)) = count + 1
      /\ \A k \in 1 .. count : Append(Live, e)[k] = Live[k]
      /\ Append(Live, e)[count + 1] = e
  BY <1>1, AppendProperties
<1>7. ASSUME NEW k \in 1 .. count
      PROVE  Live'[k] = Live[k]
  <2>1. k - 1 \in 0 .. (count - 1) /\ k \in 1 .. count'
    BY <1>3, <1>4
  <2>2. SlotOf(k - 1) \in Slot /\ SlotOf(k - 1) # tail
    BY <1>3, <2>1, TailIsFree
  <2>3. buffer'[SlotOf(k - 1)] = buffer[SlotOf(k - 1)]
    BY <1>3, <1>4, <2>2
  <2> QED
    BY <1>1, <1>2, <1>5, <2>1, <2>3
<1>8. Live'[count + 1] = e
  <2>1. count + 1 \in 1 .. count' /\ (count + 1) - 1 = count
    BY <1>3, <1>4
  <2>2. Live'[count + 1] = buffer'[SlotOf(count)]
    BY <1>2, <1>5, <2>1
  <2> QED
    BY <1>3, <1>4, <2>2
<1>9. \A k \in 1 .. (count + 1) : Live'[k] = Append(Live, e)[k]
  BY <1>4, <1>6, <1>7, <1>8
<1> HIDE DEF E
<1> QED
  BY <1>2, <1>3, <1>4, <1>6, <1>9, SeqEqual

LEMMA NoMemoryKeepsLive ==
    ASSUME RingInv, RingInv', NEW e \in QueueEvent, PushNoMemory(e)
    PROVE  Live' = Live
<1>1. /\ count' = count /\ count < QueueCap /\ head' = head
      /\ buffer' = [buffer EXCEPT ![tail] = e]
  BY DEF PushNoMemory
<1>2. /\ count \in Nat /\ tail \in Slot
      /\ buffer \in [Slot -> QueueEvent \cup {Zero}]
  BY QueueAssumption DEF RingInv
<1>3. ASSUME NEW k \in 1 .. count
      PROVE  Live'[k] = Live[k]
  <2>1. k - 1 \in 0 .. (count - 1) /\ SlotOf(k - 1)' = SlotOf(k - 1)
    BY <1>1, <1>2 DEF SlotOf
  <2>2. SlotOf(k - 1) \in Slot /\ SlotOf(k - 1) # tail
    BY <1>1, <2>1, TailIsFree
  <2>3. buffer'[SlotOf(k - 1)] = buffer[SlotOf(k - 1)]
    BY <1>1, <1>2, <2>2
  <2> QED
    BY <1>1, <2>1, <2>3, LiveFacts, LiveFactsNext DEF LiveInv
<1> QED
  BY <1>1, <1>3, LiveFacts, LiveFactsNext, SeqEqual DEF LiveInv

LEMMA PopIsTail ==
    ASSUME RingInv, RingInv', NEW c \in Consumer, Pop(c)
    PROVE  Live # <<>> /\ Head(Live) = buffer[head] /\ Live' = Tail(Live)
<1> DEFINE E == QueueEvent \cup {Zero}
<1>1. /\ Live \in Seq(E) /\ Len(Live) = count
      /\ \A k \in 1 .. count : Live[k] = buffer[SlotOf(k - 1)]
  BY LiveFacts DEF LiveInv
<1>2. /\ Live' \in Seq(E) /\ Len(Live') = count'
      /\ \A k \in 1 .. count' : Live'[k] = buffer'[SlotOf(k - 1)']
  BY LiveFactsNext DEF LiveInv
<1>3. /\ count' = count - 1 /\ count > 0 /\ head' = (head + 1) % QueueCap
      /\ buffer' = buffer
  BY DEF Pop
<1>4. head \in Slot /\ count \in 0 .. QueueCap /\ QueueCap \in Nat
  BY QueueAssumption DEF RingInv
<1>5. SlotOf(0) = head
  BY <1>4, Places DEF SlotOf, Slot
<1>6. Live # <<>> /\ 1 \in 1 .. count
  BY <1>1, <1>3, <1>4, EmptySeq
<1>7. Head(Live) = buffer[head]
  BY <1>1, <1>5, <1>6
<1>8. /\ Tail(Live) \in Seq(E) /\ Len(Tail(Live)) = count - 1
      /\ \A k \in 1 .. (count - 1) : Tail(Live)[k] = Live[k + 1]
  BY <1>1, <1>6, HeadTailProperties
<1>9. ASSUME NEW k \in 1 .. (count - 1)
      PROVE  Live'[k] = Tail(Live)[k]
  <2>1. k - 1 \in 0 .. (QueueCap - 1) /\ (k - 1) + 1 = k /\ k + 1 \in 1 .. count /\ (k + 1) - 1 = k
    BY <1>4
  <2>2. (((head + 1) % QueueCap) + (k - 1)) % QueueCap = (head + ((k - 1) + 1)) % QueueCap
    BY <1>4, <2>1, Places
  <2>3. SlotOf(k - 1)' = SlotOf(k)
    BY <1>3, <2>1, <2>2 DEF SlotOf
  <2> QED
    BY <1>1, <1>2, <1>3, <1>8, <2>1, <2>3
<1> HIDE DEF E
<1> QED
  BY <1>2, <1>3, <1>6, <1>7, <1>8, <1>9, SeqEqual

LEMMA TakeAckIsWithout ==
    ASSUME RingInv, RingInv', NEW i \in 0 .. (count - 1), TakeAckAt(i)
    PROVE  Live' = Without(Live, i + 1)
<1> DEFINE E == QueueEvent \cup {Zero}
           w == Without(Live, i + 1)
<1>1. /\ Live \in Seq(E) /\ Len(Live) = count
      /\ \A k \in 1 .. count : Live[k] = buffer[SlotOf(k - 1)]
  BY LiveFacts DEF LiveInv
<1>2. /\ Live' \in Seq(E) /\ Len(Live') = count'
      /\ \A k \in 1 .. count' : Live'[k] = buffer'[SlotOf(k - 1)']
  BY LiveFactsNext DEF LiveInv
<1>3. /\ count' = count - 1 /\ head' = head
      /\ buffer' = [k \in Slot |->
                       IF \E j \in i .. (count - 2) : SlotOf(j) = k
                         THEN buffer[(k + 1) % QueueCap] ELSE buffer[k]]
  BY DEF TakeAckAt
<1>4. head \in Slot /\ count \in 0 .. QueueCap /\ QueueCap \in Nat
  BY QueueAssumption DEF RingInv
<1>5. /\ \A a \in 0 .. (QueueCap - 1) : SlotOf(a) \in Slot
      /\ \A a, b \in 0 .. (QueueCap - 1) : SlotOf(a) = SlotOf(b) => a = b
      /\ \A a \in 0 .. (QueueCap - 1) : (SlotOf(a) + 1) % QueueCap = SlotOf(a + 1)
  BY <1>4, Places DEF SlotOf
<1>6. \A a : SlotOf(a)' = SlotOf(a)
  BY <1>3 DEF SlotOf
<1>7. i + 1 \in 1 .. Len(Live)
  BY <1>1, <1>4
<1>8. w \in Seq(E) /\ Len(w) = count - 1
  BY <1>1, <1>7, WithoutFacts
<1>9. \A k \in 1 .. (count - 1) : w[k] = IF k < i + 1 THEN Live[k] ELSE Live[k + 1]
  BY <1>1 DEF Without
<1>10. ASSUME NEW k \in 1 .. (count - 1)
       PROVE  Live'[k] = w[k]
  <2>1. /\ k - 1 \in 0 .. (QueueCap - 1) /\ k \in 1 .. count /\ k + 1 \in 1 .. count
        /\ (k - 1) + 1 = k /\ (k + 1) - 1 = k /\ k \in 1 .. count'
    BY <1>3, <1>4
  <2>2. Live'[k] = buffer'[SlotOf(k - 1)] /\ SlotOf(k - 1) \in Slot
    BY <1>2, <1>5, <1>6, <2>1
  <2>3. CASE k < i + 1
    <3>1. ~ \E j \in i .. (count - 2) : SlotOf(j) = SlotOf(k - 1)
      <4> SUFFICES ASSUME NEW j \in i .. (count - 2), SlotOf(j) = SlotOf(k - 1)
                   PROVE  FALSE
        OBVIOUS
      <4>1. j \in 0 .. (QueueCap - 1) /\ j # k - 1
        BY <1>4, <2>1, <2>3
      <4> QED
        BY <1>5, <2>1, <4>1
    <3>2. buffer'[SlotOf(k - 1)] = buffer[SlotOf(k - 1)]
      BY <1>3, <2>2, <3>1
    <3> QED
      BY <1>1, <1>9, <2>1, <2>2, <2>3, <3>2
  <2>4. CASE ~(k < i + 1)
    <3>1. k - 1 \in i .. (count - 2)
      BY <1>4, <2>1, <2>4
    <3>2. buffer'[SlotOf(k - 1)] = buffer[(SlotOf(k - 1) + 1) % QueueCap]
      BY <1>3, <2>2, <3>1
    <3>3. (SlotOf(k - 1) + 1) % QueueCap = SlotOf(k)
      BY <1>5, <2>1
    <3> QED
      BY <1>1, <1>9, <2>1, <2>2, <2>4, <3>2, <3>3
  <2> QED
    BY <2>3, <2>4
<1> HIDE DEF E, w
<1>11. Live' = w
  BY <1>2, <1>3, <1>8, <1>10, SeqEqual
<1> QED
  BY <1>11 DEF w

\* The acknowledgement that event_queue_wait_ack finds is the first in the queue.
LEMMA FirstAck ==
    ASSUME RingInv, NEW id, NEW i \in 0 .. (count - 1),
           IsAck(i, id), \A j \in 0 .. (i - 1) : ~IsAck(j, id)
    PROVE  AckPositions(Live, id) # {} /\ TakeAck(Live, id) = Without(Live, i + 1)
<1>1. Len(Live) = count /\ \A k \in 1 .. count : Live[k] = buffer[SlotOf(k - 1)]
  BY LiveFacts DEF LiveInv
<1>2. count \in Nat
  BY QueueAssumption DEF RingInv
<1>3. \A k : k \in AckPositions(Live, id) <=> k \in 1 .. count /\ IsAck(k - 1, id)
  BY <1>1 DEF AckPositions, IsAck
<1>4. i + 1 \in AckPositions(Live, id)
  <2>1. i + 1 \in 1 .. count /\ (i + 1) - 1 = i
    BY <1>2
  <2> QED
    BY <1>3, <2>1
<1>5. \A k \in AckPositions(Live, id) : i + 1 <= k
  <2> SUFFICES ASSUME NEW k \in AckPositions(Live, id), ~(i + 1 <= k)
               PROVE  FALSE
    OBVIOUS
  <2>1. k \in 1 .. count /\ IsAck(k - 1, id)
    BY <1>3
  <2>2. k - 1 \in 0 .. (i - 1)
    BY <1>2, <2>1
  <2> QED
    BY <2>1, <2>2
<1>6. AckPositions(Live, id) \subseteq Nat
  BY <1>1, <1>2 DEF AckPositions
<1> DEFINE first == CHOOSE k \in AckPositions(Live, id) : \A j \in AckPositions(Live, id) : k <= j
<1>7. first \in AckPositions(Live, id) /\ \A j \in AckPositions(Live, id) : first <= j
  BY <1>4, <1>5
<1>8. first = i + 1
  <2> HIDE DEF first
  <2> QED BY <1>4, <1>5, <1>6, <1>7
<1> QED
  BY <1>4, <1>8 DEF TakeAck

\* FifoSpec has its operations from EventFifo.
LEMMA SameOperations ==
    /\ \A q, e : Abstract!Push(q, e) = Push(q, e)
    /\ \A q, i : Abstract!AckPositions(q, i) = AckPositions(q, i)
    /\ \A q, i : Abstract!TakeAck(q, i) = TakeAck(q, i)
<1>1. \A q, e : Abstract!Push(q, e) = Push(q, e)
  BY DEF Push, Abstract!Push
<1>2. \A q, i : Abstract!AckPositions(q, i) = AckPositions(q, i)
  BY DEF AckPositions, Abstract!AckPositions
<1>3. \A q, i : Abstract!TakeAck(q, i) = TakeAck(q, i)
  BY <1>2 DEF TakeAck, Abstract!TakeAck, Without, Abstract!Without
<1> QED
  BY <1>1, <1>2, <1>3

\* Every step of the ring is a step of the queue, or leaves it alone.
LEMMA FifoStep ==
    ASSUME RingInv, RingInv', [QueueNext]_queueVars
    PROVE  [Abstract!FifoNext]_<<Live, did>>
<1>1. Len(Live) = count /\ count \in Nat /\ QueueCap \in Nat
  BY LiveFacts, QueueAssumption DEF RingInv, LiveInv
<1>2. ASSUME NEW e \in QueueEvent, PushEvent(e)
      PROVE  Abstract!FifoNext
  <2>1. Live' = Append(Live, e)
    BY <1>2, PushIsAppend
  <2>2. Live' = Push(Live, e)
    BY <1>1, <1>2, <2>1 DEF Push, PushEvent
  <2>3. Len(Live') # Len(Live)
    BY <1>1, <1>2, LiveFactsNext DEF PushEvent, LiveInv
  <2>4. Live' # Live
    BY <2>3
  <2>5. did' = <<"push", e, 0>>
    BY <1>2 DEF PushEvent
  <2>6. Abstract!FifoPush(e)
    BY <2>2, <2>4, <2>5, SameOperations DEF Abstract!FifoPush
  <2> QED
    BY <2>6 DEF Abstract!FifoNext, Abstract!FifoEvent, QueueEvent
<1>3. ASSUME NEW e \in QueueEvent, PushFull(e)
      PROVE  Abstract!FifoNext
  <2>1. Live' = Live /\ did' = <<"push", e, -1>> /\ count >= QueueCap
    BY <1>3 DEF PushFull, ringVars, Live
  <2>2. Push(Live, e) = Live
    BY <1>1, <2>1 DEF Push
  <2>3. Abstract!FifoPush(e)
    BY <2>1, <2>2, SameOperations DEF Abstract!FifoPush
  <2> QED
    BY <2>3 DEF Abstract!FifoNext, Abstract!FifoEvent, QueueEvent
<1>4. ASSUME NEW e \in QueueEvent, PushNoMemory(e)
      PROVE  Abstract!FifoNext
  <2>1. Live' = Live
    BY <1>4, NoMemoryKeepsLive
  <2>2. Abstract!FifoNoMemory(e)
    BY <1>4, <2>1 DEF PushNoMemory, Abstract!FifoNoMemory
  <2> QED
    BY <2>2 DEF Abstract!FifoNext, Abstract!FifoEvent, QueueEvent
<1>5. ASSUME NEW c \in Consumer, Pop(c)
      PROVE  Abstract!FifoNext
  <2>1. Abstract!FifoPop
    BY <1>5, PopIsTail DEF Pop, Abstract!FifoPop
  <2> QED
    BY <2>1 DEF Abstract!FifoNext
<1>6. ASSUME NEW id \in EventId, WaitAck(id)
      PROVE  Abstract!FifoNext
  <2>1. ASSUME NEW i \in 0 .. (count - 1), IsAck(i, id),
               \A j \in 0 .. (i - 1) : ~IsAck(j, id),
               TakeAckAt(i), did' = <<"wait_ack", id, 0>>
        PROVE  Abstract!FifoTakeAck(id)
    BY <2>1, FirstAck, TakeAckIsWithout, SameOperations DEF Abstract!FifoTakeAck
  <2>2. ASSUME \A i \in 0 .. (count - 1) : ~IsAck(i, id),
               did' = <<"wait_ack", id, -1>>, UNCHANGED ringVars
        PROVE  Abstract!FifoTakeAck(id)
    <3>1. Live' = Live
      BY <2>2 DEF ringVars, Live
    <3>2. ASSUME NEW k \in AckPositions(Live, id)
          PROVE  FALSE
      <4>1. k \in 1 .. count /\ Live[k] = buffer[SlotOf(k - 1)]
        BY <1>1, LiveFacts DEF AckPositions, LiveInv
      <4>2. k - 1 \in 0 .. (count - 1) /\ IsAck(k - 1, id)
        BY <1>1, <4>1 DEF AckPositions, IsAck
      <4> QED
        BY <2>2, <4>2
    <3> QED
      BY <2>2, <3>1, <3>2, SameOperations DEF Abstract!FifoTakeAck
  <2>3. Abstract!FifoTakeAck(id)
    BY <1>6, <2>1, <2>2, WaitAckCases
  <2> QED
    BY <2>3 DEF Abstract!FifoNext
<1>7. ASSUME NEW c \in Consumer, PopWaits(c) \/ SpuriousWakeup(c)
      PROVE  UNCHANGED <<Live, did>>
  BY <1>7 DEF PopWaits, SpuriousWakeup, ringVars, Live
<1>8. CASE UNCHANGED queueVars
  BY <1>8 DEF queueVars, ringVars, Live
<1> QED
  BY <1>2, <1>3, <1>4, <1>5, <1>6, <1>7, <1>8, QueueCases

\* event_queue.c implements the bounded first-in first-out queue of FifoSpec,
\* wait_ack's removal from the middle of the ring included.
THEOREM RingImplementsFifo == QueueSpec => ImplementsFifo
<1>1. QueueInit => Abstract!FifoInit
  <2> SUFFICES ASSUME QueueInit PROVE Abstract!FifoInit
    OBVIOUS
  <2>1. Len(Live) = 0 /\ Live \in Seq(QueueEvent \cup {Zero})
    BY RingInit, LiveFacts DEF QueueInit, LiveInv
  <2>2. Live = <<>>
    BY <2>1, EmptySeq
  <2> QED
    BY <2>2 DEF QueueInit, Abstract!FifoInit
<1>2. RingInv /\ RingInv' /\ [QueueNext]_queueVars => [Abstract!FifoNext]_<<Live, did>>
  BY FifoStep
<1> QED
  BY <1>1, <1>2, RingInvHolds, PTL DEF QueueSpec, ImplementsFifo, Abstract!Fifo
=============================================================================
